-------------------------- MODULE MCTokenBucket --------------------------
(* Two or three threads, a light endpoint and a heavy one. *)
EXTENDS TokenBucket, TLC

CONSTANTS t1, t2, t3

TwoThreads   == {t1, t2}
ThreeThreads == {t1, t2, t3}
==========================================================================
