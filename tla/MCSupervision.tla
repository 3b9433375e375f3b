------------------------- MODULE MCSupervision -------------------------
(* The loop, the scheduler and one more daemon; one or two passes a host. *)
EXTENDS Supervision, TLC

CONSTANTS byLoop, bySched, bySched2

TwoPasses   == {byLoop, bySched}
ThreePasses == {byLoop, bySched, bySched2}
Hosts       == [p \in Passes |-> IF p = byLoop THEN Loop ELSE Sched]
=======================================================================
