------------------------- MODULE MCEntryMemory -------------------------
(* Small instances of EntryMemory: interchangeable analyses of one coin. *)
EXTENDS EntryMemory, TLC

CONSTANTS a1, a2, a3, btc

OneCoin == [a \in Analyses |-> btc]
Swap    == Permutations(Analyses)
========================================================================
