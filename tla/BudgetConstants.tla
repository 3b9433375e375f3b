------------------------ MODULE BudgetConstants ------------------------
(***************************************************************************)
(* The parameters of a request budget, shared by its promise (RateBudget)  *)
(* and by the bucket that keeps it (TokenBucket).                          *)
(***************************************************************************)
EXTENDS Integers

CONSTANTS
    Capacity,   \* _capacity: the burst, the level of a budget that has rested
    Refill,     \* _refill, per clock tick
    Weights,    \* endpoint weights
    MaxWindow   \* bound: ticks after which a measured window is opened anew

ASSUME BudgetAssumption ==
    /\ Capacity \in Nat /\ Refill \in Nat
    /\ Weights \subseteq Nat \ {0}
    /\ MaxWindow \in Nat \ {0}
========================================================================
