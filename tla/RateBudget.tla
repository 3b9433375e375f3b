--------------------------- MODULE RateBudget ---------------------------
(***************************************************************************)
(* What a request budget promises, whoever keeps it: weight is granted     *)
(* out of a level that rises with time up to a capacity.  A window of time *)
(* is measured along with it; it may be opened at any moment.              *)
(***************************************************************************)
EXTENDS BudgetConstants

VARIABLES
    level,      \* what may be granted now
    elapsed,    \* ticks since the window was opened
    granted     \* weight granted since then

vars == <<level, elapsed, granted>>

Least(a, b) == IF a <= b THEN a ELSE b

Init == level = Capacity /\ elapsed = 0 /\ granted = 0

Tick ==
    /\ level' = Least(Capacity, level + Refill)
    /\ \/ elapsed < MaxWindow /\ elapsed' = elapsed + 1 /\ granted' = granted
       \/ elapsed = MaxWindow /\ elapsed' = 0 /\ granted' = 0

Grant ==
    \E w \in Weights :
        /\ w <= level
        /\ level' = level - w
        /\ granted' = granted + w
        /\ UNCHANGED elapsed

OpenWindow == elapsed' = 0 /\ granted' = 0 /\ UNCHANGED level

Next == Tick \/ Grant \/ OpenWindow

Spec == Init /\ [][Next]_vars
---------------------------------------------------------------------------
TypeOK == level \in 0..Capacity /\ elapsed \in 0..MaxWindow /\ granted \in Nat

\* However the requests fall, a window holds at most a full burst and what was
\* refilled within it.
WindowBound == granted <= Capacity + Refill * elapsed
===========================================================================
