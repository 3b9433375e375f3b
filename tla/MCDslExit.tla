---------------------------- MODULE MCDslExit ----------------------------
(* Marks from eight percent below to twelve percent above an entry of 100. *)
EXTENDS DslExit

Marks     == {92, 99, 100, 104, 112}
\* One breach and a break-even lock, or two breaches and a noise band.
TwoPolicies == {[trigger |-> 5, noise |-> FALSE, required |-> 1],
                [trigger |-> 0, noise |-> TRUE,  required |-> 2]}
TwoTiers  == <<[pct |-> 5, retrace |-> 40], [pct |-> 10, retrace |-> 60]>>
==========================================================================
