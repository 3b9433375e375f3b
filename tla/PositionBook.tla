-------------------------- MODULE PositionBook --------------------------
(***************************************************************************)
(* What the account promises to hold of the bot's own trades, whoever of   *)
(* its parts makes them: an entry lands in a position that carries none,   *)
(* and stays the only one until the position ends.  The operator opens and *)
(* ends positions by hand; his carry no entry until the bot's first.       *)
(***************************************************************************)
EXTENDS Naturals

CONSTANTS
    Coins,
    Traders     \* the parts of the bot that enter: its books, or the loop as one

VARIABLES
    held,       \* coins with a position
    entries     \* coin -> trader -> entry fills in the position held now

vars == <<held, entries>>

None    == [t \in Traders |-> 0]
Bare(c) == entries[c] = None

Init == held = {} /\ entries = [c \in Coins |-> None]

\* The order may land in a position the operator opened since the account was read.
Enter(c, t) ==
    /\ Bare(c)
    /\ held' = held \cup {c}
    /\ entries' = [entries EXCEPT ![c] = [None EXCEPT ![t] = 1]]

OpenByHand(c) ==
    /\ c \notin held
    /\ held' = held \cup {c}
    /\ UNCHANGED entries

\* A position ends and takes its entry with it, whoever ended it.
End(c) ==
    /\ c \in held
    /\ held' = held \ {c}
    /\ entries' = [entries EXCEPT ![c] = None]

Next == \E c \in Coins : OpenByHand(c) \/ End(c) \/ \E t \in Traders : Enter(c, t)

Spec == Init /\ [][Next]_vars
---------------------------------------------------------------------------
\* At most one part of the bot has entered a coin's position, and once; none has
\* where there is no position.
OneEntry ==
    \A c \in Coins :
        Bare(c) \/ (c \in held /\ \E t \in Traders : entries[c] = [None EXCEPT ![t] = 1])
=========================================================================
