---------------------- MODULE MCPositionLifecycle ----------------------
(* Small instances of PositionLifecycle: a native coin and a HIP-3 coin. *)
EXTENDS PositionLifecycle

CONSTANTS btc, mu, xyz, main

TwoCoins  == {btc, mu}
TwoDexes  == {main, xyz}
OnDex     == [c \in {btc, mu} |-> IF c = btc THEN main ELSE xyz]
OneCoin   == {mu}
OneOnDex  == [c \in {mu} |-> xyz]
OneOnMain == [c \in {mu} |-> main]
BothSides == {"long", "short"}
OneSide   == {"short"}
========================================================================
