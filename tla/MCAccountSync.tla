-------------------------- MODULE MCAccountSync --------------------------
(* A native and a HIP-3 clearinghouse, so small that one move and one transfer   *)
(* within a tick make a swing that track_daily_pnl does not believe.            *)
EXTENDS AccountSync

CONSTANTS main, xyz

TwoDexes  == {main, xyz}
TwoAndOne == [d \in {main, xyz} |-> IF d = main THEN 2 ELSE 1]
==========================================================================
