--------------------------- MODULE MCScheduler ---------------------------
(* A job of minutes and two of a day, for two slots. *)
EXTENDS Scheduler

CONSTANTS alerts, cycle, backup

JobsInOrder == <<cycle, alerts, backup>>
OfMinutes   == {alerts}
==========================================================================
