---------------------------- MODULE Scheduler ----------------------------
(***************************************************************************)
(* scripts/scheduler.py: the jobs that come due, their threads, and the    *)
(* state file that is all a restarted scheduler knows of what has run.     *)
(*                                                                         *)
(* One thread ticks.  Each job it starts has a thread that waits for the   *)
(* job's process.  Both write the state file, under a lock of the process; *)
(* `scheduler.py --force` writes it from another process, without.  When   *)
(* the scheduler dies its jobs' processes live on.                         *)
(*                                                                         *)
(* A time matters only as compared with the last scheduled occurrence of   *)
(* its job: "new" is at or after it, "old" before it.  That the clock      *)
(* reaches the next occurrence makes every "new" of the job an "old".      *)
(***************************************************************************)
EXTENDS Naturals, FiniteSets, Sequences, SequencesExt

CONSTANTS
    Jobs,           \* JOBS
    Order,          \* its order
    Fast,           \* jobs that may come due again while they run
    ByHand,         \* jobs an operator forces
    MaxConcurrent,  \* MAX_CONCURRENT_JOBS
    Events,         \* {"crash", "disk", "force", "shared"}, or some of them
    MaxFaults       \* bound: deaths of the scheduler, failed saves and forced runs

None == "none"

ASSUME SchedulerAssumption ==
    /\ None \notin Jobs
    /\ Order \in Seq(Jobs) /\ ToSet(Order) = Jobs /\ Len(Order) = Cardinality(Jobs)
    /\ Fast \subseteq Jobs /\ ByHand \subseteq Jobs
    /\ MaxConcurrent \in Nat \ {0} /\ MaxFaults \in Nat
    /\ Events \subseteq {"crash", "disk", "force", "shared"}

\* Fewer jobs than slots can keep their slot for ever: the others are not starved.
ASSUME SlotsSuffice == Cardinality(Fast) < MaxConcurrent

VARIABLES
    file,       \* .state/scheduler.json: job -> last_run, last_ok
    up,         \* the scheduler runs
    now,        \* job -> how the time of the tick compares with its last occurrence
    snap,       \* tick: job -> last_run as the tick loaded it
    todo,       \* tick: jobs still to look at
    claim,      \* tick: how far the claim of Head(todo) is: none, wanted, loaded, saved
    thread,     \* job -> its thread: "none", "run", "ended", "loaded"
    since,      \* job -> the time of the tick that started the thread
    rc,         \* job -> the return code was 0
    copy,       \* the state file as the holder of the lock has loaded it
    lock,       \* _RUN_LOCK, while a stamp is under way: a job, None
    mixed,      \* who saves next may find the temporary file moved by another
    forced,     \* the forced run: its job, where it is, the file as it loaded it
    orphans,    \* job -> its processes that outlived their scheduler
    faults,     \* how many of Events there were
    \* ghosts
    runs,       \* job -> starts for its last occurrence; 2 = more than one
    lost,       \* job -> a claim for that occurrence did not reach the file, or was overwritten
    good        \* job -> a run for that occurrence succeeded

tick   == <<now, snap, todo, claim>>
work   == <<thread, since, rc>>
locked == <<copy, lock, mixed>>
ghosts == <<runs, lost, good>>
vars   == <<file, up, tick, work, locked, forced, orphans, faults, ghosts>>
---------------------------------------------------------------------------
Aged(t)    == IF t = "new" THEN "old" ELSE t
Entry(l, o) == [last |-> l, ok |-> o]
AgedIn(s, j) == [s EXCEPT ![j] = Entry(Aged(@.last), Aged(@.ok))]

Blank == [j \in Jobs |-> Entry("never", "never")]
Idle  == [job |-> None, pc |-> "idle", copy |-> Blank]

\* The threads of _RUNNING that are alive.
Live == {j \in Jobs : thread[j] # "none"}

\* Mutant: one job at a time.
SlotFreeSerial == Live = {}

SlotFree == Cardinality(Live) < MaxConcurrent

\* is_due, at the time of the tick.
Due(j) == snap[j] # "new"

\* What may go wrong once more.
Fault(e) == e \in Events /\ faults < MaxFaults

\* This occurrence of j is taken: it has been started, or its claim has been saved.
Taken(j) == runs[j] >= 1 \/ (claim = "saved" /\ j = Head(todo) /\ now[j] = "new")

\* Mutant: a run that failed is stamped as a success.
StampedOk(s, j, t, res) == [s EXCEPT ![j] = Entry(t, IF res = "claim" THEN @.ok ELSE t)]

\* What _stamp makes of the state: last_run always moves, last_ok on success.
Stamped(s, j, t, res) == [s EXCEPT ![j] = Entry(t, IF res = "ok" THEN t ELSE @.ok)]

Init ==
    /\ file = Blank
    /\ up = TRUE
    /\ now = [j \in Jobs |-> "old"] /\ snap = [j \in Jobs |-> "new"]
    /\ todo = <<>> /\ claim = "none"
    /\ thread = [j \in Jobs |-> "none"] /\ since = [j \in Jobs |-> "new"]
    /\ rc = [j \in Jobs |-> FALSE]
    /\ copy = Blank /\ lock = None /\ mixed = FALSE
    /\ forced = Idle
    /\ orphans = [j \in Jobs |-> 0]
    /\ faults = 0
    /\ runs = [j \in Jobs |-> 0] /\ lost = [j \in Jobs |-> FALSE]
    /\ good = [j \in Jobs |-> FALSE]
---------------------------------------------------------------------------
(* tick()                                                                  *)

BeginTick ==
    /\ up /\ todo = <<>>
    /\ now' = [j \in Jobs |-> "new"]
    /\ snap' = [j \in Jobs |-> file[j].last]
    /\ todo' = Order
    /\ UNCHANGED <<file, up, claim, work, locked, forced, orphans, faults, ghosts>>

\* What the tick had loaded for the jobs behind it no longer matters.
Looked ==
    /\ snap' = [j \in Jobs |-> IF j \in ToSet(todo') THEN snap[j] ELSE "new"]
    /\ now' = [j \in Jobs |-> IF todo' = <<>> THEN "old" ELSE now[j]]

\* The next job: it is due, not running, and there is a slot, or it is passed over.
Look ==
    /\ up /\ todo # <<>> /\ claim = "none"
    /\ LET j == Head(todo)
       IN  IF Due(j) /\ j \notin Live /\ SlotFree
             THEN claim' = "wanted" /\ UNCHANGED todo
             ELSE todo' = Tail(todo) /\ UNCHANGED claim
    /\ Looked
    /\ UNCHANGED <<file, up, work, locked, forced, orphans, faults, ghosts>>

\* Mutant: the state the tick began with is written back.
LoadForSnap(j) ==
    /\ lock = None
    /\ lock' = j /\ UNCHANGED mixed
    /\ copy' = [k \in Jobs |-> IF snap[k] # "new" THEN Entry(snap[k], file[k].ok) ELSE file[k]]

\* _stamp takes the lock and loads the file anew ...
LoadFor(j) ==
    /\ lock = None
    /\ lock' = j /\ copy' = file /\ UNCHANGED mixed

\* save_state writes a temporary file that has one name for every process, then moves
\* it.  When another is writing it as well, what is moved may be what the other writes,
\* or a mixture that nobody can read; that other then finds nothing to move, and what it
\* still writes ends up in the file itself.
Mixture(both, other) ==
    IF "shared" \notin Events
      THEN {}
      ELSE (IF both THEN {other, Blank} ELSE {}) \cup (IF mixed THEN {file, Blank} ELSE {})

\* What the forced run is to write: a new entry for its job, which has no last_ok.
ForcedState == [forced.copy EXCEPT ![forced.job] = Entry("new", "never")]

\* What the holder of the lock is to write.
HeldState == IF claim = "loaded"
               THEN Stamped(copy, lock, now[lock], "claim")
               ELSE Stamped(copy, lock, since[lock], IF rc[lock] THEN "ok" ELSE "failed")

\* The occurrences that are taken, those claimed now with them, and are not in the file.
Loses(claims) ==
    lost' = [j \in Jobs |-> lost[j] \/ ((Taken(j) \/ j \in claims) /\ file'[j].last # "new")]

\* A save puts own in the file, or what has become of the temporary file.
Replaced(own, both, other, claims) ==
    \E f \in {own} \cup Mixture(both, other) :
        file' = f /\ IF f = own THEN UNCHANGED lost ELSE Loses(claims)

\* ... and replaces it.  A save that fails is not noticed.
SaveFor(j, t, res) ==
    LET claims == IF res = "claim" /\ t = "new" THEN {j} ELSE {}
        both   == forced.pc = "save"
    IN  /\ lock' = None /\ copy' = Blank /\ mixed' = both
        /\ \/ Replaced(Stamped(copy, j, t, res), both, ForcedState, claims) /\ UNCHANGED faults
           \/ Fault("disk") /\ faults' = faults + 1 /\ UNCHANGED file /\ Loses(claims)

\* The claim, before the job is started.
ClaimLoad ==
    /\ claim = "wanted"
    /\ LoadFor(Head(todo))
    /\ claim' = "loaded"
    /\ UNCHANGED <<file, up, now, snap, todo, work, forced, orphans, faults, ghosts>>

ClaimSave ==
    LET j == Head(todo)
    IN  /\ claim = "loaded"
        /\ SaveFor(j, now[j], "claim")
        /\ claim' = "saved"
        /\ UNCHANGED <<up, now, snap, todo, work, forced, orphans, runs, good>>

StartJob ==
    LET j == Head(todo)
    IN  /\ claim = "saved"
        /\ thread' = [thread EXCEPT ![j] = "run"]
        /\ since' = [since EXCEPT ![j] = now[j]]
        /\ runs' = [runs EXCEPT ![j] = IF now[j] = "new" /\ @ < 2 THEN @ + 1 ELSE @]
        /\ todo' = Tail(todo) /\ claim' = "none" /\ Looked
        /\ UNCHANGED <<file, up, rc, locked, forced, orphans, faults, lost, good>>
---------------------------------------------------------------------------
(* _work(), the thread of a job.                                           *)

\* The process ends, is killed after TIMEOUT_S, or could not be started.
JobEnds(j) ==
    /\ thread[j] = "run"
    /\ thread' = [thread EXCEPT ![j] = "ended"]
    /\ \E ok \in BOOLEAN :
          /\ rc' = [rc EXCEPT ![j] = ok]
          /\ good' = [good EXCEPT ![j] = @ \/ (ok /\ since[j] = "new")]
    /\ UNCHANGED <<file, up, tick, since, locked, forced, orphans, faults, runs, lost>>

WorkLoad(j) ==
    /\ thread[j] = "ended"
    /\ LoadFor(j)
    /\ thread' = [thread EXCEPT ![j] = "loaded"]
    /\ UNCHANGED <<file, up, tick, since, rc, forced, orphans, faults, ghosts>>

WorkSave(j) ==
    /\ thread[j] = "loaded"
    /\ SaveFor(j, since[j], IF rc[j] THEN "ok" ELSE "failed")
    /\ thread' = [thread EXCEPT ![j] = "none"]
    /\ since' = [since EXCEPT ![j] = "new"] /\ rc' = [rc EXCEPT ![j] = FALSE]
    /\ UNCHANGED <<up, tick, forced, orphans, runs, good>>
---------------------------------------------------------------------------
(* scheduler.py --force, in a process of its own.                          *)

ForceRun(j) ==
    /\ Fault("force") /\ j \in ByHand /\ forced.pc = "idle"
    /\ faults' = faults + 1
    /\ forced' = [Idle EXCEPT !.job = j, !.pc = "run"]
    /\ UNCHANGED <<file, up, tick, work, locked, orphans, ghosts>>

\* The job is over; the state is loaded, without the lock ...
ForceLoad ==
    /\ forced.pc = "run"
    /\ forced' = [forced EXCEPT !.pc = "save", !.copy = file]
    /\ UNCHANGED <<file, up, tick, work, locked, orphans, faults, ghosts>>

\* ... and replaced; the claims made since are lost.
ForceSave ==
    LET both == lock # None
    IN  /\ forced.pc = "save"
        /\ \/ /\ file' \in {ForcedState} \cup Mixture(both, HeldState)
              /\ Loses({}) /\ UNCHANGED faults
           \/ Fault("disk") /\ faults' = faults + 1 /\ UNCHANGED <<file, lost>>
        /\ forced' = Idle /\ mixed' = both
        /\ UNCHANGED <<up, tick, work, copy, lock, orphans, runs, good>>
---------------------------------------------------------------------------
(* Everything else.                                                        *)

\* The clock reaches the next occurrence of a fast job, whatever the job is doing.
\* The others are followed from one occurrence to the next: their period is hours
\* longer than TIMEOUT_S.
Occurs(j) ==
    /\ j \in Fast
    /\ file' = AgedIn(file, j) /\ copy' = AgedIn(copy, j)
    /\ forced' = [forced EXCEPT !.copy = AgedIn(@, j)]
    /\ now' = [now EXCEPT ![j] = IF todo = <<>> THEN @ ELSE "old"]
    /\ since' = [since EXCEPT ![j] = IF thread[j] = "none" THEN @ ELSE "old"]
    /\ runs' = [runs EXCEPT ![j] = 0]
    /\ lost' = [lost EXCEPT ![j] = FALSE]
    /\ good' = [good EXCEPT ![j] = FALSE]
    /\ UNCHANGED <<up, snap, todo, claim, thread, rc, lock, mixed, orphans, faults>>

\* The scheduler dies, or restart.sh stops it: its threads are gone, the processes
\* they waited for are not.
Crash ==
    /\ Fault("crash") /\ up
    /\ faults' = faults + 1
    /\ up' = FALSE
    /\ orphans' = [j \in Jobs |-> IF thread[j] = "run" THEN orphans[j] + 1 ELSE orphans[j]]
    /\ todo' = <<>> /\ claim' = "none"
    /\ now' = [j \in Jobs |-> "old"] /\ snap' = [j \in Jobs |-> "new"]
    /\ thread' = [j \in Jobs |-> "none"] /\ since' = [j \in Jobs |-> "new"]
    /\ rc' = [j \in Jobs |-> FALSE]
    /\ copy' = Blank /\ lock' = None
    /\ mixed' = (forced.pc = "save" /\ (mixed \/ lock # None))
    /\ UNCHANGED <<file, forced, ghosts>>

OrphanEnds(j) ==
    /\ orphans[j] > 0
    /\ orphans' = [orphans EXCEPT ![j] = @ - 1]
    /\ UNCHANGED <<file, up, tick, work, locked, forced, faults, ghosts>>

\* main(), after the loop's supervisor or the operator started it again.
Start ==
    /\ ~up /\ up' = TRUE
    /\ UNCHANGED <<file, tick, work, locked, forced, orphans, faults, ghosts>>
---------------------------------------------------------------------------
TickStep    == BeginTick \/ Look \/ ClaimLoad \/ ClaimSave \/ StartJob
WorkStep(j) == JobEnds(j) \/ WorkLoad(j) \/ WorkSave(j)

Next ==
    \/ TickStep \/ ForceLoad \/ ForceSave \/ Crash \/ Start
    \/ \E j \in Jobs : WorkStep(j) \/ ForceRun(j) \/ Occurs(j) \/ OrphanEnds(j)

Spec == Init /\ [][Next]_vars

\* The scheduler ticks on, a job ends or is killed, and a dead scheduler is
\* started again (Supervision).  The lock is held for a read and a write of a small
\* file, and free for most of a minute between two ticks: who waits for it gets it.
FairSpec ==
    /\ Spec
    /\ WF_vars(TickStep) /\ WF_vars(Start)
    /\ \A j \in Jobs : WF_vars(WorkStep(j)) /\ SF_vars(WorkLoad(j))
---------------------------------------------------------------------------
Times  == {"never", "old", "new"}
States == [Jobs -> [last : Times, ok : Times]]

\* The variables keep their types, and there are never more threads than slots.
TypeOK ==
    /\ file \in States /\ copy \in States
    /\ up \in BOOLEAN
    /\ now \in [Jobs -> {"old", "new"}] /\ since \in [Jobs -> {"old", "new"}]
    /\ snap \in [Jobs -> Times] /\ todo \in Seq(Jobs)
    /\ claim \in {"none", "wanted", "loaded", "saved"}
    /\ claim # "none" => todo # <<>>
    /\ thread \in [Jobs -> {"none", "run", "ended", "loaded"}] /\ rc \in [Jobs -> BOOLEAN]
    /\ Cardinality({j \in Jobs : thread[j] # "none"}) <= MaxConcurrent
    /\ lock \in Jobs \cup {None} /\ mixed \in BOOLEAN
    /\ forced \in [job : Jobs \cup {None}, pc : {"idle", "run", "save"}, copy : States]
    /\ orphans \in [Jobs -> Nat]
    /\ faults \in 0 .. MaxFaults
    /\ runs \in [Jobs -> 0 .. 2] /\ lost \in [Jobs -> BOOLEAN] /\ good \in [Jobs -> BOOLEAN]

\* An occurrence of a job starts it once, over any restart of the scheduler, unless
\* its claim did not reach the file, or a forced run or what it left of the temporary
\* file wrote over it: "concurrent jobs do
\* not clobber each other's entries".
OncePerOccurrence == \A j \in Jobs : ~lost[j] => runs[j] <= 1

\* last_ok says that a run for this occurrence succeeded: a job that runs and fails
\* every day never looks as if it had not.
OkIsEarned == \A j \in Jobs : file[j].ok = "new" => good[j]

\* "Each job still runs at most one copy at a time": not once a scheduler has died
\* with the job running, or somebody forces it.
OneCopyAtATime ==
    \A j \in Jobs : orphans[j] + (IF thread[j] = "run" THEN 1 ELSE 0)
                              + (IF forced.job = j /\ forced.pc = "run" THEN 1 ELSE 0) <= 1

\* "Catch-up is the point": a job that is due is at last started, whatever the other
\* jobs do, once nothing goes wrong and nobody forces a job any more.
Quiet         == faults = MaxFaults /\ forced = Idle /\ lock = None
NothingMissed == \A j \in Jobs : (Quiet /\ file[j].last # "new") ~> thread[j] # "none"
==========================================================================
