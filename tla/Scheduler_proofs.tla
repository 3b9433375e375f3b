-------------------------- MODULE Scheduler_proofs --------------------------
(***************************************************************************)
(* Theorems about Scheduler, for every set of jobs, every order of them,   *)
(* every number of slots and every bound on what goes wrong.               *)
(***************************************************************************)
EXTENDS Scheduler, FiniteSetTheorems, TLAPS

Distinct(s) == \A i, k \in 1 .. Len(s) : s[i] = s[k] => i = k

\* The pass over the jobs: no job comes twice, and a claim is for a job that was due
\* when the tick began, does not run and finds a slot.
PassOK ==
    /\ Distinct(todo)
    /\ claim # "none" => /\ snap[Head(todo)] # "new"
                         /\ Head(todo) \notin Live
                         /\ Cardinality(Live) < MaxConcurrent

\* Who has loaded the file to replace it holds the lock.
LockOK ==
    /\ claim = "loaded" => lock = Head(todo)
    /\ \A j \in Jobs : thread[j] = "loaded" => lock = j

\* The lock is held by the claim or a thread that has loaded the file.
HeldOK == lock # None => claim = "loaded" \/ thread[lock] = "loaded"

\* Who has taken an occurrence is in the file, and in the copy that is to replace it.
TakenIsFiled ==
    \A j \in Jobs : Taken(j) /\ ~lost[j] =>
        file[j].last = "new" /\ (lock # None => copy[j].last = "new")

\* A job the tick found due, and is still to reach, has not been started.  Whose
\* occurrence came during the pass, or since its thread started, has not either.
DueIsFresh ==
    /\ \A i \in 1 .. Len(todo) :
          LET j == todo[i]
          IN  /\ now[j] = "new" /\ snap[j] # "new" /\ ~lost[j] => runs[j] = 0
              /\ now[j] = "old" => runs[j] = 0
    /\ \A j \in Jobs : thread[j] # "none" /\ since[j] = "old" => runs[j] = 0

OnceInv == LockOK /\ TakenIsFiled /\ DueIsFresh /\ OncePerOccurrence

\* A success of this occurrence that anybody is to write, or has written, was one.
EarnedInv ==
    \A j \in Jobs :
        \/ file[j].ok = "new"
        \/ copy[j].ok = "new"
        \/ forced.copy[j].ok = "new"
        \/ thread[j] \in {"ended", "loaded"} /\ rc[j] /\ since[j] = "new"
        => good[j]
---------------------------------------------------------------------------
(* The jobs, and the threads that run them.                                *)

LEMMA JobsFinite == IsFiniteSet(Jobs)
    BY SchedulerAssumption DEF SchedulerAssumption, IsFiniteSet, ToSet

(* JOBS names every job once. *)
LEMMA OrderDistinct == Distinct(Order)
<1>1. Order \in Surjection(1 .. Len(Order), Jobs)
    BY SchedulerAssumption DEF SchedulerAssumption, ToSet, Surjection
<1>2. IsFiniteSet(1 .. Len(Order)) /\ Cardinality(1 .. Len(Order)) = Len(Order)
    BY FS_Interval, SchedulerAssumption DEF SchedulerAssumption
<1>3. Order \in Injection(1 .. Len(Order), Jobs)
    BY <1>1, <1>2, FS_SurjSameCardinalityImpliesInj, SchedulerAssumption DEF SchedulerAssumption
<1> QED  BY <1>3 DEF Injection, IsInjective, Distinct

LEMMA TailDistinct ==
    ASSUME NEW s \in Seq(Jobs), s # <<>>, Distinct(s)
    PROVE  /\ Distinct(Tail(s)) /\ Tail(s) \in Seq(Jobs)
           /\ Head(s) \in Jobs /\ Head(s) = s[1]
           /\ \A i \in 1 .. Len(Tail(s)) :
                 i + 1 \in 1 .. Len(s) /\ Tail(s)[i] = s[i + 1] /\ Tail(s)[i] # Head(s)
    BY DEF Distinct

(* Fewer threads take no more slots; one more takes one slot more. *)
LEMMA SlotsShrink ==
    ASSUME NEW T, T \subseteq Live
    PROVE  Cardinality(T) \in Nat /\ Cardinality(Live) \in Nat /\ Cardinality(T) <= Cardinality(Live)
<1>1. IsFiniteSet(Live)
    BY JobsFinite, FS_Subset DEF Live
<1> QED  BY <1>1, FS_Subset, FS_CardinalityType

LEMMA SlotsFree ==
    ASSUME NEW T, T = {}
    PROVE  Cardinality(T) <= MaxConcurrent
<1>1. Cardinality(T) = 0
    BY FS_EmptySet
<1> QED  BY <1>1, SchedulerAssumption DEF SchedulerAssumption

LEMMA SlotsGrow ==
    ASSUME NEW T, NEW j, T = Live \cup {j}, Cardinality(Live) < MaxConcurrent
    PROVE  Cardinality(T) <= MaxConcurrent
<1>1. IsFiniteSet(Live)
    BY JobsFinite, FS_Subset DEF Live
<1>2. Cardinality(Live) \in Nat
    BY <1>1, FS_CardinalityType
<1>3. Cardinality(T) = IF j \in Live THEN Cardinality(Live) ELSE Cardinality(Live) + 1
    BY <1>1, FS_AddElement
<1> QED  BY <1>2, <1>3, SchedulerAssumption DEF SchedulerAssumption
(* What a stamp, and what the clock, makes of the state is a state again. *)
LEMMA StampedType ==
    ASSUME NEW s \in States, NEW j, NEW t \in Times, NEW res
    PROVE  /\ Stamped(s, j, t, res) \in States
           /\ \A k \in Jobs : k # j => Stamped(s, j, t, res)[k] = s[k]
           /\ j \in Jobs => /\ Stamped(s, j, t, res)[j].last = t
                            /\ Stamped(s, j, t, res)[j].ok \in {s[j].ok, IF res = "ok" THEN t ELSE s[j].ok}
<1>1. \A l, o \in Times : Entry(l, o) \in [last : Times, ok : Times]
    BY DEF Entry
<1>2. j \in Jobs => s[j] \in [last : Times, ok : Times]
    BY DEF States
<1>3. Stamped(s, j, t, res) = [s EXCEPT ![j] = Entry(t, IF res = "ok" THEN t ELSE s[j].ok)]
    BY DEF Stamped
<1>4. j \in Jobs => Entry(t, IF res = "ok" THEN t ELSE s[j].ok) \in [last : Times, ok : Times]
    BY <1>1, <1>2
<1>5. Stamped(s, j, t, res) \in States /\ \A k \in Jobs : k # j => Stamped(s, j, t, res)[k] = s[k]
    BY <1>3, <1>4 DEF States
<1>6. j \in Jobs => Stamped(s, j, t, res)[j] = Entry(t, IF res = "ok" THEN t ELSE s[j].ok)
    BY <1>3 DEF States
<1> QED  BY <1>5, <1>6 DEF Entry

LEMMA AgedType ==
    ASSUME NEW s \in States, NEW j \in Jobs
    PROVE  /\ AgedIn(s, j) \in States
           /\ \A k \in Jobs : k # j => AgedIn(s, j)[k] = s[k]
           /\ AgedIn(s, j)[j].last # "new" /\ AgedIn(s, j)[j].ok # "new"
<1>1. \A t \in Times : Aged(t) \in Times \ {"new"}
    BY DEF Aged, Times
<1>2. s[j] \in [last : Times, ok : Times]
    BY DEF States
<1>3. /\ Entry(Aged(s[j].last), Aged(s[j].ok)) \in [last : Times, ok : Times]
      /\ Entry(Aged(s[j].last), Aged(s[j].ok)).last # "new"
      /\ Entry(Aged(s[j].last), Aged(s[j].ok)).ok # "new"
    BY <1>1, <1>2 DEF Entry
<1>4. AgedIn(s, j) = [s EXCEPT ![j] = Entry(Aged(s[j].last), Aged(s[j].ok))]
    BY DEF AgedIn
<1> QED  BY <1>3, <1>4 DEF States

LEMMA BlankType == Blank \in States /\ \A j \in Jobs : Blank[j].last = "never" /\ Blank[j].ok = "never"
    BY DEF Blank, Entry, States, Times

(* What the two who may share the temporary file are to write.             *)
LEMMA OthersType ==
    ASSUME TypeOK
    PROVE  /\ ForcedState \in States /\ (lock # None => HeldState \in States)
           /\ \A j \in Jobs : ForcedState[j] \in {forced.copy[j], Entry("new", "never")}
<1>1. forced.copy \in States /\ Entry("new", "never") \in [last : Times, ok : Times]
    BY DEF TypeOK, Entry, Times
<1>2. ForcedState \in States /\ \A j \in Jobs : ForcedState[j] \in {forced.copy[j], Entry("new", "never")}
    BY <1>1 DEF ForcedState, States
<1>3. ASSUME lock # None PROVE HeldState \in States
  <2>1. copy \in States /\ lock \in Jobs /\ now[lock] \in Times /\ since[lock] \in Times
      BY <1>3 DEF TypeOK, Times
  <2> QED  BY <2>1, StampedType DEF HeldState
<1> QED  BY <1>2, <1>3

(* Who counts what it loses forgets no loss, and a taken occurrence that   *)
(* is not lost is in the file.                                             *)
LEMMA LosesType ==
    ASSUME TypeOK, NEW T, Loses(T) \/ UNCHANGED lost
    PROVE  lost' \in [Jobs -> BOOLEAN] /\ \A j \in Jobs : lost[j] => lost'[j]
<1>1. CASE Loses(T)
    BY <1>1 DEF TypeOK, Loses
<1>2. CASE UNCHANGED lost
    BY <1>2 DEF TypeOK
<1> QED  BY <1>1, <1>2

LEMMA LosesCounts ==
    ASSUME NEW T, Loses(T), NEW j \in Jobs, Taken(j) \/ j \in T, ~lost'[j]
    PROVE  file'[j].last = "new"
    BY DEF Loses

LEMMA SaveType ==
    ASSUME TypeOK, NEW j \in Jobs, NEW t \in Times, NEW res, SaveFor(j, t, res)
    PROVE  /\ file' \in States /\ copy' = Blank /\ lock' = None /\ mixed' \in BOOLEAN
           /\ faults' \in 0 .. MaxFaults
           /\ lost' \in [Jobs -> BOOLEAN] /\ \A k \in Jobs : lost[k] => lost'[k]
           /\ file' \in {Stamped(copy, j, t, res), file, Blank, ForcedState}
           /\ \/ file' = Stamped(copy, j, t, res) /\ UNCHANGED lost
              \/ Loses(IF res = "claim" /\ t = "new" THEN {j} ELSE {})
<1> DEFINE claims == IF res = "claim" /\ t = "new" THEN {j} ELSE {}
           both   == forced.pc = "save"
           own    == Stamped(copy, j, t, res)
<1>1. own \in States /\ ForcedState \in States /\ Blank \in States /\ file \in States
    BY StampedType, OthersType, BlankType DEF TypeOK
<1>2. /\ lock' = None /\ copy' = Blank /\ mixed' = both
      /\ \/ Replaced(own, both, ForcedState, claims) /\ UNCHANGED faults
         \/ Fault("disk") /\ faults' = faults + 1 /\ UNCHANGED file /\ Loses(claims)
    BY DEF SaveFor
<1>3. Mixture(both, ForcedState) \subseteq {file, Blank, ForcedState}
    BY DEF Mixture
<1>4. file' \in {own, file, Blank, ForcedState} /\ ((file' = own /\ UNCHANGED lost) \/ Loses(claims))
    BY <1>2, <1>3 DEF Replaced
<1>5. lost' \in [Jobs -> BOOLEAN] /\ \A k \in Jobs : lost[k] => lost'[k]
    BY <1>4, LosesType
<1>6. faults' \in 0 .. MaxFaults
    BY <1>2, SchedulerAssumption DEF TypeOK, SchedulerAssumption, Fault
<1> QED  BY <1>1, <1>2, <1>4, <1>5, <1>6

(* The save of a job's thread makes no claim.                              *)
LEMMA WorkSaveType ==
    ASSUME TypeOK, NEW k \in Jobs, WorkSave(k)
    PROVE  /\ lock' = None /\ \A j \in Jobs : lost[j] => lost'[j]
           /\ \/ /\ file' = Stamped(copy, k, since[k], IF rc[k] THEN "ok" ELSE "failed")
                 /\ UNCHANGED lost
              \/ Loses({})
<1> DEFINE res == IF rc[k] THEN "ok" ELSE "failed"
<1>1. res # "claim"
    OBVIOUS
<1>2. since[k] \in Times /\ SaveFor(k, since[k], res)
    BY DEF WorkSave, TypeOK, Times
<1> HIDE DEF res
<1>3. /\ lock' = None /\ \A j \in Jobs : lost[j] => lost'[j]
      /\ \/ file' = Stamped(copy, k, since[k], res) /\ UNCHANGED lost
         \/ Loses(IF res = "claim" /\ since[k] = "new" THEN {k} ELSE {})
    BY <1>2, SaveType
<1>4. (IF res = "claim" /\ since[k] = "new" THEN {k} ELSE {}) = {}
    BY <1>1
<1> QED  BY <1>3, <1>4 DEF res

LEMMA ForceType ==
    ASSUME TypeOK, ForceSave
    PROVE  /\ file' \in States /\ faults' \in 0 .. MaxFaults
           /\ file' \in {ForcedState, file, Blank} \/ (lock # None /\ file' = HeldState)
           /\ lost' \in [Jobs -> BOOLEAN] /\ \A k \in Jobs : lost[k] => lost'[k]
           /\ Loses({}) \/ UNCHANGED <<file, lost>>
<1> DEFINE both == lock # None
<1>1. \/ /\ file' \in {ForcedState} \cup Mixture(both, HeldState)
         /\ Loses({}) /\ UNCHANGED faults
      \/ Fault("disk") /\ faults' = faults + 1 /\ UNCHANGED <<file, lost>>
    BY DEF ForceSave
<1>2. Mixture(both, HeldState) \subseteq {file, Blank} \cup (IF both THEN {HeldState} ELSE {})
    BY DEF Mixture
<1>3. file' \in {ForcedState, file, Blank} \/ (lock # None /\ file' = HeldState)
    BY <1>1, <1>2
<1>4. file' \in States
    BY <1>3, OthersType, BlankType DEF TypeOK
<1>5. lost' \in [Jobs -> BOOLEAN] /\ \A k \in Jobs : lost[k] => lost'[k]
    BY <1>1, LosesType
<1>6. faults' \in 0 .. MaxFaults
    BY <1>1, SchedulerAssumption DEF TypeOK, SchedulerAssumption, Fault
<1> QED  BY <1>1, <1>3, <1>4, <1>5, <1>6
---------------------------------------------------------------------------
(* Every variable keeps its type and there are never more threads than     *)
(* slots: between the look at a job and its start threads only end.        *)
LEMMA TypeStep == TypeOK /\ PassOK /\ [Next]_vars => TypeOK' /\ PassOK'
<1> SUFFICES ASSUME TypeOK, PassOK, [Next]_vars PROVE TypeOK' /\ PassOK'
    OBVIOUS
<1> USE DEF tick, work, locked, ghosts
<1>0. claim # "none" => todo # <<>> /\ Head(todo) \in Jobs /\ Head(todo) = todo[1]
    BY TailDistinct DEF TypeOK, PassOK
<1>1. CASE BeginTick
  <2>1. snap' \in [Jobs -> Times]
      BY <1>1 DEF BeginTick, TypeOK, States
  <2>2. todo' \in Seq(Jobs) /\ Distinct(todo')
      BY <1>1, OrderDistinct, SchedulerAssumption DEF BeginTick, SchedulerAssumption
  <2>3. claim' = "none"
      BY <1>1 DEF BeginTick, TypeOK
  <2> QED  BY <1>1, <2>1, <2>2, <2>3 DEF BeginTick, TypeOK, PassOK
<1>2. CASE Look
  <2>1. Head(todo) \in Jobs /\ Tail(todo) \in Seq(Jobs) /\ Distinct(Tail(todo)) /\ Head(todo) \in ToSet(todo)
      BY <1>2, TailDistinct DEF Look, TypeOK, PassOK, ToSet
  <2>2. snap' \in [Jobs -> Times] /\ now' \in [Jobs -> {"old", "new"}]
      BY <1>2 DEF Look, Looked, TypeOK, Times
  <2>3. TypeOK'
      BY <1>2, <2>1, <2>2 DEF Look, TypeOK
  <2>4. claim' = "none" \/ (claim' = "wanted" /\ todo' = todo /\ Due(Head(todo)) /\ Head(todo) \notin Live /\ SlotFree)
      BY <1>2 DEF Look
  <2>5. claim' # "none" => snap'[Head(todo')] # "new"
      BY <1>2, <2>1, <2>4 DEF Look, Looked, Due
  <2>6. Live' = Live
      BY <1>2 DEF Look, Live
  <2>7. Distinct(todo')
      BY <1>2, <2>1 DEF Look, PassOK
  <2> QED  BY <2>3, <2>4, <2>5, <2>6, <2>7 DEF PassOK, SlotFree
<1>3. CASE ClaimLoad
  <2>1. TypeOK'
      BY <1>0, <1>3 DEF ClaimLoad, LoadFor, TypeOK
  <2> QED  BY <1>3, <2>1 DEF ClaimLoad, PassOK, Live, LoadFor
<1>4. CASE ClaimSave
  <2>1. now[Head(todo)] \in Times
      BY <1>0, <1>4 DEF ClaimSave, TypeOK, Times
  <2>2. /\ file' \in States /\ copy' = Blank /\ lock' = None /\ mixed' \in BOOLEAN
        /\ faults' \in 0 .. MaxFaults /\ lost' \in [Jobs -> BOOLEAN]
      BY <1>0, <1>4, <2>1, SaveType DEF ClaimSave
  <2>3. TypeOK'
      BY <1>0, <1>4, <2>2, BlankType DEF ClaimSave, TypeOK
  <2> QED  BY <1>0, <1>4, <2>3 DEF ClaimSave, PassOK, Live
<1>5. CASE StartJob
  <2> DEFINE j == Head(todo)
  <2>1. j \in Jobs /\ Tail(todo) \in Seq(Jobs) /\ Distinct(Tail(todo)) /\ claim # "none"
      BY <1>0, <1>5, TailDistinct DEF StartJob, TypeOK, PassOK
  <2>2. snap' \in [Jobs -> Times] /\ now' \in [Jobs -> {"old", "new"}]
      BY <1>5 DEF StartJob, Looked, TypeOK, Times
  <2>3. runs' \in [Jobs -> 0 .. 2]
      BY <1>5, <2>1 DEF StartJob, TypeOK
  <2>4. {k \in Jobs : thread'[k] # "none"} = Live \cup {j}
      BY <1>5, <2>1 DEF StartJob, TypeOK, Live
  <2>5. Cardinality({k \in Jobs : thread'[k] # "none"}) <= MaxConcurrent
      BY <2>1, <2>4, SlotsGrow DEF PassOK
  <2>6. TypeOK'
      BY <1>5, <2>1, <2>2, <2>3, <2>5 DEF StartJob, TypeOK
  <2> QED  BY <1>5, <2>1, <2>6 DEF StartJob, PassOK
<1>6. ASSUME NEW j \in Jobs, JobEnds(j) PROVE TypeOK' /\ PassOK'
  <2>1. Live' = Live
      BY <1>6 DEF JobEnds, Live, TypeOK
  <2>2. rc' \in [Jobs -> BOOLEAN] /\ good' \in [Jobs -> BOOLEAN]
    <3>1. PICK ok \in BOOLEAN : /\ rc' = [rc EXCEPT ![j] = ok]
                                /\ good' = [good EXCEPT ![j] = @ \/ (ok /\ since[j] = "new")]
        BY <1>6 DEF JobEnds
    <3>2. (good[j] \/ (ok /\ since[j] = "new")) \in BOOLEAN
        OBVIOUS
    <3> QED  BY <3>1, <3>2 DEF TypeOK
  <2>3. Cardinality({k \in Jobs : thread'[k] # "none"}) <= MaxConcurrent
      BY <2>1 DEF TypeOK, Live
  <2>4. TypeOK'
      BY <1>6, <2>2, <2>3 DEF JobEnds, TypeOK
  <2> QED  BY <1>6, <2>1, <2>4 DEF JobEnds, PassOK
<1>7. ASSUME NEW j \in Jobs, WorkLoad(j) PROVE TypeOK' /\ PassOK'
  <2>1. Live' = Live
      BY <1>7 DEF WorkLoad, Live, TypeOK
  <2>2. Cardinality({k \in Jobs : thread'[k] # "none"}) <= MaxConcurrent
      BY <2>1 DEF TypeOK, Live
  <2>3. TypeOK'
      BY <1>7, <2>2 DEF WorkLoad, LoadFor, TypeOK
  <2> QED  BY <1>7, <2>1, <2>3 DEF WorkLoad, PassOK
<1>8. ASSUME NEW j \in Jobs, WorkSave(j) PROVE TypeOK' /\ PassOK'
  <2>1. Live' \subseteq Live
      BY <1>8 DEF WorkSave, Live, TypeOK
  <2>2. Cardinality(Live') \in Nat /\ Cardinality(Live) \in Nat /\ Cardinality(Live') <= Cardinality(Live)
      BY <2>1, SlotsShrink
  <2>3. Cardinality({k \in Jobs : thread'[k] # "none"}) <= MaxConcurrent
      BY <2>2, SchedulerAssumption DEF TypeOK, Live, SchedulerAssumption
  <2>4. since[j] \in Times
      BY DEF TypeOK, Times
  <2>5. /\ file' \in States /\ copy' = Blank /\ lock' = None /\ mixed' \in BOOLEAN
        /\ faults' \in 0 .. MaxFaults /\ lost' \in [Jobs -> BOOLEAN]
      BY <1>8, <2>4, SaveType DEF WorkSave
  <2>6. TypeOK'
      BY <1>8, <2>3, <2>5, BlankType DEF WorkSave, TypeOK
  <2>7. claim # "none" => Cardinality(Live') < MaxConcurrent
      BY <2>2, SchedulerAssumption DEF PassOK, SchedulerAssumption
  <2> QED  BY <1>8, <2>1, <2>6, <2>7 DEF WorkSave, PassOK
<1>9. ASSUME NEW j \in Jobs, ForceRun(j) PROVE TypeOK' /\ PassOK'
  <2>1. forced' \in [job : Jobs \cup {None}, pc : {"idle", "run", "save"}, copy : States]
      BY <1>9, BlankType DEF ForceRun, Idle
  <2>2. TypeOK'
      BY <1>9, <2>1, SchedulerAssumption DEF ForceRun, Fault, TypeOK, SchedulerAssumption
  <2> QED  BY <1>9, <2>2 DEF ForceRun, PassOK, Live
<1>10. CASE ForceLoad
  <2>1. TypeOK'
      BY <1>10 DEF ForceLoad, TypeOK
  <2> QED  BY <1>10, <2>1 DEF ForceLoad, PassOK, Live
<1>11. CASE ForceSave
  <2>1. file' \in States /\ faults' \in 0 .. MaxFaults /\ lost' \in [Jobs -> BOOLEAN]
      BY <1>11, ForceType
  <2>2. mixed' \in BOOLEAN
      BY <1>11 DEF ForceSave
  <2>3. forced' \in [job : Jobs \cup {None}, pc : {"idle", "run", "save"}, copy : States]
      BY <1>11, BlankType DEF ForceSave, Idle
  <2>4. TypeOK'
      BY <1>11, <2>1, <2>2, <2>3 DEF ForceSave, TypeOK
  <2> QED  BY <1>11, <2>4 DEF ForceSave, PassOK, Live
<1>12. ASSUME NEW j \in Jobs, Occurs(j) PROVE TypeOK' /\ PassOK'
  <2>1. file' \in States /\ copy' \in States
      BY <1>12, AgedType DEF Occurs, TypeOK
  <2>2. forced' \in [job : Jobs \cup {None}, pc : {"idle", "run", "save"}, copy : States]
      BY <1>12, AgedType DEF Occurs, TypeOK
  <2>3. now' \in [Jobs -> {"old", "new"}] /\ since' \in [Jobs -> {"old", "new"}]
      BY <1>12 DEF Occurs, TypeOK
  <2>4. runs' \in [Jobs -> 0 .. 2] /\ lost' \in [Jobs -> BOOLEAN] /\ good' \in [Jobs -> BOOLEAN]
      BY <1>12 DEF Occurs, TypeOK
  <2>5. UNCHANGED <<up, snap, todo, claim, thread, rc, lock, mixed, orphans, faults>>
      BY <1>12 DEF Occurs
  <2>6. TypeOK'
      BY <2>1, <2>2, <2>3, <2>4, <2>5 DEF TypeOK
  <2> QED  BY <2>5, <2>6 DEF PassOK, Live
<1>13. CASE Crash
  <2>1. Live' = {}
      BY <1>13 DEF Crash, Live
  <2>2. Cardinality({k \in Jobs : thread'[k] # "none"}) <= MaxConcurrent
      BY <2>1, SlotsFree DEF Live
  <2>3. orphans' \in [Jobs -> Nat]
      BY <1>13 DEF Crash, TypeOK
  <2>4. faults' \in 0 .. MaxFaults
      BY <1>13, SchedulerAssumption DEF Crash, Fault, TypeOK, SchedulerAssumption
  <2>5. /\ now' \in [Jobs -> {"old", "new"}] /\ since' \in [Jobs -> {"old", "new"}]
        /\ snap' \in [Jobs -> Times] /\ rc' \in [Jobs -> BOOLEAN]
        /\ thread' \in [Jobs -> {"none", "run", "ended", "loaded"}]
      BY <1>13 DEF Crash, Times
  <2>6. todo' = <<>> /\ claim' = "none" /\ copy' = Blank /\ lock' = None /\ up' = FALSE
      BY <1>13 DEF Crash
  <2>7. UNCHANGED <<file, forced, runs, lost, good>>
      BY <1>13 DEF Crash
  <2>8. <<>> \in Seq(Jobs)
      OBVIOUS
  <2>9. claim' \in {"none", "wanted", "loaded", "saved"}
      BY <2>6
  <2>10. lock' \in Jobs \cup {None}
      BY <2>6
  <2>11. up' \in BOOLEAN /\ mixed' \in BOOLEAN
      BY <1>13, <2>6 DEF Crash
  <2>12. copy' \in States
      BY <2>6, BlankType
  <2>13. TypeOK'
      BY <2>2, <2>3, <2>4, <2>5, <2>6, <2>7, <2>12, <2>8, <2>9, <2>10, <2>11 DEF TypeOK
  <2> QED  BY <2>6, <2>13 DEF PassOK, Distinct
<1>14. ASSUME NEW j \in Jobs, OrphanEnds(j) PROVE TypeOK' /\ PassOK'
  <2>1. orphans' \in [Jobs -> Nat]
      BY <1>14 DEF OrphanEnds, TypeOK
  <2>2. TypeOK'
      BY <1>14, <2>1 DEF OrphanEnds, TypeOK
  <2> QED  BY <1>14, <2>2 DEF OrphanEnds, PassOK, Live
<1>15. CASE Start
  <2>1. TypeOK'
      BY <1>15 DEF Start, TypeOK
  <2> QED  BY <1>15, <2>1 DEF Start, PassOK, Live
<1>16. CASE UNCHANGED vars
  <2>1. TypeOK'
      BY <1>16 DEF vars, TypeOK
  <2> QED  BY <1>16, <2>1 DEF vars, PassOK, Live
<1> QED  BY <1>1, <1>2, <1>3, <1>4, <1>5, <1>6, <1>7, <1>8, <1>9, <1>10, <1>11, <1>12, <1>13,
            <1>14, <1>15, <1>16 DEF Next, TickStep, WorkStep

LEMMA TypeInit == Init => TypeOK /\ PassOK
<1> SUFFICES ASSUME Init PROVE TypeOK /\ PassOK
    OBVIOUS
<1>1. Live = {}
    BY DEF Init, Live
<1>2. Cardinality({j \in Jobs : thread[j] # "none"}) <= MaxConcurrent
    BY <1>1, SlotsFree DEF Live
<1>3. forced \in [job : Jobs \cup {None}, pc : {"idle", "run", "save"}, copy : States]
    BY BlankType DEF Init, Idle
<1>4. TypeOK
  <2>1. /\ now \in [Jobs -> {"old", "new"}] /\ since \in [Jobs -> {"old", "new"}]
        /\ snap \in [Jobs -> Times] /\ todo \in Seq(Jobs) /\ claim = "none"
      BY DEF Init, Times
  <2>2. /\ thread \in [Jobs -> {"none", "run", "ended", "loaded"}] /\ rc \in [Jobs -> BOOLEAN]
        /\ lock \in Jobs \cup {None} /\ mixed \in BOOLEAN /\ up \in BOOLEAN
      BY DEF Init
  <2>3. /\ orphans \in [Jobs -> Nat] /\ faults \in 0 .. MaxFaults
        /\ runs \in [Jobs -> 0 .. 2] /\ lost \in [Jobs -> BOOLEAN] /\ good \in [Jobs -> BOOLEAN]
      BY SchedulerAssumption DEF Init, SchedulerAssumption
  <2>4. file \in States /\ copy \in States
      BY BlankType DEF Init
  <2> QED  BY <1>2, <1>3, <2>1, <2>2, <2>3, <2>4 DEF TypeOK
<1> QED  BY <1>4 DEF Init, PassOK, Distinct

THEOREM TypeCorrect == Spec => []TypeOK
    BY TypeInit, TypeStep, PTL DEF Spec
---------------------------------------------------------------------------
(* last_ok.                                                                *)

(* What a forced run, and a thread that ends, are to write of a success.   *)
LEMMA ForcedEarned ==
    ASSUME TypeOK, EarnedInv, NEW j \in Jobs, ForcedState[j].ok = "new"
    PROVE  good[j]
    BY OthersType DEF EarnedInv, Entry

LEMMA WorkEarned ==
    ASSUME TypeOK, EarnedInv, NEW j \in Jobs, NEW k \in Jobs, thread[k] = "loaded",
           Stamped(copy, k, since[k], IF rc[k] THEN "ok" ELSE "failed")[j].ok = "new"
    PROVE  good[j]
<1> DEFINE res == IF rc[k] THEN "ok" ELSE "failed"
<1>1. copy \in States /\ since[k] \in Times /\ rc[k] \in BOOLEAN
    BY DEF TypeOK, Times
<1>2. copy[j].ok = "new" => good[j]
    BY DEF EarnedInv
<1>3. CASE j = k
  <2>1. res = "ok" => rc[k]
      BY <1>1
  <2>2. Stamped(copy, k, since[k], res)[j].ok \in {copy[j].ok, IF rc[k] THEN since[k] ELSE copy[j].ok}
      BY <1>1, <1>3, <2>1, StampedType
  <2> QED  BY <1>2, <1>3, <2>2 DEF EarnedInv
<1>4. CASE j # k
    BY <1>1, <1>2, <1>4, StampedType
<1> QED  BY <1>3, <1>4

(* Nobody writes a success of this occurrence that there was not: not from *)
(* the file, from the copy under the lock, from the forced run's copy, nor *)
(* from the return code of a thread that an occurrence has overtaken.      *)
LEMMA EarnedStep == TypeOK /\ HeldOK /\ EarnedInv /\ [Next]_vars => EarnedInv'
<1> SUFFICES ASSUME TypeOK, HeldOK, EarnedInv, [Next]_vars, NEW j \in Jobs,
                    \/ file'[j].ok = "new"
                    \/ copy'[j].ok = "new"
                    \/ forced'.copy[j].ok = "new"
                    \/ thread'[j] \in {"ended", "loaded"} /\ rc'[j] /\ since'[j] = "new"
             PROVE  good'[j]
    BY DEF EarnedInv
<1> USE DEF tick, work, locked, ghosts
<1>0. /\ file[j].ok = "new" => good[j]
      /\ copy[j].ok = "new" => good[j]
      /\ forced.copy[j].ok = "new" => good[j]
      /\ thread[j] \in {"ended", "loaded"} /\ rc[j] /\ since[j] = "new" => good[j]
    BY DEF EarnedInv
<1>1. CASE BeginTick
    BY <1>0, <1>1 DEF BeginTick
<1>2. CASE Look
    BY <1>0, <1>2 DEF Look
<1>3. CASE ClaimLoad
    BY <1>0, <1>3 DEF ClaimLoad, LoadFor
<1>4. CASE ClaimSave
  <2> DEFINE h == Head(todo)
  <2>1. h \in Jobs /\ now[h] \in Times
      BY <1>4, TailDistinct DEF ClaimSave, TypeOK, Times
  <2>2. Stamped(copy, h, now[h], "claim")[j].ok = copy[j].ok
    <3>1. copy \in States
        BY DEF TypeOK
    <3>2. CASE j = h
        BY <2>1, <3>1, <3>2, StampedType
    <3>3. CASE j # h
        BY <2>1, <3>1, <3>3, StampedType
    <3> QED  BY <3>2, <3>3
  <2>3. file' \in {Stamped(copy, h, now[h], "claim"), file, Blank, ForcedState} /\ copy' = Blank
      BY <1>4, <2>1, SaveType DEF ClaimSave
  <2> QED  BY <1>0, <1>4, <2>2, <2>3, BlankType, ForcedEarned DEF ClaimSave
<1>5. CASE StartJob
    BY <1>0, <1>5 DEF StartJob, TypeOK
<1>6. ASSUME NEW k \in Jobs, JobEnds(k) PROVE good'[j]
  <2>1. PICK ok \in BOOLEAN : /\ rc' = [rc EXCEPT ![k] = ok]
                              /\ good' = [good EXCEPT ![k] = @ \/ (ok /\ since[k] = "new")]
      BY <1>6 DEF JobEnds
  <2>2. CASE j = k
      BY <1>0, <1>6, <2>1, <2>2 DEF JobEnds, TypeOK
  <2>3. CASE j # k
      BY <1>0, <1>6, <2>1, <2>3 DEF JobEnds, TypeOK
  <2> QED  BY <2>2, <2>3
<1>7. ASSUME NEW k \in Jobs, WorkLoad(k) PROVE good'[j]
    BY <1>0, <1>7 DEF WorkLoad, LoadFor, TypeOK
<1>8. ASSUME NEW k \in Jobs, WorkSave(k) PROVE good'[j]
  <2> DEFINE res == IF rc[k] THEN "ok" ELSE "failed"
  <2>1. since[k] \in Times
      BY DEF TypeOK, Times
  <2>2. file' \in {Stamped(copy, k, since[k], res), file, Blank, ForcedState} /\ copy' = Blank
      BY <1>8, <2>1, SaveType DEF WorkSave
  <2>3. Stamped(copy, k, since[k], res)[j].ok = "new" => good[j]
      BY <1>8, WorkEarned DEF WorkSave
  <2>4. file'[j].ok = "new" => good[j]
      BY <1>0, <2>2, <2>3, BlankType, ForcedEarned
  <2> QED  BY <1>0, <1>8, <2>2, <2>4, BlankType DEF WorkSave, TypeOK
<1>9. ASSUME NEW k \in Jobs, ForceRun(k) PROVE good'[j]
    BY <1>0, <1>9, BlankType DEF ForceRun, Idle
<1>10. CASE ForceLoad
    BY <1>0, <1>10 DEF ForceLoad, TypeOK
<1>11. CASE ForceSave
  <2>1. lock # None => (HeldState[j].ok = "new" => good[j])
    <3>1. SUFFICES ASSUME lock # None, HeldState[j].ok = "new" PROVE good[j]
        OBVIOUS
    <3>2. lock \in Jobs /\ copy \in States /\ now[lock] \in Times
        BY <3>1 DEF TypeOK, Times
    <3>3. CASE claim = "loaded"
      <4>1. HeldState[j].ok = copy[j].ok
          BY <3>2, <3>3, StampedType DEF HeldState
      <4> QED  BY <1>0, <3>1, <4>1
    <3>4. CASE claim # "loaded"
      <4>1. thread[lock] = "loaded"
          BY <3>1, <3>4 DEF HeldOK
      <4> QED  BY <3>1, <3>2, <3>4, <4>1, WorkEarned DEF HeldState
    <3> QED  BY <3>3, <3>4
  <2>2. file' \in {ForcedState, file, Blank} \/ (lock # None /\ file' = HeldState)
      BY <1>11, ForceType
  <2>3. file'[j].ok = "new" => good[j]
      BY <1>0, <2>1, <2>2, BlankType, ForcedEarned
  <2> QED  BY <1>0, <1>11, <2>3, BlankType DEF ForceSave, Idle
<1>12. ASSUME NEW k \in Jobs, Occurs(k) PROVE good'[j]
  <2>1. forced'.copy = AgedIn(forced.copy, k)
      BY <1>12 DEF Occurs, TypeOK
  <2>2. CASE j = k
    <3>1. file'[j].ok # "new" /\ copy'[j].ok # "new" /\ forced'.copy[j].ok # "new"
        BY <1>12, <2>1, <2>2, AgedType DEF Occurs, TypeOK
    <3>2. ~(thread'[j] \in {"ended", "loaded"} /\ since'[j] = "new")
        BY <1>12, <2>2 DEF Occurs, TypeOK
    <3> QED  BY <3>1, <3>2
  <2>3. CASE j # k
    <3>1. file'[j] = file[j] /\ copy'[j] = copy[j] /\ forced'.copy[j] = forced.copy[j]
      <4>1. file \in States /\ copy \in States /\ forced.copy \in States
          BY DEF TypeOK
      <4>2. file' = AgedIn(file, k) /\ copy' = AgedIn(copy, k)
          BY <1>12 DEF Occurs
      <4> QED  BY <2>1, <2>3, <4>1, <4>2, AgedType
    <3> QED  BY <1>0, <1>12, <2>3, <3>1 DEF Occurs, TypeOK
  <2> QED  BY <2>2, <2>3
<1>13. CASE Crash
    BY <1>0, <1>13, BlankType DEF Crash
<1>14. ASSUME NEW k \in Jobs, OrphanEnds(k) PROVE good'[j]
    BY <1>0, <1>14 DEF OrphanEnds
<1>15. CASE Start
    BY <1>0, <1>15 DEF Start
<1>16. CASE UNCHANGED vars
    BY <1>0, <1>16 DEF vars
<1> QED  BY <1>1, <1>2, <1>3, <1>4, <1>5, <1>6, <1>7, <1>8, <1>9, <1>10, <1>11, <1>12, <1>13,
            <1>14, <1>15, <1>16 DEF Next, TickStep, WorkStep

(* _RUN_LOCK: nobody else loads the file before its holder has replaced it. *)
LEMMA LockStep == TypeOK /\ PassOK /\ LockOK /\ [Next]_vars => LockOK'
<1> SUFFICES ASSUME TypeOK, PassOK, LockOK, [Next]_vars PROVE LockOK'
    OBVIOUS
<1> USE DEF tick, work, locked, ghosts
<1>0. None \notin Jobs
    BY SchedulerAssumption DEF SchedulerAssumption
<1>1. CASE BeginTick
    BY <1>1 DEF BeginTick, LockOK, TypeOK
<1>2. CASE Look
    BY <1>2 DEF Look, LockOK
<1>3. CASE ClaimLoad
    BY <1>0, <1>3 DEF ClaimLoad, LoadFor, LockOK
<1>4. CASE ClaimSave
  <2>1. \A k \in Jobs : thread[k] # "loaded"
      BY <1>4 DEF ClaimSave, LockOK, PassOK, Live
  <2> QED  BY <1>4, <2>1 DEF ClaimSave, LockOK
<1>5. CASE StartJob
    BY <1>5 DEF StartJob, LockOK, TypeOK
<1>6. ASSUME NEW j \in Jobs, JobEnds(j) PROVE LockOK'
    BY <1>6 DEF JobEnds, LockOK, TypeOK
<1>7. ASSUME NEW j \in Jobs, WorkLoad(j) PROVE LockOK'
  <2>1. claim # "loaded" /\ \A k \in Jobs : thread[k] # "loaded"
      BY <1>0, <1>7, TailDistinct DEF WorkLoad, LoadFor, LockOK, TypeOK, PassOK
  <2> QED  BY <1>7, <2>1 DEF WorkLoad, LoadFor, LockOK, TypeOK
<1>8. ASSUME NEW j \in Jobs, WorkSave(j) PROVE LockOK'
  <2>1. claim # "loaded" /\ \A k \in Jobs : thread[k] = "loaded" => k = j
      BY <1>8 DEF WorkSave, LockOK, PassOK, Live
  <2> QED  BY <1>8, <2>1 DEF WorkSave, LockOK, TypeOK
<1>9. CASE ForceLoad \/ ForceSave \/ Start \/ \E j \in Jobs : ForceRun(j) \/ Occurs(j) \/ OrphanEnds(j)
    BY <1>9 DEF ForceLoad, ForceSave, Start, ForceRun, Occurs, OrphanEnds, LockOK
<1>10. CASE Crash
    BY <1>10 DEF Crash, LockOK
<1>11. CASE UNCHANGED vars
    BY <1>11 DEF vars, LockOK
<1> QED  BY <1>1, <1>2, <1>3, <1>4, <1>5, <1>6, <1>7, <1>8, <1>9, <1>10, <1>11
         DEF Next, TickStep, WorkStep

(* Only who has loaded the file holds the lock.                            *)
LEMMA HeldStep == TypeOK /\ PassOK /\ LockOK /\ HeldOK /\ [Next]_vars => HeldOK'
<1> SUFFICES ASSUME TypeOK, PassOK, LockOK, HeldOK, [Next]_vars, lock' # None
             PROVE  claim' = "loaded" \/ thread'[lock'] = "loaded"
    BY DEF HeldOK
<1> USE DEF tick, work, locked, ghosts
<1>0. None \notin Jobs /\ (lock # None => lock \in Jobs /\ (claim = "loaded" \/ thread[lock] = "loaded"))
    BY SchedulerAssumption DEF SchedulerAssumption, HeldOK, TypeOK
<1>1. CASE BeginTick
    BY <1>0, <1>1 DEF BeginTick
<1>2. CASE Look
    BY <1>0, <1>2 DEF Look
<1>3. CASE ClaimLoad
    BY <1>3 DEF ClaimLoad
<1>4. CASE ClaimSave
    BY <1>4 DEF ClaimSave, SaveFor
<1>5. CASE StartJob
  <2>1. Head(todo) \in Jobs /\ claim # "none"
      BY <1>5, TailDistinct DEF StartJob, TypeOK, PassOK
  <2>2. lock \in Jobs /\ thread[lock] = "loaded" /\ lock # Head(todo)
      BY <1>0, <1>5, <2>1 DEF StartJob, PassOK, Live
  <2> QED  BY <1>5, <2>2 DEF StartJob, TypeOK
<1>6. ASSUME NEW j \in Jobs, JobEnds(j) PROVE claim' = "loaded" \/ thread'[lock'] = "loaded"
    BY <1>0, <1>6 DEF JobEnds, TypeOK
<1>7. ASSUME NEW j \in Jobs, WorkLoad(j) PROVE claim' = "loaded" \/ thread'[lock'] = "loaded"
    BY <1>7 DEF WorkLoad, LoadFor, TypeOK
<1>8. ASSUME NEW j \in Jobs, WorkSave(j) PROVE claim' = "loaded" \/ thread'[lock'] = "loaded"
    BY <1>8 DEF WorkSave, SaveFor
<1>9. CASE ForceLoad \/ ForceSave \/ Start \/ \E j \in Jobs : ForceRun(j) \/ Occurs(j) \/ OrphanEnds(j)
    BY <1>0, <1>9 DEF ForceLoad, ForceSave, Start, ForceRun, Occurs, OrphanEnds
<1>10. CASE Crash
    BY <1>10 DEF Crash
<1>11. CASE UNCHANGED vars
    BY <1>0, <1>11 DEF vars
<1> QED  BY <1>1, <1>2, <1>3, <1>4, <1>5, <1>6, <1>7, <1>8, <1>9, <1>10, <1>11
         DEF Next, TickStep, WorkStep

(* last_ok in the state file is never at or after an occurrence whose runs *)
(* all failed: _stamp moves it on a return code of 0 alone, whichever      *)
(* writer's copy of the file wins, and whenever the clock moves on.        *)
THEOREM OkEarned == Spec => []OkIsEarned
<1>1. Init => EarnedInv /\ LockOK /\ HeldOK
    BY BlankType DEF Init, Idle, EarnedInv, LockOK, HeldOK
<1>2. EarnedInv => OkIsEarned
    BY DEF EarnedInv, OkIsEarned
<1> QED  BY <1>1, <1>2, EarnedStep, LockStep, HeldStep, TypeInit, TypeStep, PTL DEF Spec
---------------------------------------------------------------------------
(* last_run.                                                               *)

(* A pass looks at a job once, with what it loaded when it began; and an   *)
(* occurrence that comes meanwhile makes the job's time old.               *)
LEMMA FreshStep ==
    TypeOK /\ PassOK /\ TakenIsFiled /\ DueIsFresh /\ [Next]_vars => DueIsFresh'
<1> SUFFICES ASSUME TypeOK, PassOK, TakenIsFiled, DueIsFresh, [Next]_vars PROVE DueIsFresh'
    OBVIOUS
<1> USE DEF tick, work, locked, ghosts
<1>0. ASSUME UNCHANGED <<todo, now, snap, runs>>,
             \A j \in Jobs : lost[j] => lost'[j],
             \A j \in Jobs : thread'[j] # "none" /\ since'[j] = "old"
                               => thread[j] # "none" /\ since[j] = "old"
      PROVE  DueIsFresh'
  <2>1. \A i \in 1 .. Len(todo) : todo[i] \in Jobs
      BY DEF TypeOK
  <2> QED  BY <1>0, <2>1 DEF DueIsFresh
<1>1. CASE BeginTick
  <2>1. ASSUME NEW i \in 1 .. Len(todo'), snap'[todo'[i]] # "new", ~lost'[todo'[i]]
        PROVE  runs'[todo'[i]] = 0
    <3>1. todo'[i] \in Jobs
        BY <1>1, SchedulerAssumption DEF BeginTick, SchedulerAssumption
    <3>2. file[todo'[i]].last # "new" /\ ~lost[todo'[i]] /\ runs' = runs
        BY <1>1, <2>1, <3>1 DEF BeginTick
    <3>3. ~(runs[todo'[i]] >= 1)
        BY <3>1, <3>2 DEF TakenIsFiled, Taken
    <3>4. runs[todo'[i]] \in 0 .. 2
        BY <3>1 DEF TypeOK
    <3> QED  BY <3>2, <3>3, <3>4
  <2>2. \A i \in 1 .. Len(todo') : now'[todo'[i]] = "new"
      BY <1>1, SchedulerAssumption DEF BeginTick, SchedulerAssumption
  <2>3. UNCHANGED <<thread, since, runs>>
      BY <1>1 DEF BeginTick
  <2> QED  BY <2>1, <2>2, <2>3 DEF DueIsFresh
<1>2. CASE Look
  <2>1. ASSUME NEW i \in 1 .. Len(todo')
        PROVE  /\ \E k \in 1 .. Len(todo) : todo'[i] = todo[k]
               /\ now'[todo'[i]] = now[todo'[i]] /\ snap'[todo'[i]] \in {snap[todo'[i]], "new"}
    <3>1. todo # <<>> /\ (todo' = todo \/ todo' = Tail(todo)) /\ Looked
        BY <1>2 DEF Look
    <3>2. \E k \in 1 .. Len(todo) : todo'[i] = todo[k]
      <4>1. todo' = todo => todo'[i] = todo[i] /\ i \in 1 .. Len(todo)
          OBVIOUS
      <4>2. todo' = Tail(todo) => todo'[i] = todo[i + 1] /\ i + 1 \in 1 .. Len(todo)
          BY <3>1, TailDistinct DEF TypeOK, PassOK
      <4> QED  BY <3>1, <4>1, <4>2
    <3>3. todo'[i] \in Jobs /\ todo' # <<>>
        BY <3>1, <3>2 DEF TypeOK
    <3> QED  BY <3>1, <3>2, <3>3 DEF Looked
  <2>2. UNCHANGED <<thread, since, runs, lost>>
      BY <1>2 DEF Look
  <2> QED  BY <2>1, <2>2 DEF DueIsFresh
<1>3. CASE ClaimLoad
    BY <1>0, <1>3 DEF ClaimLoad
<1>4. CASE ClaimSave
  <2>1. Head(todo) \in Jobs /\ now[Head(todo)] \in Times
      BY <1>4, TailDistinct DEF ClaimSave, TypeOK, PassOK, Times
  <2>2. \A j \in Jobs : lost[j] => lost'[j]
      BY <1>4, <2>1, SaveType DEF ClaimSave
  <2> QED  BY <1>0, <1>4, <2>2 DEF ClaimSave
<1>5. CASE StartJob
  <2> DEFINE h == Head(todo)
  <2>1. /\ h \in Jobs /\ h = todo[1] /\ todo \in Seq(Jobs) /\ todo # <<>> /\ todo' = Tail(todo)
        /\ \A i \in 1 .. Len(Tail(todo)) :
              i + 1 \in 1 .. Len(todo) /\ Tail(todo)[i] = todo[i + 1] /\ Tail(todo)[i] # h
      BY <1>5, TailDistinct DEF StartJob, TypeOK, PassOK
  <2>2. \A j \in Jobs : j # h => runs'[j] = runs[j] /\ thread'[j] = thread[j] /\ since'[j] = since[j]
      BY <1>5, <2>1 DEF StartJob, TypeOK
  <2>3. ASSUME NEW i \in 1 .. Len(todo')
        PROVE  LET j == todo'[i]
               IN  /\ now'[j] = "new" /\ snap'[j] # "new" /\ ~lost'[j] => runs'[j] = 0
                   /\ now'[j] = "old" => runs'[j] = 0
    <3>1. i + 1 \in 1 .. Len(todo) /\ todo'[i] = todo[i + 1] /\ todo'[i] # h
        BY <2>1
    <3>2. todo'[i] \in Jobs
        BY <2>1, <3>1
    <3>3. todo' # <<>>
        OBVIOUS
    <3>4. now'[todo'[i]] = now[todo'[i]] /\ snap'[todo'[i]] \in {snap[todo'[i]], "new"} /\ lost' = lost
        BY <1>5, <3>2, <3>3 DEF StartJob, Looked
    <3> QED  BY <2>2, <3>1, <3>2, <3>4 DEF DueIsFresh
  <2>4. since'[h] = "old" => runs'[h] = 0
    <3>1. since'[h] = now[h] /\ (now[h] # "new" => runs'[h] = runs[h])
        BY <1>5, <2>1 DEF StartJob, TypeOK
    <3>2. 1 \in 1 .. Len(todo) /\ (now[h] = "old" => runs[h] = 0)
        BY <2>1 DEF DueIsFresh
    <3> QED  BY <3>1, <3>2
  <2> QED  BY <2>2, <2>3, <2>4 DEF DueIsFresh
<1>6. ASSUME NEW j \in Jobs, JobEnds(j) PROVE DueIsFresh'
    BY <1>0, <1>6 DEF JobEnds, TypeOK
<1>7. ASSUME NEW j \in Jobs, WorkLoad(j) PROVE DueIsFresh'
    BY <1>0, <1>7 DEF WorkLoad, TypeOK
<1>8. ASSUME NEW j \in Jobs, WorkSave(j) PROVE DueIsFresh'
  <2>1. \A k \in Jobs : lost[k] => lost'[k]
      BY <1>8, WorkSaveType
  <2> QED  BY <1>0, <1>8, <2>1 DEF WorkSave, TypeOK
<1>9. CASE ForceLoad \/ Start \/ \E j \in Jobs : ForceRun(j) \/ OrphanEnds(j)
    BY <1>0, <1>9 DEF ForceLoad, Start, ForceRun, OrphanEnds
<1>10. CASE ForceSave
  <2>1. \A j \in Jobs : lost[j] => lost'[j]
      BY <1>10, ForceType
  <2> QED  BY <1>0, <1>10, <2>1 DEF ForceSave
<1>11. ASSUME NEW k \in Jobs, Occurs(k) PROVE DueIsFresh'
  <2>1. runs'[k] = 0 /\ todo' = todo
      BY <1>11 DEF Occurs, TypeOK
  <2>2. \A j \in Jobs : j # k => /\ now'[j] = now[j] /\ snap'[j] = snap[j] /\ lost'[j] = lost[j]
                                 /\ runs'[j] = runs[j] /\ thread'[j] = thread[j] /\ since'[j] = since[j]
      BY <1>11 DEF Occurs, TypeOK
  <2>3. \A i \in 1 .. Len(todo) : todo[i] \in Jobs
      BY DEF TypeOK
  <2> QED  BY <2>1, <2>2, <2>3 DEF DueIsFresh
<1>12. CASE Crash
    BY <1>12 DEF Crash, DueIsFresh
<1>13. CASE UNCHANGED vars
    BY <1>0, <1>13 DEF vars
<1> QED  BY <1>1, <1>2, <1>3, <1>4, <1>5, <1>6, <1>7, <1>8, <1>9, <1>10, <1>11, <1>12, <1>13
         DEF Next, TickStep, WorkStep
(* A claim that reached the file stays there until the next occurrence:    *)
(* under the lock the file and the copy agree on it, and whoever writes    *)
(* over it from outside the lock is known to have lost it.                 *)
LEMMA TakenStep ==
    TypeOK /\ PassOK /\ LockOK /\ TakenIsFiled /\ DueIsFresh /\ [Next]_vars => TakenIsFiled'
<1> SUFFICES ASSUME TypeOK, PassOK, LockOK, TakenIsFiled, DueIsFresh, [Next]_vars,
                    NEW j \in Jobs, Taken(j)', ~lost'[j]
             PROVE  file'[j].last = "new" /\ (lock' # None => copy'[j].last = "new")
    BY DEF TakenIsFiled
<1> USE DEF tick, work, locked, ghosts
<1> DEFINE Filed == file[j].last = "new" /\ (lock # None => copy[j].last = "new")
<1>0. /\ Taken(j) /\ ~lost[j] => Filed
      /\ None \notin Jobs
    BY SchedulerAssumption DEF TakenIsFiled, SchedulerAssumption
<1>1. CASE BeginTick
  <2>1. Taken(j)
      BY <1>1 DEF BeginTick, Taken, TypeOK
  <2> QED  BY <1>0, <1>1, <2>1 DEF BeginTick
<1>2. CASE Look
  <2>1. Taken(j)
      BY <1>2 DEF Look, Taken
  <2> QED  BY <1>0, <1>2, <2>1 DEF Look
<1>3. CASE ClaimLoad
  <2>1. Taken(j)
      BY <1>3 DEF ClaimLoad, Taken
  <2> QED  BY <1>0, <1>3, <2>1 DEF ClaimLoad, LoadFor
<1>4. CASE ClaimSave
  <2> DEFINE h == Head(todo)
  <2>1. h \in Jobs /\ h = todo[1] /\ 1 \in 1 .. Len(todo)
      BY <1>4, TailDistinct DEF ClaimSave, TypeOK, PassOK
  <2>2. now[h] \in {"old", "new"} /\ copy \in States
      BY <2>1 DEF TypeOK
  <2>3. /\ lock' = None /\ (lost[j] => lost'[j])
        /\ \/ file' = Stamped(copy, h, now[h], "claim") /\ UNCHANGED lost
           \/ Loses(IF now[h] = "new" THEN {h} ELSE {})
      BY <1>4, <2>1, <2>2, SaveType DEF ClaimSave, Times
  <2>4. Taken(j) \/ (j = h /\ now[h] = "new")
      BY <1>4 DEF ClaimSave, Taken
  <2>5. CASE Loses(IF now[h] = "new" THEN {h} ELSE {})
      BY <2>3, <2>4, <2>5, LosesCounts
  <2>6. CASE file' = Stamped(copy, h, now[h], "claim")
    <3>1. CASE j = h /\ now[h] = "new"
      <4>1. Stamped(copy, h, now[h], "claim")[j].last = "new"
          BY <2>1, <2>2, <3>1, StampedType DEF Times
      <4> QED  BY <2>3, <2>6, <4>1
    <3>2. CASE j = h /\ now[h] = "old"
      <4>1. runs[j] = 0 /\ Taken(j)
          BY <2>1, <2>4, <3>2 DEF DueIsFresh
      <4> QED  BY <1>4, <4>1 DEF ClaimSave, Taken
    <3>3. CASE j # h
      <4>1. lock # None
          BY <1>0, <1>4, <2>1 DEF ClaimSave, LockOK
      <4>2. copy[j].last = "new"
          BY <1>0, <2>3, <2>4, <3>3, <4>1
      <4>3. Stamped(copy, h, now[h], "claim")[j] = copy[j]
          BY <2>1, <2>2, <3>3, StampedType DEF Times
      <4> QED  BY <2>3, <2>6, <4>2, <4>3
    <3> QED  BY <2>2, <3>1, <3>2, <3>3
  <2> QED  BY <2>3, <2>5, <2>6
<1>5. CASE StartJob
  <2> DEFINE h == Head(todo)
  <2>1. h \in Jobs /\ h = todo[1] /\ 1 \in 1 .. Len(todo)
      BY <1>5, TailDistinct DEF StartJob, TypeOK, PassOK
  <2>2. Taken(j)
    <3>1. CASE j # h
        BY <1>5, <3>1 DEF StartJob, Taken, TypeOK
    <3>2. CASE j = h /\ now[h] = "new"
        BY <1>5, <3>2 DEF StartJob, Taken
    <3>3. CASE j = h /\ now[h] # "new"
        BY <1>5, <2>1, <3>3 DEF StartJob, Taken, TypeOK
    <3> QED  BY <3>1, <3>2, <3>3
  <2> QED  BY <1>0, <1>5, <2>2 DEF StartJob
<1>6. ASSUME NEW k \in Jobs, JobEnds(k)
      PROVE  file'[j].last = "new" /\ (lock' # None => copy'[j].last = "new")
  <2>1. Taken(j)
      BY <1>6 DEF JobEnds, Taken
  <2> QED  BY <1>0, <1>6, <2>1 DEF JobEnds
<1>7. ASSUME NEW k \in Jobs, WorkLoad(k)
      PROVE  file'[j].last = "new" /\ (lock' # None => copy'[j].last = "new")
  <2>1. Taken(j)
      BY <1>7 DEF WorkLoad, Taken
  <2> QED  BY <1>0, <1>7, <2>1 DEF WorkLoad, LoadFor
<1>8. ASSUME NEW k \in Jobs, WorkSave(k)
      PROVE  file'[j].last = "new" /\ (lock' # None => copy'[j].last = "new")
  <2> DEFINE res == IF rc[k] THEN "ok" ELSE "failed"
  <2>1. since[k] \in {"old", "new"} /\ copy \in States
      BY DEF TypeOK
  <2>2. /\ lock' = None /\ (lost[j] => lost'[j])
        /\ \/ file' = Stamped(copy, k, since[k], res) /\ UNCHANGED lost
           \/ Loses({})
      BY <1>8, WorkSaveType
  <2>3. Taken(j) /\ lock # None
      BY <1>0, <1>8 DEF WorkSave, LockOK, Taken
  <2>4. CASE Loses({})
      BY <2>2, <2>3, <2>4, LosesCounts
  <2>5. CASE file' = Stamped(copy, k, since[k], res)
    <3>1. CASE j # k
      <4>1. Stamped(copy, k, since[k], res)[j] = copy[j]
          BY <2>1, <3>1, StampedType DEF Times
      <4> QED  BY <1>0, <2>2, <2>3, <2>5, <4>1
    <3>2. CASE j = k
      <4>1. thread[k] # "none"
          BY <1>8 DEF WorkSave
      <4>2. runs[j] >= 1
          BY <2>3, <3>2, <4>1 DEF Taken, PassOK, Live
      <4>3. since[k] = "new"
          BY <2>1, <3>2, <4>1, <4>2 DEF DueIsFresh
      <4>4. Stamped(copy, k, since[k], res)[j].last = "new"
          BY <2>1, <3>2, <4>3, StampedType DEF Times
      <4> QED  BY <2>2, <2>5, <4>4
    <3> QED  BY <3>1, <3>2
  <2> QED  BY <2>2, <2>4, <2>5
<1>9. CASE ForceLoad \/ Start \/ \E k \in Jobs : ForceRun(k) \/ OrphanEnds(k)
  <2>1. Taken(j)
      BY <1>9 DEF ForceLoad, Start, ForceRun, OrphanEnds, Taken
  <2> QED  BY <1>0, <1>9, <2>1 DEF ForceLoad, Start, ForceRun, OrphanEnds
<1>10. CASE ForceSave
  <2>1. Taken(j) /\ copy' = copy /\ lock' = lock /\ ~lost[j]
      BY <1>10, ForceType DEF ForceSave, Taken
  <2>2. file'[j].last = "new"
      BY <1>0, <1>10, <2>1, ForceType, LosesCounts
  <2> QED  BY <1>0, <2>1, <2>2
<1>11. ASSUME NEW k \in Jobs, Occurs(k)
       PROVE  file'[j].last = "new" /\ (lock' # None => copy'[j].last = "new")
  <2>1. CASE j # k
    <3>1. Taken(j) /\ ~lost[j] /\ lock' = lock
        BY <1>11, <2>1 DEF Occurs, Taken, TypeOK
    <3>2. file \in States /\ copy \in States
        BY DEF TypeOK
    <3>3. file'[j] = file[j] /\ copy'[j] = copy[j]
        BY <1>11, <2>1, <3>2, AgedType DEF Occurs
    <3> QED  BY <1>0, <3>1, <3>3
  <2>2. CASE j = k
    <3>1. runs'[j] = 0 /\ claim' = claim /\ todo' = todo
        BY <1>11, <2>2 DEF Occurs, TypeOK
    <3>2. claim = "saved" => now'[j] = "old"
        BY <1>11, <2>2 DEF Occurs, TypeOK
    <3> QED  BY <3>1, <3>2 DEF Taken
  <2> QED  BY <2>1, <2>2
<1>12. CASE Crash
  <2>1. Taken(j) /\ lock' = None
      BY <1>12 DEF Crash, Taken
  <2> QED  BY <1>0, <1>12, <2>1 DEF Crash
<1>13. CASE UNCHANGED vars
  <2>1. Taken(j)
      BY <1>13 DEF vars, Taken
  <2> QED  BY <1>0, <1>13, <2>1 DEF vars
<1> QED  BY <1>1, <1>2, <1>3, <1>4, <1>5, <1>6, <1>7, <1>8, <1>9, <1>10, <1>11, <1>12, <1>13
         DEF Next, TickStep, WorkStep

(* Only a start counts, and it is of a job whose occurrence is not taken.  *)
LEMMA OnceStep ==
    TypeOK /\ PassOK /\ DueIsFresh /\ OncePerOccurrence /\ [Next]_vars => OncePerOccurrence'
<1> SUFFICES ASSUME TypeOK, PassOK, DueIsFresh, OncePerOccurrence, [Next]_vars,
                    NEW j \in Jobs, ~lost'[j]
             PROVE  runs'[j] <= 1
    BY DEF OncePerOccurrence
<1> USE DEF tick, work, locked, ghosts
<1>0. (~lost[j] => runs[j] <= 1) /\ runs[j] \in 0 .. 2
    BY DEF OncePerOccurrence, TypeOK
<1>1. CASE StartJob
  <2> DEFINE h == Head(todo)
  <2>1. h \in Jobs /\ h = todo[1] /\ 1 \in 1 .. Len(todo) /\ snap[h] # "new" /\ now[h] \in {"old", "new"}
      BY <1>1, TailDistinct DEF StartJob, TypeOK, PassOK
  <2>2. ~lost[j] /\ runs' = [runs EXCEPT ![h] = IF now[h] = "new" /\ @ < 2 THEN @ + 1 ELSE @]
      BY <1>1 DEF StartJob
  <2>3. j = h => runs[h] = 0
      BY <2>1, <2>2 DEF DueIsFresh
  <2> QED  BY <1>0, <2>1, <2>2, <2>3 DEF TypeOK
<1>2. CASE ClaimSave
  <2>1. Head(todo) \in Jobs /\ now[Head(todo)] \in Times
      BY <1>2, TailDistinct DEF ClaimSave, TypeOK, PassOK, Times
  <2> QED  BY <1>0, <1>2, <2>1, SaveType DEF ClaimSave
<1>3. CASE ForceSave
    BY <1>0, <1>3, ForceType DEF ForceSave
<1>4. ASSUME NEW k \in Jobs, Occurs(k) PROVE runs'[j] <= 1
    BY <1>0, <1>4 DEF Occurs, TypeOK
<1>5. CASE UNCHANGED ghosts
    BY <1>0, <1>5
<1>6. ASSUME NEW k \in Jobs, JobEnds(k) PROVE runs'[j] <= 1
    BY <1>0, <1>6 DEF JobEnds
<1>7. CASE BeginTick \/ Look \/ ClaimLoad \/ ForceLoad \/ Crash \/ Start
           \/ \E k \in Jobs : WorkLoad(k) \/ ForceRun(k) \/ OrphanEnds(k)
    BY <1>5, <1>7 DEF BeginTick, Look, ClaimLoad, ForceLoad, Crash, Start, WorkLoad, ForceRun, OrphanEnds
<1>8. ASSUME NEW k \in Jobs, WorkSave(k) PROVE runs'[j] <= 1
  <2>1. since[k] \in Times
      BY DEF TypeOK, Times
  <2> QED  BY <1>0, <1>8, <2>1, SaveType DEF WorkSave
<1> QED  BY <1>1, <1>2, <1>3, <1>4, <1>5, <1>6, <1>7, <1>8 DEF Next, TickStep, WorkStep, vars

(* A scheduled occurrence of a job starts it at most once, whatever the    *)
(* order of the ticks, the stamps of other jobs, forced runs, crashes and  *)
(* restarts, unless its claim did not reach the state file or was written  *)
(* over: _stamp claims under the lock before the start, and tick() reads   *)
(* is_due from the file.                                                   *)
THEOREM StartsOnce == Spec => []OncePerOccurrence
<1>1. Init => OnceInv
    BY DEF Init, OnceInv, LockOK, TakenIsFiled, Taken, DueIsFresh, OncePerOccurrence
<1>2. TypeOK /\ PassOK /\ OnceInv /\ [Next]_vars => OnceInv'
    BY LockStep, FreshStep, TakenStep, OnceStep DEF OnceInv
<1>3. OnceInv => OncePerOccurrence
    BY DEF OnceInv
<1> QED  BY <1>1, <1>2, <1>3, TypeInit, TypeStep, PTL DEF Spec
=============================================================================
