-------------------------- MODULE Supervision --------------------------
(***************************************************************************)
(* Who keeps the processes running, and who keeps them stopped.            *)
(*                                                                         *)
(* scripts/supervise_processes.py is run by the scheduler for the trading  *)
(* loop and the other daemons, and by the loop for the scheduler.  A pass  *)
(* lists the processes, reads its restart history and the halt file, and   *)
(* runs scripts/restart.sh for each component it finds dead.  The operator *)
(* runs the same script by hand.  Nothing is locked: two runs of the       *)
(* script, and two updates of the halt file, may overlap.                  *)
(*                                                                         *)
(* A pass is a process of its own.  It survives the host that began it.    *)
(***************************************************************************)
EXTENDS Naturals, Sequences, FiniteSets

CONSTANTS
    Loop, Server, Sched, Rotator,   \* the processes restart.sh manages
    Components,         \* those this instance has
    Passes,             \* supervisor passes that can be under way at a time
    HostOf,             \* pass -> Loop or Sched, whichever begins it
    Op,                 \* the operator
    Requests,           \* what the operator asks for: actions of restart.sh
    MaxRestarts,        \* MAX_RESTARTS
    Events,
    MaxRequests,        \* bound: requests of the operator
    MaxFaults,          \* bound: failed process listings and hung restarts
    MaxSlips,           \* bound: slips with which a pass still begins beside another
    MaxCopies           \* bound: processes of one component

AllEvents   == {"crash", "dies", "disk", "ps_fails", "hang", "hour"}
AllRequests == {"loop", "sched", "server", "restart", "stoploop", "stop"}

ASSUME SupervisionAssumption ==
    /\ Cardinality({Loop, Server, Sched, Rotator}) = 4
    /\ {Loop, Sched} \subseteq Components
    /\ Components \subseteq {Loop, Server, Sched, Rotator}
    /\ IsFiniteSet(Passes)
    /\ HostOf \in [Passes -> {Loop, Sched}] /\ Op \notin Passes
    /\ Requests \subseteq AllRequests /\ ("server" \in Requests => Server \in Components)
    /\ Events \subseteq AllEvents
    /\ MaxRestarts \in Nat /\ MaxCopies \in Nat \ {0}
    /\ MaxRequests \in Nat /\ MaxFaults \in Nat /\ MaxSlips \in Nat

Actors == Passes \cup {Op}

VARIABLES
    up,         \* component -> its processes
    marked,     \* the halt file
    history,    \* component -> restarts of the last hour in its supervisor's state file
    todo,       \* actor -> the steps of restart.sh it has still to do
    copy,       \* actor -> the halt file as it is about to write it
    taken,      \* actors whose temporary file another one has moved away
    stage,      \* pass -> "idle", "listed" (ps), "read" (history, halt file)
    orphan,     \* passes whose host is gone
    seen,       \* pass -> components it took for alive
    down,       \* pass -> components it read as halted
    past,       \* pass -> history, as read and counted on
    left,       \* pass -> components it has still to look at
    requests, faults,
    tries,      \* ghost: component -> restarts supervision tried in the last hour
    spent,      \* ghost: component -> those that have come to their end: with a
                \* process, or with the reason why there is none
    slips,      \* ghost: passes of the last hour whose count may be lost: they died
                \* of a restart, or began beside another one of their host
    kept,       \* ghost: component -> how the operator stopped it, if he did
    touched     \* ghost: pass -> components others started since it listed

files  == <<marked, history>>
script == <<todo, copy, taken>>
pass   == <<stage, orphan, seen, down, past, left>>
ghosts == <<tries, spent, slips, kept, touched>>
vars   == <<up, files, script, pass, requests, faults, ghosts>>
---------------------------------------------------------------------------
\* A component, if this instance has it.
Here(c) == IF c \in Components THEN <<c>> ELSE <<>>

\* What the passes of a host look at, in this order.
Watched(h) == IF h = Sched THEN <<Loop>> \o Here(Server) \o Here(Rotator) ELSE <<Sched>>

Members(s) == {s[i] : i \in DOMAIN s}

\* The actions of scripts/restart.sh, as sequences of steps.
Step(op, c)   == [op |-> op, of |-> c]
Each(op, s)   == [i \in DOMAIN s |-> Step(op, s[i])]
Restarting(c) == <<Step("stop", c), Step("clear", c), Step("start", c)>>
All           == <<Loop>> \o Here(Server) \o Here(Rotator) \o <<Sched>>
RestartAll    == Each("stop", <<Loop>> \o Here(Server) \o <<Sched>>) \o Each("clear", All)
                 \o Each("start", Here(Server) \o <<Loop, Sched>> \o Here(Rotator))
Stopping(s, t) == Each("mark", s) \o Each("stop", t)

Script(request) ==
    CASE request = "loop"     -> Restarting(Loop)
      [] request = "sched"    -> Restarting(Sched)
      [] request = "server"   -> Restarting(Server)
      [] request = "restart"  -> RestartAll
      [] request = "stoploop" -> Stopping(<<Loop>>, <<Loop>>)
      [] request = "stop"     ->
            Stopping(All, <<Loop>> \o Here(Server) \o <<Sched>> \o Here(Rotator))

Alive == {c \in Components : up[c] > 0}

Init ==
    /\ up = [c \in Components |-> 1]
    /\ marked = {} /\ history = [c \in Components |-> 0]
    /\ todo = [a \in Actors |-> <<>>] /\ copy = [a \in Actors |-> {}]
    /\ taken = {}
    /\ stage = [p \in Passes |-> "idle"] /\ orphan = {}
    /\ seen = [p \in Passes |-> {}] /\ down = [p \in Passes |-> {}]
    /\ past = [p \in Passes |-> history] /\ left = [p \in Passes |-> <<>>]
    /\ requests = 0 /\ faults = 0
    /\ tries = history /\ spent = history /\ slips = 0
    /\ kept = [c \in Components |-> "no"] /\ touched = [p \in Passes |-> {}]
---------------------------------------------------------------------------
(* A pass of supervise_processes.main.                                     *)

Fault(event) == event \in Events /\ faults < MaxFaults /\ faults' = faults + 1

\* Mutant: a listing that failed shows no process, so all are dead.
ListDead(p) ==
    \/ seen' = [seen EXCEPT ![p] = Alive] /\ UNCHANGED faults
    \/ Fault("ps_fails") /\ seen' = [seen EXCEPT ![p] = {}]

\* _command_lines and alive: a listing that failed shows everything alive.
List(p) ==
    \/ seen' = [seen EXCEPT ![p] = Alive] /\ UNCHANGED faults
    \/ Fault("ps_fails") /\ seen' = [seen EXCEPT ![p] = Components]

\* The passes of a host that have begun and not ended.
UnderWay(h) == {p \in Passes : HostOf[p] = h /\ stage[p] # "idle"}

\* The scheduler runs one pass at a time, and so does the thread in the loop; a
\* pass that its predecessor left may still be under way.
Begin(p) ==
    /\ stage[p] = "idle" /\ HostOf[p] \in Alive
    /\ UnderWay(HostOf[p]) \subseteq orphan
    /\ UnderWay(HostOf[p]) # {} => slips < MaxSlips
    /\ slips' = IF UnderWay(HostOf[p]) = {} THEN slips ELSE slips + 1
    /\ List(p)
    /\ stage' = [stage EXCEPT ![p] = "listed"]
    /\ left' = [left EXCEPT ![p] = Watched(HostOf[p])]
    /\ touched' = [touched EXCEPT ![p] = {}]
    /\ UNCHANGED <<up, files, script, orphan, down, past, requests, tries, spent, kept>>

Read(p) ==
    /\ stage[p] = "listed"
    /\ past' = [past EXCEPT ![p] = history]
    /\ down' = [down EXCEPT ![p] = marked]
    /\ stage' = [stage EXCEPT ![p] = "read"]
    /\ UNCHANGED <<up, files, script, orphan, seen, left, requests, faults, ghosts>>

\* Mutant: an operator's stop does not count.
DecideUnhalted(p, c) ==
    IF c \in seen[p] THEN "none"
    ELSE IF past[p][c] >= MaxRestarts THEN "give_up" ELSE "restart"

Decide(p, c) ==
    CASE c \in seen[p] \cup down[p]    -> "none"
      [] past[p][c] >= MaxRestarts     -> "give_up"
      [] OTHER                         -> "restart"

\* A try of a pass has come to its end.
Spends(a, c) == spent' = IF a = Op THEN spent ELSE [spent EXCEPT ![c] = @ + 1]

\* The next component.  A restart counts whatever comes of it; with the disk
\* full the script refuses to start the loop, the server and the scheduler.
Look(p) ==
    /\ stage[p] = "read" /\ todo[p] = <<>> /\ left[p] # <<>>
    /\ LET c == Head(left[p])
       IN  IF Decide(p, c) = "restart"
           THEN /\ past' = [past EXCEPT ![p][c] = @ + 1]
                /\ tries' = [tries EXCEPT ![c] = @ + 1]
                /\ \/ todo' = [todo EXCEPT ![p] = Restarting(c)] /\ UNCHANGED spent
                   \/ "disk" \in Events /\ c # Rotator /\ Spends(p, c) /\ UNCHANGED todo
           ELSE UNCHANGED <<past, tries, spent, todo>>
    /\ left' = [left EXCEPT ![p] = Tail(@)]
    /\ UNCHANGED <<up, files, copy, taken, stage, orphan, seen, down, requests, faults,
                   slips, kept, touched>>

Ends(p) ==
    /\ stage' = [stage EXCEPT ![p] = "idle"]
    /\ orphan' = orphan \ {p}
    /\ seen' = [seen EXCEPT ![p] = {}] /\ down' = [down EXCEPT ![p] = {}]
    /\ past' = [past EXCEPT ![p] = [c \in Components |-> 0]]
    /\ left' = [left EXCEPT ![p] = <<>>]
    /\ touched' = [touched EXCEPT ![p] = {}]

\* Mutant: the history is not written.
SaveNothing(p) ==
    /\ stage[p] = "read" /\ todo[p] = <<>> /\ left[p] = <<>>
    /\ Ends(p)
    /\ UNCHANGED <<up, files, script, requests, faults, tries, spent, slips, kept>>

\* _write of the state file, which only passes of this kind write.
Save(p) ==
    /\ stage[p] = "read" /\ todo[p] = <<>> /\ left[p] = <<>>
    /\ history' = [c \in Components |->
                     IF c \in Members(Watched(HostOf[p])) THEN past[p][c] ELSE history[c]]
    /\ Ends(p)
    /\ UNCHANGED <<up, marked, script, requests, faults, tries, spent, slips, kept>>

\* restart.sh takes more than 180 s: TimeoutExpired ends script and pass alike,
\* and the history is not written.
Hang(p) ==
    /\ todo[p] # <<>> /\ Head(todo[p]).op \notin {"write", "spawn"}
    /\ Fault("hang")
    /\ slips' = slips + 1
    /\ todo' = [todo EXCEPT ![p] = <<>>]
    /\ Ends(p)
    /\ UNCHANGED <<up, files, copy, taken, requests, tries, spent, kept>>
---------------------------------------------------------------------------
(* A run of scripts/restart.sh, by a pass or by the operator.              *)

Does(a, op, c) == todo[a] # <<>> /\ Head(todo[a]) = Step(op, c)
Done(a)        == todo' = [todo EXCEPT ![a] = Tail(@)]

\* Killing a host orphans its passes.
Orphans(c) == orphan' = orphan \cup UnderWay(c)

\* stop_proc: every process of the component, however many.  A stop of the
\* operator is "sure" when its mark is in the file and no pass is past reading it.
Stop(a, c) ==
    /\ Does(a, "stop", c)
    /\ up' = [up EXCEPT ![c] = 0]
    /\ Orphans(c)
    /\ LET forGood == \A i \in DOMAIN todo[a] : todo[a][i] # Step("start", c)
           sure    == c \in marked /\ \A p \in Passes : stage[p] # "read"
       IN  kept' = IF a # Op \/ ~forGood THEN kept
                   ELSE [kept EXCEPT ![c] = IF sure THEN "sure" ELSE "raced"]
    /\ Done(a)
    /\ UNCHANGED <<files, copy, taken, stage, seen, down, past, left, requests, faults,
                   tries, spent, slips, touched>>

\* halt_mark and halt_clear read the file ...
Mark(a, c) ==
    /\ Does(a, "mark", c)
    /\ copy' = [copy EXCEPT ![a] = marked \cup {c}]
    /\ todo' = [todo EXCEPT ![a] = <<Step("write", c)>> \o Tail(@)]
    /\ UNCHANGED <<up, files, taken, pass, requests, faults, ghosts>>

Clear(a, c) ==
    /\ Does(a, "clear", c)
    /\ copy' = [copy EXCEPT ![a] = marked \ {c}]
    /\ todo' = [todo EXCEPT ![a] = <<Step("write", c)>> \o Tail(@)]
    /\ UNCHANGED <<up, files, taken, pass, requests, faults, ghosts>>

\* The others that have read it and not replaced it yet.
Writers(a) == {o \in Actors \ {a} : todo[o] # <<>> /\ Head(todo[o]).op = "write"}

\* Two scripts that update the file at once may lose any mark.
MayLose == kept' = [c \in Components |-> IF kept[c] = "sure" THEN "raced" ELSE kept[c]]

\* ... and replace it, by opening, filling and moving a temporary file ...
Write(a, c) ==
    /\ Does(a, "write", c) /\ a \notin taken
    /\ marked' = copy[a]
    /\ copy' = [copy EXCEPT ![a] = {}]
    /\ Done(a)
    /\ UNCHANGED <<up, history, taken, pass, requests, faults, ghosts>>

\* ... which has the same name for all: whoever has opened it too finds it moved.
\* The contents are those of the one who wrote last, or of nobody: a file that is
\* cut short or mixed reads as one without marks.
WriteShared(a, c) ==
    /\ Does(a, "write", c)
    /\ \E sharing \in SUBSET (Writers(a) \ taken) :
          /\ sharing # {}
          /\ marked' \in {{}, copy[a]} \cup {copy[o] : o \in sharing}
          /\ taken' = (taken \ {a}) \cup sharing
    /\ copy' = [copy EXCEPT ![a] = {}]
    /\ Done(a)
    /\ MayLose
    /\ UNCHANGED <<up, history, pass, requests, faults, tries, spent, slips, touched>>

\* A script that finds no temporary file to move ends there (set -e).  What it
\* wrote is in the file by now, or lost.
WriteMoved(a, c) ==
    /\ Does(a, "write", c) /\ a \in taken
    /\ marked' \in {{}, marked, copy[a]}
    /\ taken' = taken \ {a}
    /\ copy' = [copy EXCEPT ![a] = {}]
    /\ todo' = [todo EXCEPT ![a] = <<>>]
    /\ MayLose /\ Spends(a, c)
    /\ UNCHANGED <<up, history, pass, requests, faults, tries, slips, touched>>

\* start_loop and its like: nothing if a process is running ...
Start(a, c) ==
    /\ Does(a, "start", c)
    /\ \/ up[c] > 0 /\ Done(a) /\ Spends(a, c)
       \/ /\ up[c] = 0 /\ todo' = [todo EXCEPT ![a] = <<Step("spawn", c)>> \o Tail(@)]
          /\ UNCHANGED spent
    /\ UNCHANGED <<up, files, copy, taken, pass, requests, faults, tries, slips, kept,
                   touched>>

\* Mutant: the process is not started, and nobody notices.
SpawnNothing(a, c) ==
    /\ Does(a, "spawn", c)
    /\ Done(a)
    /\ UNCHANGED <<up, files, copy, taken, pass, requests, faults, ghosts>>

\* ... else one more.  If it dies at once the script ends there (set -e); only
\* the rotator's start does not mind.
Spawn(a, c) ==
    /\ Does(a, "spawn", c)
    /\ \/ /\ up[c] < MaxCopies
          /\ up' = [up EXCEPT ![c] = @ + 1]
          /\ touched' = [p \in Passes |-> IF p = a THEN touched[p] ELSE touched[p] \cup {c}]
          /\ Done(a)
       \/ /\ "dies" \in Events
          /\ todo' = [todo EXCEPT ![a] = IF c = Rotator THEN Tail(@) ELSE <<>>]
          /\ UNCHANGED <<up, touched>>
    /\ Spends(a, c)
    /\ UNCHANGED <<files, copy, taken, pass, requests, faults, tries, slips, kept>>

Runs(a) == \E c \in Components :
    \/ Stop(a, c) \/ Mark(a, c) \/ Clear(a, c)
    \/ Write(a, c) \/ WriteShared(a, c) \/ WriteMoved(a, c)
    \/ Start(a, c) \/ Spawn(a, c)
---------------------------------------------------------------------------
\* The operator asks for something.  What he starts he no longer wants stopped.
Request ==
    /\ todo[Op] = <<>> /\ requests < MaxRequests
    /\ \E r \in Requests :
          /\ todo' = [todo EXCEPT ![Op] = Script(r)]
          /\ kept' = [c \in Components |->
                        IF Step("start", c) \in Members(Script(r)) THEN "no" ELSE kept[c]]
    /\ requests' = requests + 1
    /\ UNCHANGED <<up, files, copy, taken, pass, faults, tries, spent, slips, touched>>

\* A process is gone: out of memory, SIGKILL, a closed terminal.
Crash(c) ==
    /\ "crash" \in Events /\ up[c] > 0
    /\ up' = [up EXCEPT ![c] = @ - 1]
    /\ Orphans(c)
    /\ UNCHANGED <<files, script, stage, seen, down, past, left, requests, faults, ghosts>>

\* RESTART_WINDOW_S goes by.  A pass is much shorter than that.
Hour ==
    /\ "hour" \in Events /\ \A p \in Passes : stage[p] = "idle"
    /\ history' = [c \in Components |-> 0]
    /\ tries' = [c \in Components |-> 0] /\ spent' = tries' /\ slips' = 0
    /\ UNCHANGED <<up, marked, script, pass, requests, faults, kept, touched>>

Supervise(p) == Begin(p) \/ Read(p) \/ Look(p) \/ Save(p) \/ Runs(p)

Next ==
    \/ \E p \in Passes : Supervise(p) \/ Hang(p)
    \/ Request \/ Runs(Op)
    \/ (\E c \in Components : Crash(c)) \/ Hour

Spec == Init /\ [][Next]_vars

\* Passes are begun again and again, and what is begun goes on.
FairSpec == Spec /\ WF_vars(Runs(Op)) /\ \A p \in Passes : WF_vars(Supervise(p))
---------------------------------------------------------------------------
StepsOf == [op : {"stop", "mark", "clear", "write", "start", "spawn"}, of : Components]

TypeOK ==
    /\ up \in [Components -> 0..MaxCopies]
    /\ marked \subseteq Components /\ history \in [Components -> 0..MaxRestarts]
    /\ todo \in [Actors -> Seq(StepsOf)] /\ copy \in [Actors -> SUBSET Components]
    /\ taken \subseteq Actors
    /\ stage \in [Passes -> {"idle", "listed", "read"}] /\ orphan \subseteq Passes
    /\ seen \in [Passes -> SUBSET Components] /\ down \in [Passes -> SUBSET Components]
    /\ past \in [Passes -> [Components -> 0..MaxRestarts]] /\ left \in [Passes -> Seq(Components)]
    /\ requests \in 0..MaxRequests /\ faults \in 0..MaxFaults
    /\ tries \in [Components -> Nat] /\ spent \in [Components -> Nat] /\ slips \in Nat
    /\ kept \in [Components -> {"no", "sure", "raced"}]
    /\ touched \in [Passes -> SUBSET Components]

\* What the operator stopped stays down until he starts it, over crashes,
\* restarts of the other processes and every update of the halt file, provided
\* no pass was past its reading of that file when the stop took effect and no two
\* scripts have shared its temporary file since.
OperatorWins == \A c \in Components : kept[c] = "sure" => up[c] = 0

\* What supervise_processes.py says: the operator always wins.
OperatorAlwaysWins == \A c \in Components : kept[c] # "no" => up[c] = 0

\* A crash loop ends: within an hour supervision tries a component MAX_RESTARTS
\* times, and once more for each pass that died of its own restart and for each
\* that began while one of a dead host was still under way.
CrashLoopEnds == \A c \in Components : tries[c] <= MaxRestarts + slips

\* A pass never kills a process that was running when it listed them: what it
\* stops was started by somebody else since.
HealthyIsLeftAlone ==
    [][\A p \in Passes, c \in Components :
         Stop(p, c) /\ up[c] > 0 => c \in touched[p]]_vars

\* What dies is started again, by a pass that was not heard of before or by the
\* next one if that hung, unless the operator stopped it, as many tries of the hour
\* as are allowed came to their end, or the process that watches it is dead as well.
Excused(p, c) == c \in marked \/ spent[c] >= MaxRestarts \/ up[HostOf[p]] = 0
WatchRevives ==
    \A p \in Passes : \A c \in Members(Watched(HostOf[p])) :
        up[c] = 0 ~> up[c] > 0 \/ Excused(p, c)
=======================================================================
