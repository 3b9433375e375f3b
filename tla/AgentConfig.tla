---------------------------- MODULE AgentConfig ----------------------------
(***************************************************************************)
(* .agent-config.json and everybody who rewrites it.                       *)
(*                                                                         *)
(* The trading loop reads the file anew on every tick.  The API server and *)
(* the MCP server merge an operator's update into what they read and       *)
(* replace the file (config_store.write_agent_config, through one temporary *)
(* name for all of them).  The autonomous cycle reads the file, grades     *)
(* every book for up to 25 minutes, and writes the whole configuration back *)
(* in place.  Nobody locks anything.                                       *)
(*                                                                         *)
(* Of the configuration two things are kept: whether mode is LIVE, and     *)
(* which books are live (enabled and not shadow_only).                     *)
(***************************************************************************)
EXTENDS Naturals, FiniteSets

CONSTANTS
    Books,          \* the books with a block in the configuration
    Torn,           \* what is not a JSON object: empty, cut short or mixed up
    NeverPromote,   \* _NEVER_PROMOTE
    Requests,       \* API requests that can be in flight together
    Events,         \* {"api", "mcp", "cycle", "die"}, or some of them
    MaxUpdates,     \* bound: operator updates
    MaxTurns,       \* bound: changes of the evidence on a book
    MaxDeaths       \* bound: processes that die, runs the deadline aborts

Mcp     == "mcp"
Cycle   == "cycle"
Writers == Requests \cup {Mcp, Cycle}
NoFile  == 0

Config  == [on : BOOLEAN, live : SUBSET Books]

ASSUME ConfigAssumption ==
    /\ Torn \notin Config
    /\ IsFiniteSet(Books) /\ Books # {} /\ IsFiniteSet(Requests)
    /\ NeverPromote \subseteq Books
    /\ Mcp \notin Requests /\ Cycle \notin Requests
    /\ {MaxUpdates, MaxTurns, MaxDeaths} \subseteq Nat
    /\ Events \subseteq {"api", "mcp", "cycle", "die"}

Inodes  == 1 .. Cardinality(Writers) + 1
Grades  == {"pending", "refuted", "validated"}

\* What an operator can ask for: the mode, a book's block, anything else.  The MCP
\* server has no key for the blocks.
Updates    == {[what |-> w, book |-> b] : w \in {"off", "live", "enable", "shadow", "other"}, b \in Books}
McpUpdates == {u \in Updates : u.what \in {"off", "live", "other"}}

VARIABLES
    path,       \* the inode .agent-config.json names
    tmp,        \* the inode .agent-config.json.tmp names, or NoFile
    data,       \* inode -> what it holds
    pc,         \* writer -> where it is
    snap,       \* writer -> the configuration it read
    new,        \* writer -> the configuration it writes
    handle,     \* writer -> the inode it has open
    ask,        \* writer -> the update it carries
    grade,      \* book -> what its forward ledger says now
    updates, turns, deaths,
    \* ghosts
    stopped,    \* the operator's last landed word on the mode is OFF
    behind,     \* the writers that were under way when an OFF or a demotion landed
    over,       \* one of those has written since, or the content of one update landed as another's
    earned,     \* books the last word of an operator or of their grade made live
    cut,        \* a write in place was cut short
    shared      \* two processes have had the temporary file open at once

file   == <<path, tmp, data>>
ghosts == <<stopped, behind, over, earned, cut, shared>>
counts == <<updates, turns, deaths>>
vars   == <<path, tmp, data, pc, snap, new, handle, ask, grade, updates, turns, deaths,
            stopped, behind, over, earned, cut, shared>>
---------------------------------------------------------------------------
\* Mutant: the defaults trade.
DefaultLive == [on |-> TRUE, live |-> Books]
\* DEFAULT_CONFIG: mode OFF, and every book it ships is live.
Default == [on |-> FALSE, live |-> Books]

\* read_agent_config: an unreadable file reads as the defaults.
Read == IF data[path] = Torn THEN Default ELSE data[path]

Trading(b) == Read.on /\ b \in Read.live

\* merge_agent_config
Merged(c, u) ==
    CASE u.what = "off"    -> [c EXCEPT !.on = FALSE]
      [] u.what = "live"   -> [c EXCEPT !.on = TRUE]
      [] u.what = "enable" -> [c EXCEPT !.live = @ \cup {u.book}]
      [] u.what = "shadow" -> [c EXCEPT !.live = @ \ {u.book}]
      [] OTHER             -> c

\* Mutant: a book that is not refuted is promoted.
DecidedEagerly(c) ==
    [c EXCEPT !.live = {b \in Books : \/ b \in c.live /\ grade[b] # "refuted"
                                      \/ grade[b] # "refuted" /\ b \notin NeverPromote}]
\* Mutant: a live book is left alone.
DecidedLenient(c) ==
    [c EXCEPT !.live = @ \cup {b \in Books \ NeverPromote : grade[b] = "validated"}]
\* decide and apply_action over all books: a live book that is refuted is demoted,
\* one that is validated and may have capital is promoted.
Decided(c) ==
    [c EXCEPT !.live = {b \in Books : \/ b \in c.live /\ grade[b] # "refuted"
                                      \/ grade[b] = "validated" /\ b \notin NeverPromote}]

Held     == {handle[w] : w \in Writers}
Goto(w, where) == pc' = [pc EXCEPT ![w] = where]
NoUpdate == [what |-> "other", book |-> CHOOSE b \in Books : TRUE]

\* The handler, or the run, of each writer in S is over: its locals are gone.
Finish(S) ==
    /\ pc' = [w \in Writers |-> IF w \in S THEN "idle" ELSE pc[w]]
    /\ snap' = [w \in Writers |-> IF w \in S THEN Default ELSE snap[w]]
    /\ new' = [w \in Writers |-> IF w \in S THEN Default ELSE new[w]]
    /\ handle' = [w \in Writers |-> IF w \in S THEN NoFile ELSE handle[w]]
    /\ ask' = [w \in Writers |-> IF w \in S THEN NoUpdate ELSE ask[w]]

Writing(w) == pc[w] \in {"merged", "fill", "replace"}
---------------------------------------------------------------------------
Init ==
    /\ path = 1 /\ tmp = NoFile
    /\ \E on \in BOOLEAN, live \in SUBSET Books :
          /\ data = [i \in Inodes |-> IF i = 1 THEN [on |-> on, live |-> live] ELSE Torn]
          /\ earned = live
    /\ pc = [w \in Writers |-> "idle"]
    /\ snap = [w \in Writers |-> Default] /\ new = [w \in Writers |-> Default]
    /\ handle = [w \in Writers |-> NoFile]
    /\ ask = [w \in Writers |-> NoUpdate]
    /\ grade = [b \in Books |-> "pending"]
    /\ updates = 0 /\ turns = 0 /\ deaths = 0
    /\ stopped = FALSE /\ behind = {} /\ over = FALSE
    /\ cut = FALSE /\ shared = FALSE
---------------------------------------------------------------------------
(* An operator's update.                                                   *)

\* The API server runs one handler at a time between two awaits.
ServerFree == \A r \in Requests : ~Writing(r)

\* Ghost: an update merged into an unreadable file starts from the shipped books.
Reset == IF data[path] = Torn THEN Books ELSE earned

\* update_config reads the configuration, then awaits the body of the request.
ApiRead(r) ==
    /\ "api" \in Events
    /\ pc[r] = "idle" /\ ServerFree /\ updates < MaxUpdates
    /\ updates' = updates + 1
    /\ snap' = [snap EXCEPT ![r] = Read]
    /\ earned' = Reset
    /\ Goto(r, "await")
    /\ UNCHANGED <<file, new, handle, ask, grade, turns, deaths,
                   stopped, behind, over, cut, shared>>

\* The body arrives: it is merged into what was read before the wait ...
ApiBody(r) ==
    /\ pc[r] = "await" /\ ServerFree
    /\ \E u \in Updates :
          /\ ask' = [ask EXCEPT ![r] = u]
          /\ new' = [new EXCEPT ![r] = Merged(snap[r], u)]
    /\ Goto(r, "merged")
    /\ UNCHANGED <<file, snap, handle, grade, counts, ghosts>>

\* ... or it is not a JSON object (400).
ApiRefuse(r) ==
    /\ pc[r] = "await" /\ ServerFree
    /\ Finish({r})
    /\ behind' = behind \ {r}
    /\ UNCHANGED <<file, grade, counts, stopped, over, earned, cut, shared>>

\* handle_config of the MCP server reads and merges without a pause.
McpUpdate ==
    /\ "mcp" \in Events
    /\ pc[Mcp] = "idle" /\ updates < MaxUpdates
    /\ updates' = updates + 1
    /\ \E u \in McpUpdates :
          /\ ask' = [ask EXCEPT ![Mcp] = u]
          /\ new' = [new EXCEPT ![Mcp] = Merged(Read, u)]
    /\ snap' = [snap EXCEPT ![Mcp] = Read]
    /\ earned' = Reset
    /\ Goto(Mcp, "merged")
    /\ UNCHANGED <<file, handle, grade, turns, deaths, stopped, behind, over, cut, shared>>

(* write_agent_config                                                      *)

\* open(tmp, "w") truncates the file another writer may have under its hands.
OpenTmp(w) ==
    LET i == IF tmp # NoFile THEN tmp
             ELSE CHOOSE j \in Inodes : j # path /\ j \notin Held
    IN  /\ pc[w] = "merged"
        /\ tmp' = i
        /\ data' = [data EXCEPT ![i] = Torn]
        /\ handle' = [handle EXCEPT ![w] = i]
        /\ shared' = (shared \/ i \in Held)
        /\ Goto(w, "fill")
        /\ UNCHANGED <<path, snap, new, ask, grade, counts, stopped, behind, over, earned, cut>>

\* dump, flush and fsync.  Two writers of one inode each start at its beginning:
\* what the shorter one leaves of the longer one makes it unreadable.
Contents(w) ==
    {new[w]} \cup (IF \E v \in Writers \ {w} : handle[v] = handle[w] THEN {Torn} ELSE {})

Filled(w) ==
    /\ \E x \in Contents(w) : data' = [data EXCEPT ![handle[w]] = x]
    /\ over' = (over \/ w \in behind \/ (w # Cycle /\ handle[w] = path))

Fill(w) ==
    /\ w # Cycle /\ pc[w] = "fill"
    /\ Filled(w)
    /\ Goto(w, "replace")
    /\ UNCHANGED <<path, tmp, snap, new, handle, ask, grade, counts,
                   stopped, behind, earned, cut, shared>>

\* Ghosts: an operator's word has landed.
UnderWay(w) == {v \in Writers \ {w} : pc[v] # "idle"}
Landed(w, u) ==
    /\ stopped' = (u.what = "off" \/ (stopped /\ u.what # "live"))
    /\ earned' = IF u.what = "enable" THEN earned \cup {u.book}
                 ELSE IF u.what = "shadow" THEN earned \ {u.book} ELSE earned
    /\ behind' = (behind \ {w}) \cup (IF u.what \in {"off", "shadow"} THEN UnderWay(w) ELSE {})
    /\ over' = (over \/ w \in behind \/ data[tmp] # new[w])

\* Mutant: the file is moved before it is written.
ReplaceUnwritten(w) ==
    /\ pc[w] = "fill" /\ w # Cycle /\ tmp # NoFile
    /\ path' = tmp /\ tmp' = NoFile
    /\ Landed(w, ask[w])
    /\ cut' = FALSE
    /\ Finish({w})
    /\ UNCHANGED <<data, grade, counts, shared>>

\* os.replace
Replace(w) ==
    /\ pc[w] = "replace" /\ tmp # NoFile
    /\ path' = tmp /\ tmp' = NoFile
    /\ Landed(w, ask[w])
    /\ cut' = FALSE
    /\ Finish({w})
    /\ UNCHANGED <<data, grade, counts, shared>>

\* FileNotFoundError: another writer has taken the temporary file away.
ReplaceFails(w) ==
    /\ pc[w] = "replace" /\ tmp = NoFile
    /\ Finish({w})
    /\ behind' = behind \ {w}
    /\ UNCHANGED <<file, grade, counts, stopped, over, earned, cut, shared>>
---------------------------------------------------------------------------
(* The autonomous cycle.                                                   *)

\* _read_cfg does not fall back on the defaults: an unreadable file raises, and the
\* run is over before it began.
CycleRaises ==
    /\ "cycle" \in Events
    /\ pc[Cycle] = "idle" /\ data[path] = Torn
    /\ UNCHANGED vars

CycleRead ==
    /\ "cycle" \in Events
    /\ pc[Cycle] = "idle" /\ data[path] # Torn
    /\ snap' = [snap EXCEPT ![Cycle] = data[path]]
    /\ Goto(Cycle, "grading")
    /\ UNCHANGED <<file, new, handle, ask, grade, counts, ghosts>>

\* Every book is graded; the decisions are applied to what was read at the start,
\* and it is written back when one of them changed something.
CycleGrade ==
    /\ pc[Cycle] = "grading"
    /\ earned' = earned \cup {b \in Books \ NeverPromote : grade[b] = "validated"}
    /\ IF Decided(snap[Cycle]) = snap[Cycle]
         THEN Finish({Cycle}) /\ behind' = behind \ {Cycle}
         ELSE /\ new' = [new EXCEPT ![Cycle] = Decided(snap[Cycle])]
              /\ Goto(Cycle, "open")
              /\ UNCHANGED <<snap, handle, ask, behind>>
    /\ UNCHANGED <<file, grade, counts, stopped, over, cut, shared>>

\* _write_cfg: write_text truncates the file itself, then writes it.
CycleOpen ==
    /\ pc[Cycle] = "open"
    /\ data' = [data EXCEPT ![path] = Torn]
    /\ handle' = [handle EXCEPT ![Cycle] = path]
    /\ Goto(Cycle, "fill")
    /\ UNCHANGED <<path, tmp, snap, new, ask, grade, counts, ghosts>>

CycleFill ==
    LET demoted == snap[Cycle].live \ new[Cycle].live
        lands   == handle[Cycle] = path
    IN  /\ pc[Cycle] = "fill"
        /\ Filled(Cycle)
        /\ earned' = IF lands THEN earned \ demoted ELSE earned
        /\ behind' = (behind \ {Cycle})
                       \cup (IF lands /\ demoted # {} THEN UnderWay(Cycle) ELSE {})
        /\ cut' = (cut /\ ~lands)
        /\ Finish({Cycle})
        /\ UNCHANGED <<path, tmp, grade, counts, stopped, shared>>
---------------------------------------------------------------------------
(* Everything else.                                                        *)

\* The forward ledger of a book turns.
Turn(b) ==
    /\ turns < MaxTurns
    /\ turns' = turns + 1
    /\ \E g \in Grades \ {grade[b]} : grade' = [grade EXCEPT ![b] = g]
    /\ UNCHANGED <<file, pc, snap, new, handle, ask, updates, deaths, ghosts>>

\* A process dies, or the deadline's SIGALRM aborts the run of the cycle, between
\* any two statements.
Die(S) ==
    /\ "die" \in Events /\ deaths < MaxDeaths
    /\ \E w \in S : pc[w] # "idle"
    /\ deaths' = deaths + 1
    /\ Finish(S)
    /\ cut' = (cut \/ (Cycle \in S /\ pc[Cycle] = "fill" /\ handle[Cycle] = path))
    /\ behind' = behind \ S
    /\ UNCHANGED <<file, grade, updates, turns, stopped, over, earned, shared>>
---------------------------------------------------------------------------
CycleStep == CycleRead \/ CycleGrade \/ CycleOpen \/ CycleFill

Next ==
    \/ CycleStep \/ CycleRaises \/ McpUpdate
    \/ \E r \in Requests : ApiRead(r) \/ ApiBody(r) \/ ApiRefuse(r)
    \/ \E w \in Writers : OpenTmp(w) \/ Fill(w) \/ Replace(w) \/ ReplaceFails(w)
    \/ \E b \in Books : Turn(b)
    \/ \E S \in {Requests, {Mcp}, {Cycle}} : Die(S)

Spec == Init /\ [][Next]_vars

\* The scheduler keeps starting the cycle, and a run it does not abort ends.
FairSpec == Spec /\ WF_vars(CycleStep)
---------------------------------------------------------------------------
(* Properties.                                                             *)

\* The variables keep their types, and no two names are left on one inode.
TypeOK ==
    /\ path \in Inodes /\ tmp \in Inodes \cup {NoFile} /\ path # tmp
    /\ data \in [Inodes -> Config \cup {Torn}]
    /\ pc \in [Writers -> {"idle", "await", "merged", "fill", "replace", "grading", "open"}]
    /\ snap \in [Writers -> Config] /\ new \in [Writers -> Config]
    /\ handle \in [Writers -> Inodes \cup {NoFile}]
    /\ ask \in [Writers -> Updates]
    /\ grade \in [Books -> Grades]
    /\ updates \in 0 .. MaxUpdates /\ turns \in 0 .. MaxTurns /\ deaths \in 0 .. MaxDeaths
    /\ behind \subseteq Writers /\ earned \subseteq Books
    /\ {stopped, over, cut, shared} \subseteq BOOLEAN

\* An operator's OFF stays in force: what the loop reads is not LIVE before an
\* operator says so again, unless a writer that had read the file before the OFF
\* landed wrote after it.  Unreadable files and aborted writes do not undo it.
OffHolds == stopped /\ ~over => ~Read.on

\* The loop trades no book that neither an operator nor a validated grade made live
\* since it was last demoted, under the same condition.
LiveIsEarned == \A b \in Books : Trading(b) /\ ~over => b \in earned

\* "atomic replace": a reader finds an unreadable file only while the cycle writes in
\* place, after it was cut short there, or once two processes shared the temporary file.
TornOnlyInPlace ==
    data[path] = Torn => cut \/ shared \/ (pc[Cycle] = "fill" /\ handle[Cycle] = path)

\* "demotes any of them the moment its forward ledger turns negative": a book whose
\* grade stays refuted is at last no longer traded, whoever else writes the file.
BleedStops ==
    \A b \in Books : <>[](grade[b] = "refuted") => <>[]~Trading(b)
===========================================================================
