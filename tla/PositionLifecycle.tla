------------------------ MODULE PositionLifecycle ------------------------
(***************************************************************************)
(* One tick of scripts/trading_loop.py and everything that can happen      *)
(* between two of its network calls.                                       *)
(*                                                                         *)
(* The exchange is the truth.  The loop owns a registry of exit trackers   *)
(* (dsl_exit._active_positions), mirrored in .dsl-state.json, and the      *)
(* outcome store (memory._closes).  A tick reads the account once, then    *)
(* works from that snapshot while the exchange moves on: stops fill, the   *)
(* operator trades by hand, the MCP server process trades through the same *)
(* executor with a registry of its own, reads lose a clearinghouse, orders *)
(* are rejected or their answer is lost, and the process dies.             *)
(*                                                                         *)
(* `Events` says which of these can happen, so that a run can state which  *)
(* guarantee survives which fault.                                         *)
(***************************************************************************)
EXTENDS Naturals, FiniteSets

CONSTANTS
    Coins,          \* tradeable coins
    Sides,          \* {"long", "short"}, or one of them
    Dexes,          \* clearinghouses; every one of them is funded
    Main,           \* the native perp clearinghouse, "" in the code
    DexOf,          \* the clearinghouse a coin trades on (its "xyz:" prefix)
    Events,         \* which environment events and faults can happen
    Slots,          \* config max_concurrent
    MaxOpens,       \* bound: positions ever opened on one coin
    MaxCloses,      \* bound: reductions of a coin before partial fills stop
    MaxCrashes      \* bound: restarts of the loop process

AllEvents == {"heartbeat_gap", "close_gap", "main_gap", "kill", "stop_fill",
              "manual_open", "mcp", "reject", "lost_answer", "partial_fill",
              "unpriced", "crash"}

Flat == "flat"
NoCoin == "no_coin"

ASSUME LifecycleAssumption ==
    /\ Main \in Dexes
    /\ DexOf \in [Coins -> Dexes]
    /\ Events \subseteq AllEvents
    /\ Flat \notin Sides /\ NoCoin \notin Coins
    /\ Slots \in Nat /\ MaxOpens \in Nat /\ MaxCloses \in Nat /\ MaxCrashes \in Nat

Keys     == Coins \X Sides              \* registry keys "<coin>_<side>"
Holding  == Sides \cup {Flat}
Policy   == {"none", "own", "config"}   \* a tracker's exit policy; none = no tracker
Registry == [Coins -> [Sides -> Policy]]
Empty    == [c \in Coins |-> [s \in Sides |-> "none"]]
AllFlat  == [c \in Coins |-> Flat]

PCs == {"heartbeat", "kill", "rehydrate", "external", "exits", "scan", "books",
        "enter", "register", "review", "verdict", "exits2", "close", "order", "settle", "record"}

VARIABLES
    \* the exchange
    pos,        \* coin -> the side held, or Flat
    fills,      \* coin -> the bot's entry fills in the position held now
    opens,      \* coin -> positions ever opened (ghost, bounded)
    closes,     \* coin -> fills that reduced a position (ghost)
    \* the loop process
    pc,         \* where the tick is
    snap,       \* the heartbeat's `positions`
    queried,    \* the heartbeat's queried_dexes; {} when it reported equity 0
    todo,       \* coins still to do in the for-loop the tick is in
    ret,        \* where the tick goes on once `todo` is done
    cur, side,  \* the coin in hand, and the side the last account read showed
    stale,      \* trackers rehydrate dropped, still to be recorded
    mem,        \* dsl_exit._active_positions
    loaded,     \* dsl_exit._loaded_from_disk
    heldMem,    \* memory.open_position_coins()
    crashes,
    \* on disk
    disk,       \* .dsl-state.json
    rows,       \* coin -> rows in the outcome store
    \* the MCP server process
    mcp,        \* its own _active_positions, never loaded from disk
    \* ghost
    due         \* coin -> a position the loop opened and registered is still open

exchange == <<pos, fills, opens, closes>>
work     == <<todo, ret, cur, side, stale>>
view     == <<snap, queried, heldMem>>
trackers == <<mem, loaded, disk>>
vars     == <<pos, fills, opens, closes, pc, snap, queried, todo, ret, cur, side,
              stale, mem, loaded, heldMem, crashes, disk, rows, mcp, due>>
---------------------------------------------------------------------------
Tracked(reg)  == {c \in Coins : \E s \in Sides : reg[c][s] # "none"}
SnapCoins     == {c \in Coins : snap[c] # Flat}

\* A registry without any tracker of coin c, and with one key changed.
Without(reg, c)    == [reg EXCEPT ![c] = [s \in Sides |-> "none"]]
With(reg, c, s, p) == [reg EXCEPT ![c] = [@ EXCEPT ![s] = p]]

\* fetch_account_state(include_hip3=True): one POST per clearinghouse.  A POST
\* that fails returns None: that clearinghouse's equity and positions are
\* missing from the aggregate.  `gap` names the event that allows HIP-3
\* failures; the main POST is a separate one.
Answers(gap) ==
    {A \in SUBSET Dexes : /\ Main \in A \/ "main_gap" \in Events
                          /\ Dexes \ {Main} \subseteq A \/ gap \in Events}

View(A) == [c \in Coins |-> IF DexOf[c] \in A THEN pos[c] ELSE Flat]

\* queried_dexes starts as {""} before any answer is looked at.
Queried(A) == A \cup {Main}
---------------------------------------------------------------------------
Init ==
    /\ pos = AllFlat
    /\ fills = [c \in Coins |-> 0]
    /\ opens = [c \in Coins |-> 0]
    /\ closes = [c \in Coins |-> 0]
    /\ pc = "heartbeat"
    /\ snap = AllFlat /\ queried = {}
    /\ todo = {} /\ ret = "heartbeat" /\ cur = NoCoin /\ side = Flat /\ stale = {}
    /\ mem = Empty /\ loaded = FALSE /\ disk = Empty
    /\ heldMem = {} /\ crashes = 0
    /\ rows = [c \in Coins |-> 0]
    /\ mcp = Empty
    /\ due = [c \in Coins |-> FALSE]

(* What a fill does to the exchange. *)

Closes(c) ==
    /\ pos' = [pos EXCEPT ![c] = Flat]
    /\ fills' = [fills EXCEPT ![c] = 0]
    /\ closes' = [closes EXCEPT ![c] = @ + 1]
    /\ due' = [due EXCEPT ![c] = FALSE]
    /\ UNCHANGED opens

Opens(c, s, n) ==
    /\ pos' = [pos EXCEPT ![c] = s]
    /\ fills' = [fills EXCEPT ![c] = n]
    /\ opens' = [opens EXCEPT ![c] = @ + 1]
    /\ UNCHANGED <<closes, due>>
---------------------------------------------------------------------------
(* The tick.                                                               *)

\* _sync_account_state.  The read is refused (equity 0, no positions, nothing
\* queried) when no funded clearinghouse answered, when one backing a tracker is
\* missing, or when the idle-capital guard remembers a missing one (`idle`; how
\* it remembers is AccountSync's subject).
Heartbeat ==
    /\ pc = "heartbeat"
    /\ \E A \in Answers("heartbeat_gap"), idle \in BOOLEAN :
          LET held     == {DexOf[c] : c \in Tracked(mem)}
              accepted == A # {} /\ held \subseteq Queried(A) /\ ~idle
          IN  /\ idle => ~(Dexes \subseteq Queried(A))
              /\ snap' = IF accepted THEN View(A) ELSE AllFlat
              /\ queried' = IF accepted THEN Queried(A) ELSE {}
              /\ heldMem' = IF accepted THEN {c \in Coins : View(A)[c] # Flat}
                                        ELSE heldMem
    /\ pc' = "kill"
    /\ UNCHANGED <<exchange, work, trackers, crashes, rows, mcp, due>>

\* The hard daily-loss kill switch: flatten everything in the snapshot.
KillSwitch ==
    /\ pc = "kill"
    /\ \/ pc' = "rehydrate" /\ UNCHANGED <<todo, ret>>
       \/ /\ "kill" \in Events
          /\ queried # {} /\ SnapCoins # {}
          /\ todo' = SnapCoins /\ ret' = "rehydrate" /\ pc' = "close"
    /\ UNCHANGED <<exchange, view, cur, side, stale, trackers, crashes, rows, mcp, due>>

\* load_state: the entries on disk override those in memory, once per process.
LoadState ==
    IF loaded THEN mem
    ELSE [c \in Coins |-> [s \in Sides |->
            IF disk[c][s] # "none" THEN disk[c][s] ELSE mem[c][s]]]

\* Mutants: rehydrate_from_exchange before it knew queried_dexes, one that does
\* not synthesize, and one that does not drop.
ReconciledBlind(reg) ==
    [c \in Coins |-> [s \in Sides |->
        CASE snap[c] = s /\ reg[c][s] = "none" -> "config"
          [] snap[c] # s                       -> "none"
          [] OTHER                             -> reg[c][s]]]
ReconciledDropsOnly(reg) ==
    [c \in Coins |-> [s \in Sides |->
        IF snap[c] # s /\ DexOf[c] \in queried THEN "none" ELSE reg[c][s]]]
ReconciledAddsOnly(reg) ==
    [c \in Coins |-> [s \in Sides |->
        IF snap[c] = s /\ reg[c][s] = "none" THEN "config" ELSE reg[c][s]]]

\* rehydrate_from_exchange(positions, queried_dexes): synthesize what is missing,
\* drop what the snapshot does not show on a clearinghouse it queried.
Reconciled(reg) ==
    [c \in Coins |-> [s \in Sides |->
        CASE snap[c] = s /\ reg[c][s] = "none"              -> "config"
          [] snap[c] # s /\ DexOf[c] \in queried            -> "none"
          [] OTHER                                          -> reg[c][s]]]

Rehydrate ==
    /\ pc = "rehydrate"
    /\ mem' = Reconciled(LoadState)
    /\ loaded' = TRUE
    /\ \/ disk' = mem'                     \* something changed, or a size drifted
       \/ mem' = LoadState /\ disk' = disk
    /\ stale' = {k \in Keys : LoadState[k[1]][k[2]] # "none" /\ mem'[k[1]][k[2]] = "none"}
    /\ pc' = "external"
    /\ UNCHANGED <<exchange, view, todo, ret, cur, side, crashes, rows, mcp, due>>

\* record_external_position_close for each dropped tracker.
RecordExternal ==
    /\ pc = "external"
    /\ \/ stale = {} /\ pc' = "exits" /\ UNCHANGED <<stale, rows>>
       \/ \E k \in stale :
             /\ stale' = stale \ {k}
             /\ rows' = [rows EXCEPT ![k[1]] = @ + 1]
             /\ UNCHANGED pc
    /\ UNCHANGED <<exchange, view, todo, ret, cur, side, trackers, crashes, mcp, due>>

\* monitor_exits: any tracked coin may be told to exit.  After the first pass
\* the tick scans, or ends when the mode is OFF; after the second it sleeps.
MonitorExits ==
    /\ pc \in {"exits", "exits2"}
    /\ \E S \in SUBSET Tracked(mem) :
          /\ todo' = S
          /\ ret' \in (IF pc = "exits" THEN {"scan", "heartbeat"} ELSE {"heartbeat"})
    /\ pc' = "close"
    /\ UNCHANGED <<exchange, view, cur, side, stale, trackers, crashes, rows, mcp, due>>

\* The slots-full gate: with every slot taken the scan returns nothing, which
\* also leaves the AI close-checks without a coin.  social_trending, which runs
\* with the recorders, trades all the same.
SlotsFull == Slots > 0 /\ Cardinality(SnapCoins) >= Slots

Scan ==
    /\ pc = "scan"
    /\ \E S \in SUBSET Coins : todo' = S
    /\ pc' = "books"
    /\ UNCHANGED <<exchange, view, ret, cur, side, stale, trackers, crashes, rows, mcp, due>>

\* Mutant: the executor trusts the heartbeat and the registry, without its own read.
MayEnterUnread(c, A) == c \notin SnapCoins \cup Tracked(mem)

\* A book offers a candidate it does not see as held (held_coins_with_dsl), and
\* maybe_execute re-reads the account: the coin's own clearinghouse must answer,
\* and neither that read nor the registry may show the coin (the re-entry
\* backstop and opposite_direction_guard).
MayEnter(c, A) ==
    /\ c \notin SnapCoins \cup Tracked(mem)
    /\ DexOf[c] \in A
    /\ View(A)[c] = Flat

Books ==
    /\ pc = "books"
    /\ \/ /\ todo = {} /\ pc' = IF SlotsFull THEN "exits2" ELSE "review"
          /\ UNCHANGED <<todo, cur, side>>
       \/ \E c \in todo, A \in Answers("close_gap") :
             /\ todo' = todo \ {c}
             /\ \/ /\ MayEnter(c, A) /\ opens[c] < MaxOpens
                   /\ \E s \in Sides : side' = s
                   /\ cur' = c /\ pc' = "enter"
                \/ UNCHANGED <<cur, side, pc>>      \* another gate refused it
    /\ UNCHANGED <<exchange, view, ret, stale, trackers, crashes, rows, mcp, due>>

\* place_hl_order for an entry.  The account may have moved since the read: the
\* order adds to a position on the same side, or nets against the other side.
FillsEntry(c, s) ==
    \/ pos[c] = Flat /\ Opens(c, s, 1)
    \/ /\ pos[c] = s
       /\ fills' = [fills EXCEPT ![c] = @ + 1]
       /\ UNCHANGED <<pos, opens, closes, due>>
    \/ /\ pos[c] \notin {Flat, s}
       /\ pos' \in {[pos EXCEPT ![c] = p] : p \in Holding}
       /\ fills' = [fills EXCEPT ![c] = IF pos'[c] = s THEN 1 ELSE 0]
       /\ closes' = [closes EXCEPT ![c] = @ + 1]
       /\ UNCHANGED <<opens, due>>

\* The entry was a book's, or the close-check's.
AfterEntry == IF ret = "verdict" THEN "exits2" ELSE "books"

Enter ==
    /\ pc = "enter"
    /\ \/ FillsEntry(cur, side) /\ pc' = "register"
       \/ "reject" \in Events /\ pc' = AfterEntry /\ UNCHANGED <<exchange, due>>
       \/ "lost_answer" \in Events /\ FillsEntry(cur, side) /\ pc' = AfterEntry
    /\ UNCHANGED <<view, work, trackers, crashes, rows, mcp>>

\* Mutant: the registration is not saved.
RegisterUnsaved ==
    /\ pc = "register"
    /\ mem' = With(mem, cur, side, "own")
    /\ due' = [due EXCEPT ![cur] = pos[cur] = side]
    /\ pc' = AfterEntry
    /\ UNCHANGED <<exchange, view, work, loaded, disk, crashes, rows, mcp>>

\* register_position, then memory.record_trade and the backup stop.
Register ==
    /\ pc = "register"
    /\ mem' = With(mem, cur, side, "own")
    /\ disk' = mem'
    /\ due' = [due EXCEPT ![cur] = pos[cur] = side]
    /\ pc' = AfterEntry
    /\ UNCHANGED <<exchange, view, work, loaded, crashes, rows, mcp>>

\* The AI close-check of held coins: route_verdict may close any of them ...
Review ==
    /\ pc = "review"
    /\ \E S \in SUBSET heldMem : todo' = S
    /\ ret' = "verdict" /\ pc' = "close"
    /\ UNCHANGED <<exchange, view, cur, side, stale, trackers, crashes, rows, mcp, due>>

\* ... or hand one that turns out not to be held any more to maybe_execute.  Bound:
\* one of them in a review, after its closes.
Verdict ==
    /\ pc = "verdict"
    /\ \/ pc' = "exits2" /\ UNCHANGED <<cur, side>>
       \/ \E c \in heldMem \ Tracked(mem), A \in Answers("close_gap"), s \in Sides :
             /\ DexOf[c] \in A /\ View(A)[c] = Flat /\ opens[c] < MaxOpens
             /\ cur' = c /\ side' = s /\ pc' = "enter"
    /\ UNCHANGED <<exchange, view, todo, ret, stale, trackers, crashes, rows, mcp, due>>
---------------------------------------------------------------------------
(* close_position_market(coin), for each coin in todo.                     *)

\* The account read.  A coin it does not show is "already flat": both trackers
\* go, nothing is recorded.
CloseRead ==
    /\ pc = "close"
    /\ \/ todo = {} /\ pc' = ret /\ UNCHANGED <<todo, cur, side, mem, disk>>
       \/ \E c \in todo, A \in Answers("close_gap") :
             IF View(A)[c] = Flat
             THEN /\ mem' = Without(mem, c)
                  /\ disk' = IF mem' # mem THEN mem' ELSE disk
                  /\ todo' = todo \ {c}
                  /\ UNCHANGED <<pc, cur, side>>
             ELSE /\ cur' = c /\ side' = View(A)[c] /\ pc' = "order"
                  /\ UNCHANGED <<todo, mem, disk>>
    /\ UNCHANGED <<exchange, view, ret, stale, loaded, crashes, rows, mcp, due>>

\* The reduce-only IOC order.  It only ever reduces the side it was sent for; an
\* IOC that fills in part is answered "filled" all the same.
CloseOrder ==
    /\ pc = "order"
    /\ \/ pos[cur] = side /\ Closes(cur) /\ pc' = "settle" /\ UNCHANGED todo
       \/ /\ "partial_fill" \in Events
          /\ pos[cur] = side /\ closes[cur] < MaxCloses
          /\ closes' = [closes EXCEPT ![cur] = @ + 1]
          /\ pc' = "settle"
          /\ UNCHANGED <<pos, fills, opens, due, todo>>
       \/ /\ pos[cur] # side \/ "reject" \in Events
          /\ pc' = "close" /\ todo' = todo \ {cur}
          /\ UNCHANGED <<exchange, due>>
       \/ /\ "lost_answer" \in Events
          /\ pos[cur] = side /\ Closes(cur)
          /\ pc' = "close" /\ todo' = todo \ {cur}
    /\ UNCHANGED <<view, ret, cur, side, stale, trackers, crashes, rows, mcp>>

\* The order filled: deregister (saved at once), then record the outcome.
CloseSettle ==
    /\ pc = "settle"
    /\ mem' = With(mem, cur, side, "none")
    /\ disk' = IF mem' # mem THEN mem' ELSE disk
    /\ pc' = "record"
    /\ UNCHANGED <<exchange, view, work, loaded, crashes, rows, mcp, due>>

\* Mutant: a close that did not flatten the position is not recorded.
CloseRecordFlat ==
    /\ pc = "record"
    /\ rows' = IF pos[cur] = Flat THEN [rows EXCEPT ![cur] = @ + 1] ELSE rows
    /\ todo' = todo \ {cur}
    /\ pc' = "close"
    /\ UNCHANGED <<exchange, view, ret, cur, side, stale, trackers, crashes, mcp, due>>

\* An answer without an average price leaves no row.
CloseRecord ==
    /\ pc = "record"
    /\ \/ rows' = [rows EXCEPT ![cur] = @ + 1]
       \/ "unpriced" \in Events /\ UNCHANGED rows
    /\ todo' = todo \ {cur}
    /\ pc' = "close"
    /\ UNCHANGED <<exchange, view, ret, cur, side, stale, trackers, crashes, mcp, due>>
---------------------------------------------------------------------------
(* Everybody else.                                                         *)

\* A resting stop fills, the position is liquidated, or the operator closes it.
StopFill ==
    /\ "stop_fill" \in Events
    /\ \E c \in Coins : pos[c] # Flat /\ Closes(c)
    /\ UNCHANGED <<pc, view, work, trackers, crashes, rows, mcp>>

ManualOpen ==
    /\ "manual_open" \in Events
    /\ \E c \in Coins, s \in Sides :
          pos[c] = Flat /\ opens[c] < MaxOpens /\ Opens(c, s, 0)
    /\ UNCHANGED <<pc, view, work, trackers, crashes, rows, mcp>>

\* The MCP server's execute tool: maybe_execute in another process, whose
\* register_position writes that process's registry over the shared file.  Its order may
\* find another position than its read did.
McpExecute ==
    /\ "mcp" \in Events
    /\ \E c \in Coins \ Tracked(mcp), s \in Sides :
          /\ IF pos[c] = Flat THEN opens[c] < MaxOpens ELSE closes[c] + fills[c] < MaxCloses
          /\ FillsEntry(c, s)
          /\ \/ mcp' = With(mcp, c, s, "own") /\ disk' = mcp'
             \/ "lost_answer" \in Events /\ UNCHANGED <<mcp, disk>>
    /\ UNCHANGED <<pc, view, work, mem, loaded, crashes, rows>>

\* Its close tool is the same close_position_market: deregister writes only if that
\* process had the tracker, and memory.record_close never persists there (memory is not
\* loaded).
McpClose ==
    /\ "mcp" \in Events
    /\ \E c \in Coins :
          \/ /\ \E A \in Answers("close_gap") : View(A)[c] = Flat
             /\ mcp' = Without(mcp, c) /\ UNCHANGED <<exchange, due>>
          \/ /\ pos[c] # Flat /\ Closes(c)
             /\ \/ mcp' = With(mcp, c, pos[c], "none")
                \/ "lost_answer" \in Events /\ UNCHANGED mcp
          \/ /\ "partial_fill" \in Events
             /\ pos[c] # Flat /\ closes[c] < MaxCloses
             /\ closes' = [closes EXCEPT ![c] = @ + 1]
             /\ mcp' = With(mcp, c, pos[c], "none")
             /\ UNCHANGED <<pos, fills, opens, due>>
    /\ disk' = IF mcp' # mcp THEN mcp' ELSE disk
    /\ UNCHANGED <<pc, view, work, mem, loaded, crashes, rows>>

\* The process dies or the watchdog re-execs it: what was only in memory is gone.
Crash ==
    /\ "crash" \in Events /\ crashes < MaxCrashes
    /\ crashes' = crashes + 1
    /\ pc' = "heartbeat"
    /\ snap' = AllFlat /\ queried' = {}
    /\ todo' = {} /\ ret' = "heartbeat" /\ cur' = NoCoin /\ side' = Flat /\ stale' = {}
    /\ mem' = Empty /\ loaded' = FALSE
    /\ UNCHANGED <<exchange, heldMem, disk, rows, mcp, due>>
---------------------------------------------------------------------------
LoopStep ==
    \/ Heartbeat \/ KillSwitch \/ Rehydrate \/ RecordExternal \/ MonitorExits
    \/ Scan \/ Books \/ Enter \/ Register \/ Review \/ Verdict
    \/ CloseRead \/ CloseOrder \/ CloseSettle \/ CloseRecord

Environment == StopFill \/ ManualOpen \/ McpExecute \/ McpClose \/ Crash

Next == LoopStep \/ Environment

Spec == Init /\ [][Next]_vars

\* The loop keeps running, and the account read keeps succeeding now and then.
CleanHeartbeat == Heartbeat /\ queried' = Dexes /\ snap' = pos

FairSpec == Spec /\ WF_vars(LoopStep) /\ SF_vars(CleanHeartbeat)
---------------------------------------------------------------------------
TypeOK ==
    /\ pos \in [Coins -> Holding]
    /\ fills \in [Coins -> Nat] /\ opens \in [Coins -> Nat] /\ closes \in [Coins -> Nat]
    /\ pc \in PCs /\ ret \in PCs
    /\ snap \in [Coins -> Holding] /\ queried \subseteq Dexes
    /\ todo \subseteq Coins /\ cur \in Coins \cup {NoCoin} /\ side \in Holding
    /\ stale \subseteq Keys
    /\ mem \in Registry /\ disk \in Registry /\ mcp \in Registry
    /\ loaded \in BOOLEAN /\ heldMem \subseteq Coins /\ crashes \in Nat
    /\ rows \in [Coins -> Nat] /\ due \in [Coins -> BOOLEAN]

\* The bot never adds to a position its own entry opened: over restarts, lost
\* answers and partial reads at most one entry fill lands in a position.
NeverStacksOwnPosition == \A c \in Coins : fills[c] <= 1

\* To the account the loop is one trader, and keeps what PositionBook promises:
\* every step of it enters a position without an entry, ends one, opens one by
\* hand, or is nothing to the account's entries.
Book == INSTANCE PositionBook WITH
            Traders <- {"bot"},
            held    <- {c \in Coins : pos[c] # Flat},
            entries <- [c \in Coins |-> [t \in {"bot"} |-> fills[c]]]

ImplementsBook == Book!Spec

\* The outcome store never holds more closes of a coin than the exchange saw:
\* win rate, loss cooldown and daily statistics run off these rows.
NoPhantomClose == \A c \in Coins : rows[c] <= closes[c]

\* The exit policy a position was opened with stays in force until it is closed:
\* it is in the registry, or on disk while a restarted loop has not loaded it.
PolicyKept ==
    \A c \in Coins :
        due[c] /\ pos[c] # Flat =>
            (IF loaded THEN mem ELSE disk)[c][pos[c]] = "own"

\* Once a coin is flat, untracked and no close is being settled, every close of
\* it is in the outcome store.
Settled(c) ==
    /\ loaded /\ pos[c] = Flat /\ c \notin Tracked(mem)
    /\ ~(pc \in {"settle", "record", "register"} /\ cur = c)
    /\ \A k \in stale : k[1] # c
EveryCloseRecorded == \A c \in Coins : Settled(c) => rows[c] = closes[c]

\* A position, however it was opened, is eventually watched by a tracker or gone.
EveryPositionWatched ==
    \A c \in Coins, s \in Sides : pos[c] = s ~> (pos[c] # s \/ mem[c][s] # "none")

\* A tracker does not outlive its position for ever.
NoOrphanTracker ==
    \A c \in Coins, s \in Sides :
        (mem[c][s] # "none" /\ pos[c] # s) ~> (mem[c][s] = "none" \/ pos[c] = s)

\* A held coin is eventually offered to the AI close-check, or closed.
HeldIsReviewed ==
    \A c \in Coins : pos[c] # Flat ~> (pos[c] = Flat \/ pc = "review")
===========================================================================
