--------------------------- MODULE EntryMemory ---------------------------
(***************************************************************************)
(* What the bot remembers of its entries, and the entry gates that rest on *)
(* that memory: the loss cooldown, the re-entry cap, idempotency and the   *)
(* plain cooldown (executor.maybe_execute over agents/memory.py).          *)
(*                                                                         *)
(* Two processes trade through the executor.  The trading loop owns        *)
(* .agent-memory.json: it loads the file once and flushes its copy after   *)
(* most writes.  The API server loads the file once at boot and never      *)
(* writes it (PATHIEL_STATE_READONLY).  Between two calls to the exchange  *)
(* a process can die, and the other one can trade.                         *)
(*                                                                         *)
(* A coin has one side here: what the two sides of a coin do to the        *)
(* registry of exit trackers is PositionLifecycle's subject.               *)
(***************************************************************************)
EXTENDS Integers, FiniteSets, Sequences

CONSTANTS
    Analyses,       \* analysis ids
    CoinOf,         \* the coin an analysis is about
    Events,         \* which faults can happen
    Cooldown,       \* config cooldown_min
    LossCooldown,   \* config loss_cooldown_min, 0 = off
    Window, Cap,    \* config reentry_cap; Cap = 0 turns it off
    Recent,         \* the trades the plain cooldown looks at (10)
    MaxTrades,      \* MAX_TRADES (100)
    MaxTime,        \* bound: the clock
    MaxEntries,     \* bound: entry orders
    MaxCrashes      \* bound: deaths of a process

AllEvents == {"crash", "lost_answer", "unpriced", "vanish", "server"}

None   == "none"
Loop   == "loop"
Server == "server"
Never  == -1
Procs  == {Loop, Server}

ASSUME EntryAssumption ==
    /\ None \notin Analyses
    /\ DOMAIN CoinOf = Analyses
    /\ Events \subseteq AllEvents
    /\ {Cooldown, LossCooldown, Window, Cap, MaxTime, MaxEntries, MaxCrashes} \subseteq Nat
    /\ {Recent, MaxTrades} \subseteq Nat \ {0}

Coins == {CoinOf[a] : a \in Analyses}
Times == 0 .. MaxTime

VARIABLES
    now,        \* time.time()
    pos,        \* exchange: the entries that make up each coin's position
    gone,       \* coin -> a position that ended outside the loop, its tracker still there
    mem,        \* process -> its AgentMemory: _trades, _entry_ctx, _cooldowns
    disk,       \* .agent-memory.json
    pc,         \* process -> where it is in an entry or a close; "down" = not running
    cur,        \* process -> the analysis being entered
    ending,     \* the close the loop has in hand
    crashes,
    \* ghosts
    fills,      \* every entry ever filled
    lossAt,     \* coin -> when the last losing close was recorded; Never, or its block was cut short
    skipped     \* coin -> a position of it ended without a row

vars == <<now, pos, gone, mem, disk, pc, cur, ending, crashes, fills, lossAt, skipped>>

Fresh  == [trades |-> <<>>, ctx |-> [c \in Coins |-> None], until |-> [c \in Coins |-> 0]]
NoEnd  == [coin |-> None, was |-> {}, ctx |-> None, loss |-> FALSE]
---------------------------------------------------------------------------
(* Reads of the memory.                                                    *)

Trades(p) == mem[p].trades

\* get_recent_trades(n) lists the last n trades, oldest first.
LastTrades(p, n) ==
    SubSeq(Trades(p), 1 + IF Len(Trades(p)) > n THEN Len(Trades(p)) - n ELSE 0, Len(Trades(p)))

\* loss_cooldown_remaining_min: the block is over, or there is none.
LossOver(p, c) == mem[p].until[c] <= now

\* Mutant: the window is open at its far end.
EntriesSinceAfter(p, c) ==
    Cardinality({i \in DOMAIN Trades(p) : /\ CoinOf[Trades(p)[i].a] = c
                                          /\ Trades(p)[i].at > now - Window})
\* count_entries_since(coin, now - window)
EntriesSince(p, c) ==
    Cardinality({i \in DOMAIN Trades(p) : /\ CoinOf[Trades(p)[i].a] = c
                                          /\ Trades(p)[i].at >= now - Window})

\* Mutant: a trade only counts as executed while its coin is on cooldown.
ExecutedLately(p, a) ==
    \E i \in DOMAIN Trades(p) : Trades(p)[i].a = a /\ now < Trades(p)[i].at + Cooldown
Executed(p, a) == \E i \in DOMAIN Trades(p) : Trades(p)[i].a = a

\* The plain cooldown takes the first match of get_recent_trades(10).
CooledDown(p, c) ==
    LET t == SelectSeq(LastTrades(p, Recent), LAMBDA r : CoinOf[r.a] = c)
    IN  t = <<>> \/ now - Head(t).at >= Cooldown

(* Writes of the memory.                                                   *)

\* record_trade: append, and forget the oldest beyond MAX_TRADES.
Noted(m, a) ==
    LET t == Append(m.trades, [a |-> a, at |-> now])
    IN  [m EXCEPT !.trades = IF Len(t) > MaxTrades THEN Tail(t) ELSE t]

\* loss_cooldown_remaining_min drops a block it finds expired.
Unblocked(m, c) == IF m.until[c] <= now THEN [m EXCEPT !.until[c] = 0] ELSE m

\* set_loss_cooldown
Blocked(m, c) == [m EXCEPT !.until[c] = now + LossCooldown]

\* A write of process p, flushed or kept in memory.  The server's flush is a no-op.
Write(p, m, flush) ==
    /\ mem' = [mem EXCEPT ![p] = m]
    /\ disk' = IF flush /\ p = Loop THEN m ELSE disk

\* Mutant: the blocks are not read back.
LoadedUnblocked == [disk EXCEPT !.until = [c \in Coins |-> 0]]
\* load: everything, without the blocks that expired meanwhile.
Loaded == [disk EXCEPT !.until = [c \in Coins |-> IF disk.until[c] > now THEN disk.until[c] ELSE 0]]

Goto(p, where) == pc' = [pc EXCEPT ![p] = where]
---------------------------------------------------------------------------
Init ==
    /\ now = 0
    /\ pos = [c \in Coins |-> {}] /\ gone = [c \in Coins |-> {}]
    /\ mem = [p \in Procs |-> Fresh] /\ disk = Fresh
    /\ pc = [p \in Procs |-> IF p = Loop THEN "idle" ELSE "down"]
    /\ cur = [p \in Procs |-> None]
    /\ ending = NoEnd /\ crashes = 0
    /\ fills = {} /\ lossAt = [c \in Coins |-> Never]
    /\ skipped = [c \in Coins |-> FALSE]

Tick ==
    /\ now < MaxTime
    /\ now' = now + 1
    /\ UNCHANGED <<pos, gone, mem, disk, pc, cur, ending, crashes, fills, lossAt, skipped>>
---------------------------------------------------------------------------
(* An entry.                                                               *)

\* maybe_execute up to the order: the loss cooldown, the cap, idempotency, then
\* the account read (opposite_direction_guard) and the plain cooldown.  The
\* first of them also drops an expired block.  A refused attempt leaves only that.
Admitted(p, a) ==
    LET c == CoinOf[a]
    IN  /\ LossOver(p, c)
        /\ Cap > 0 => EntriesSince(p, c) < Cap
        /\ ~Executed(p, a)
        /\ pos[c] = {}
        /\ CooledDown(p, c)

Attempt(p, a) ==
    /\ pc[p] = "idle"
    /\ Cardinality(fills) < MaxEntries
    /\ Write(p, Unblocked(mem[p], CoinOf[a]), FALSE)
    /\ IF Admitted(p, a)
         THEN Goto(p, "order") /\ cur' = [cur EXCEPT ![p] = a]
         ELSE UNCHANGED <<pc, cur>>
    /\ UNCHANGED <<now, pos, gone, ending, crashes, fills, lossAt, skipped>>

Fill(p, lost) == [n |-> Cardinality(fills) + 1, a |-> cur[p], by |-> p, at |-> now, lost |-> lost]

\* place_hl_order, then register_position.  The fill joins whatever the coin holds
\* by now; a position that ended unseen is covered by the new one.  When the
\* answer is lost the executor reports order_failed and remembers nothing.
Order(p) ==
    LET a == cur[p]
        c == CoinOf[a]
    IN  /\ pc[p] = "order"
        /\ pos' = [pos EXCEPT ![c] = @ \cup {a}]
        /\ gone' = [gone EXCEPT ![c] = {}]
        /\ skipped' = [skipped EXCEPT ![c] = @ \/ gone[c] # {}]
        /\ \/ /\ fills' = fills \cup {Fill(p, FALSE)}
              /\ Goto(p, "note")
              /\ UNCHANGED cur
           \/ /\ "lost_answer" \in Events
              /\ fills' = fills \cup {Fill(p, TRUE)}
              /\ Goto(p, "idle")
              /\ cur' = [cur EXCEPT ![p] = None]
        /\ UNCHANGED <<now, mem, disk, ending, crashes, lossAt>>

Rejected(p) ==
    /\ pc[p] = "order"
    /\ Goto(p, "idle")
    /\ cur' = [cur EXCEPT ![p] = None]
    /\ UNCHANGED <<now, pos, gone, mem, disk, ending, crashes, fills, lossAt, skipped>>

\* record_trade, which does not flush; the funding and regime reads follow.
Note(p) ==
    /\ pc[p] = "note"
    /\ Write(p, Noted(mem[p], cur[p]), FALSE)
    /\ Goto(p, "context")
    /\ UNCHANGED <<now, pos, gone, cur, ending, crashes, fills, lossAt, skipped>>

\* record_entry_context, which does.
Context(p) ==
    LET c == CoinOf[cur[p]]
    IN  /\ pc[p] = "context"
        /\ Write(p, [mem[p] EXCEPT !.ctx[c] = cur[p]], TRUE)
        /\ skipped' = [skipped EXCEPT ![c] = @ /\ ~(p = Loop /\ cur[p] \in pos[c])]
        /\ Goto(p, "idle")
        /\ cur' = [cur EXCEPT ![p] = None]
        /\ UNCHANGED <<now, pos, gone, ending, crashes, fills, lossAt>>
---------------------------------------------------------------------------
(* A close by the loop: close_position_market for a position that is       *)
(* there, record_external_position_close for one that vanished.            *)

Close(c) ==
    /\ pc[Loop] = "idle" /\ pos[c] # {}
    /\ pos' = [pos EXCEPT ![c] = {}]
    /\ \/ \E loss \in BOOLEAN :
            /\ ending' = [coin |-> c, was |-> pos[c], ctx |-> None, loss |-> loss]
            /\ Goto(Loop, "pop")
            /\ UNCHANGED skipped
       \/ /\ "unpriced" \in Events      \* filled, but the answer has no price
          /\ skipped' = [skipped EXCEPT ![c] = TRUE]
          /\ UNCHANGED <<ending, pc>>
    /\ UNCHANGED <<now, gone, mem, disk, cur, crashes, fills, lossAt>>

ExternalClose(c) ==
    /\ pc[Loop] = "idle" /\ gone[c] # {}
    /\ gone' = [gone EXCEPT ![c] = {}]
    /\ \E loss \in BOOLEAN :
          ending' = [coin |-> c, was |-> gone[c], ctx |-> None, loss |-> loss]
    /\ Goto(Loop, "pop")
    /\ UNCHANGED <<now, pos, mem, disk, cur, crashes, fills, lossAt, skipped>>

\* A close that finds the coin flat: the tracker goes, nothing is recorded.
AlreadyFlat(c) ==
    /\ pc[Loop] = "idle" /\ gone[c] # {}
    /\ gone' = [gone EXCEPT ![c] = {}]
    /\ skipped' = [skipped EXCEPT ![c] = TRUE]
    /\ UNCHANGED <<now, pos, mem, disk, pc, cur, ending, crashes, fills, lossAt>>

\* Mutant: the context is looked at, not taken.
PeekedAt(m, c) == m
Popped(m, c) == [m EXCEPT !.ctx[c] = None]

\* pop_entry_context flushes when there was one.
Pop ==
    LET c == ending.coin
    IN  /\ pc[Loop] = "pop"
        /\ ending' = [ending EXCEPT !.ctx = mem[Loop].ctx[c]]
        /\ Write(Loop, Popped(mem[Loop], c), mem[Loop].ctx[c] # None)
        /\ Goto(Loop, "row")
        /\ UNCHANGED <<now, pos, gone, cur, crashes, fills, lossAt, skipped>>

\* record_close, flushed.
RecordClose ==
    /\ pc[Loop] = "row"
    /\ lossAt' = IF ending.loss THEN [lossAt EXCEPT ![ending.coin] = now] ELSE lossAt
    /\ Write(Loop, mem[Loop], TRUE)
    /\ IF ending.loss /\ LossCooldown > 0
         THEN Goto(Loop, "arm") /\ UNCHANGED ending
         ELSE Goto(Loop, "idle") /\ ending' = NoEnd
    /\ UNCHANGED <<now, pos, gone, cur, crashes, fills, skipped>>

\* set_loss_cooldown, flushed.
Arm ==
    /\ pc[Loop] = "arm"
    /\ Write(Loop, Blocked(mem[Loop], ending.coin), TRUE)
    /\ Goto(Loop, "idle")
    /\ ending' = NoEnd
    /\ UNCHANGED <<now, pos, gone, cur, crashes, fills, lossAt, skipped>>

\* The heartbeat ends with update_open_positions and a flush.
Heartbeat ==
    /\ pc[Loop] = "idle"
    /\ Write(Loop, mem[Loop], TRUE)
    /\ UNCHANGED <<now, pos, gone, pc, cur, ending, crashes, fills, lossAt, skipped>>
---------------------------------------------------------------------------
(* Everybody else.                                                         *)

\* A stop fills, the position is liquidated, or somebody else closes it.
Vanish(c) ==
    /\ "vanish" \in Events
    /\ pos[c] # {}
    /\ pos' = [pos EXCEPT ![c] = {}]
    /\ gone' = [gone EXCEPT ![c] = pos[c]]
    /\ UNCHANGED <<now, mem, disk, pc, cur, ending, crashes, fills, lossAt, skipped>>

\* The process dies.  An entry of the loop that was not flushed and every entry of
\* the server are forgotten, a close in hand stays without a row or a cooldown.
Crash(p) ==
    LET kept  == {disk.trades[i].a : i \in DOMAIN disk.trades}
        lost(f) == f.by = p /\ (p = Server \/ f.a \notin kept)
        c     == ending.coin
    IN  /\ "crash" \in Events /\ crashes < MaxCrashes
        /\ pc[p] # "down"
        /\ crashes' = crashes + 1
        /\ fills' = {[f EXCEPT !.lost = @ \/ lost(f)] : f \in fills}
        /\ skipped' = IF p = Loop /\ pc[p] \in {"pop", "row"}
                        THEN [skipped EXCEPT ![c] = TRUE] ELSE skipped
        /\ lossAt' = IF p = Loop /\ pc[p] = "arm" THEN [lossAt EXCEPT ![c] = Never] ELSE lossAt
        /\ ending' = IF p = Loop THEN NoEnd ELSE ending
        /\ mem' = [mem EXCEPT ![p] = Fresh]
        /\ Goto(p, "down")
        /\ cur' = [cur EXCEPT ![p] = None]
        /\ UNCHANGED <<now, pos, gone, disk>>

Boot(p) ==
    /\ pc[p] = "down" /\ (p = Server => "server" \in Events)
    /\ mem' = [mem EXCEPT ![p] = Loaded]
    /\ Goto(p, "idle")
    /\ UNCHANGED <<now, pos, gone, disk, cur, ending, crashes, fills, lossAt, skipped>>
---------------------------------------------------------------------------
Next ==
    \/ Tick \/ Pop \/ RecordClose \/ Arm \/ Heartbeat
    \/ \E c \in Coins : Close(c) \/ ExternalClose(c) \/ AlreadyFlat(c) \/ Vanish(c)
    \/ \E p \in Procs :
          \/ \E a \in Analyses : Attempt(p, a)
          \/ Order(p) \/ Rejected(p) \/ Note(p) \/ Context(p) \/ Crash(p) \/ Boot(p)

Spec == Init /\ [][Next]_vars
---------------------------------------------------------------------------
(* Properties.                                                             *)

Entries  == [n : 1 .. MaxEntries + 1, a : Analyses, by : Procs, at : Times, lost : BOOLEAN]
Memory   == [trades : Seq([a : Analyses, at : Times]),
             ctx    : [Coins -> Analyses \cup {None}],
             until  : [Coins -> 0 .. MaxTime + LossCooldown]]

\* The variables keep their types, and the list of trades its length.
TypeOK ==
    /\ now \in Times
    /\ pos \in [Coins -> SUBSET Analyses] /\ gone \in [Coins -> SUBSET Analyses]
    /\ mem \in [Procs -> Memory] /\ disk \in Memory
    /\ \A p \in Procs : Len(mem[p].trades) <= MaxTrades
    /\ Len(disk.trades) <= MaxTrades
    /\ pc \in [Procs -> {"down", "idle", "order", "note", "context", "pop", "row", "arm"}]
    /\ cur \in [Procs -> Analyses \cup {None}]
    /\ ending \in [coin : Coins \cup {None}, was : SUBSET Analyses,
                   ctx : Analyses \cup {None}, loss : BOOLEAN]
    /\ crashes \in 0 .. MaxCrashes
    /\ fills \subseteq Entries /\ lossAt \in [Coins -> Times \cup {Never}]
    /\ skipped \in [Coins -> BOOLEAN]

NewEntries(p) == {f \in fills' : f.by = p /\ f.n > Cardinality(fills)}

\* Anti-revenge rule: a coin the loop has recorded a losing close of is not entered
\* again by the loop for the length of the loss cooldown, restarts included.  Only
\* a death between the row and the cooldown lifts the block.
LossBlocksReentry ==
    [][\A f \in NewEntries(Loop) :
          LET t == lossAt[CoinOf[f.a]] IN t # Never => now >= t + LossCooldown]_vars

\* Anti-churn cap: of the entries of a coin the loop still knows of, no window of
\* the configured length ever holds more than the cap, restarts included.
ReentryCapped ==
    Cap > 0 =>
      \A c \in Coins : \A t \in Times :
        Cardinality({f \in fills : /\ f.by = Loop /\ CoinOf[f.a] = c /\ ~f.lost
                                   /\ f.at <= t /\ f.at >= t - Window}) <= Cap

\* Idempotency: a process executes an analysis once, unless the order's answer was
\* lost or the process died before the trade reached the file.
ExecutedOnce ==
    \A f, g \in fills : f.a = g.a /\ f.by = g.by /\ ~f.lost => g.n <= f.n

\* An outcome row carries the entry context of the position it closes, or none:
\* never that of an earlier trade, unless one ended without a row.
RowsMatchEntries ==
    [][RecordClose /\ ~skipped[ending.coin] => ending.ctx \in ending.was \cup {None}]_vars

\* The plain cooldown: the loop enters a coin only when cooldown_min has passed since
\* it last entered it (executor.py: it "keys off the most recent trade-by-coin").
CooldownKept ==
    [][\A f \in NewEntries(Loop) :
          \A g \in fills : g.by = Loop /\ CoinOf[g.a] = CoinOf[f.a] /\ ~g.lost
                             => now >= g.at + Cooldown]_vars
===========================================================================
