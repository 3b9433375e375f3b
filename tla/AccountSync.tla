--------------------------- MODULE AccountSync ---------------------------
(***************************************************************************)
(* The heartbeat of scripts/trading_loop.py as a judge of the account:     *)
(* _sync_account_state decides whether a read can be believed,             *)
(* memory.track_daily_pnl turns it into the day's PnL, and the hard kill   *)
(* switch flattens the book on that number.                                *)
(*                                                                         *)
(* A read is one POST per clearinghouse, and any of them can come back     *)
(* empty.  Equity is in whole units; one position per clearinghouse stands *)
(* for all the positions held there.  The ghosts `base` and `flow` keep    *)
(* the day's true trading PnL next to the one the loop computes, `astray`  *)
(* says which of the loop's figures stand on what it could not know.       *)
(* The equity read and the ledger lookup are two calls, and the ledger may *)
(* show a transfer later than the equity does.                             *)
(***************************************************************************)
EXTENDS Integers, FiniteSets, Functions

CONSTANTS
    Dexes,          \* clearinghouses
    Main,           \* the native one; its POST may fail and still count as queried
    StartEquity,    \* clearinghouse -> its equity when the loop first runs
    LossPct,        \* max_daily_loss_pct, in percent; 0 = unset
    LossUsd,        \* - max_daily_loss_usd
    SpikePct,       \* 25: the equity swing track_daily_pnl does not believe ...
    SpikeTicks,     \* ... within this many ticks of the last accepted reading (180 s)
    MissAccept,     \* _DEX_MISS_ACCEPT
    Events,         \* which environment events and faults can happen
    MaxOutage,      \* bound: consecutive reads a HIP-3 clearinghouse is missing from
    MaxDays, MaxMoves, MaxTransfers, MaxRestarts    \* bounds

\* "gap": a clearinghouse this process has seen funded misses a read;
\* "cold_gap": one it has not seen yet does.  "ledger_lag": the lookup shows a
\* transfer later than the equity; "ledger_gap": it fails.  "close_fails": so does
\* a close of the kill switch.
AllEvents == {"trade", "external_close", "transfer", "early_transfer",
              "carried_transfer", "gap", "cold_gap", "main_gap", "ledger_gap",
              "ledger_lag", "close_fails", "restart"}

ASSUME AccountAssumption ==
    /\ Main \in Dexes /\ IsFiniteSet(Dexes)
    /\ StartEquity \in [Dexes -> Nat]
    /\ LossPct \in 0..100 /\ LossUsd \in Nat
    /\ SpikePct \in Nat /\ SpikeTicks \in Nat /\ MissAccept \in Nat
    /\ Events \subseteq AllEvents
    /\ MaxOutage \in Nat /\ MaxDays \in Nat \ {0} /\ MaxMoves \in Nat
    /\ MaxTransfers \in Nat /\ MaxRestarts \in Nat

VARIABLES
    \* the account
    eq,         \* clearinghouse -> equity
    held,       \* clearinghouses with an open position
    day,        \* the UTC day
    ledger,     \* day -> net USDC that came in on it
    shown,      \* the ledger as the lookup shows it
    \* the loop process
    loaded,     \* the tracker registry has been read from disk
    funded,     \* clearinghouses with money in _LAST_DEX_EQUITY
    miss,       \* _DEX_MISS_STREAK
    lastEq, age,\* _last_eq_reading, and how many ticks old the next heartbeat finds it
    \* persisted: .dsl-state.json and .agent-memory.json (flushed by every heartbeat)
    trackers,   \* clearinghouses with a tracker
    mem,        \* start-of-day equity, its day and contribution level, daily PnL
    \* ghosts
    outage,     \* clearinghouse -> reads in a row it has been missing from
    base, flow, \* true equity when the day's baseline was stamped; USDC in since
    seen,       \* true equity when this process last believed a reading (0 = never)
    stamped,    \* the day the ghost baseline belongs to (0 = none yet)
    astray,     \* what the loop could not know when it made its figures, see Strays
    fired,      \* the last step was a heartbeat that flattened the book
    moves, transfers, restarts

account == <<eq, held, day, ledger, shown>>
process == <<loaded, funded, miss, lastEq, age>>
saved   == <<trackers, mem>>
truth   == <<outage, base, flow, seen, stamped, astray>>
bounds  == <<moves, transfers, restarts>>
accountVars == <<account, process, saved, truth, fired, bounds>>
---------------------------------------------------------------------------
Days == 1..MaxDays

\* "baseline": the day's baseline stands on a reading without a clearinghouse the
\* loop has given up on.  "reading": so does the last figure.  "transfer": USDC
\* has crossed the border of the account since the last reading it believed, or
\* before it and that reading's lookup did not show it yet.
Strays == {"baseline", "reading", "transfer"}

EquityOf(A) == SumFunctionOnSet(eq, A)

\* active_position_coins(), by clearinghouse: empty until the registry is loaded.
Tracked == IF loaded THEN trackers ELSE {}

Answers ==
    {A \in SUBSET Dexes :
        /\ Main \in A \/ "main_gap" \in Events
        /\ \A d \in Dexes \ {Main} :
              \/ d \in A
              \/ /\ outage[d] < MaxOutage
                 /\ (IF d \in funded THEN "gap" ELSE "cold_gap") \in Events}

\* effective_daily_loss_limit: start-of-day equity is inferred from the reading.
Breached(equity, pnl) ==
    IF LossPct > 0 /\ equity > 0 /\ equity - pnl > 0
    THEN pnl * 100 <= - ((equity - pnl) * LossPct)
    ELSE pnl <= - LossUsd

\* fetch_aggregate_contributions_since(dayStart); nothing is asked for day 0.
Since(first) == SumFunctionOnSet(shown, {d \in Days : first > 0 /\ d >= first})

ContributionReads ==
    {Since(mem.dayStart)} \cup (IF "ledger_gap" \in Events THEN {0} ELSE {})
---------------------------------------------------------------------------
AccountInit ==
    /\ eq = StartEquity
    /\ held \in SUBSET Dexes
    /\ day = 1
    /\ ledger = [d \in Days |-> 0] /\ shown = ledger
    /\ loaded = FALSE
    /\ funded = {} /\ miss = [d \in Dexes |-> 0]
    /\ lastEq = 0 /\ age = 0
    /\ trackers = {}
    /\ mem = [sod |-> 0, dayStart |-> 0, contrib |-> 0, pnl |-> 0]
    /\ outage = [d \in Dexes |-> 0]
    /\ base = 0 /\ flow = 0 /\ seen = 0 /\ stamped = 0 /\ astray = {}
    /\ fired = FALSE
    /\ moves = 0 /\ transfers = 0 /\ restarts = 0

(* _sync_account_state.                                                     *)

Queried(A) == A \cup {Main}

\* Funded clearinghouses that a read misses, and those among them that still
\* veto it; the others have been missing for too long and are forgotten.
Missing(A) == funded \ Queried(A)

\* Mutant: the idle-capital guard is missing.
NoVetoes(A) == {}

Vetoes(A) == {d \in Missing(A) : miss[d] + 1 <= MissAccept}

\* Of those, the ones the code has seen missing for too long: it accepts them as
\* gone.  Its streak is not one of reads in a row: only a reading that it believes
\* puts it back to 0, not one that another clearinghouse vetoes.
GivenUp(A) == {d \in Missing(A) : miss[d] >= MissAccept}

Degraded(A) ==      \* refused before the idle-capital guard counts anything
    \/ EquityOf(A) <= 0
    \/ ~(Tracked \subseteq Queried(A))

Spike(equity, force) ==
    LET swing == IF equity > lastEq THEN equity - lastEq ELSE lastEq - equity
    IN  ~force /\ lastEq > 0 /\ age < SpikeTicks /\ swing * 100 > SpikePct * lastEq

\* Mutant: a fresh process stamps a fresh baseline.
RollsAfterRestart == mem.dayStart < day \/ lastEq = 0

\* memory.track_daily_pnl on a reading it believes.
Rolls == mem.dayStart < day \/ mem.sod = 0

\* Mutant: transfers count as PnL.
AccountedRaw(equity, contributions) ==
    IF Rolls
    THEN [sod |-> equity, dayStart |-> day, contrib |-> contributions, pnl |-> 0]
    ELSE [mem EXCEPT !.pnl = equity - mem.sod]

Accounted(equity, contributions) ==
    IF Rolls
    THEN [sod |-> equity, dayStart |-> day, contrib |-> contributions, pnl |-> 0]
    ELSE [mem EXCEPT !.pnl = equity - mem.sod - (contributions - mem.contrib)]

\* The true baseline moves when the loop stamps one.
StampTruth(A) ==
    LET lost == IF GivenUp(A) # {} THEN {"reading"} ELSE {}
        late == IF shown # ledger THEN {"transfer"} ELSE {}
    IN  /\ seen' = EquityOf(Dexes)
        /\ IF Rolls
           THEN /\ base' = EquityOf(Dexes) /\ flow' = 0 /\ stamped' = day
                /\ astray' = lost \cup late \cup (IF lost # {} THEN {"baseline"} ELSE {})
           ELSE /\ UNCHANGED <<base, flow, stamped>>
                /\ astray' = (astray \cap {"baseline"}) \cup lost \cup late

\* rehydrate_from_exchange, at the end of the heartbeat: the registry is what the
\* snapshot shows, plus what it could not see.
Reconciled(A) == (held \cap A) \cup (trackers \ Queried(A))

\* Mutant: closes are resolved on the native clearinghouse only.
FlattenMain(A, equity, pnl) ==
    /\ fired' = (held \cap A # {} /\ Breached(equity, pnl))
    /\ held' = IF fired' THEN held \ {Main} ELSE held

\* The kill switch closes what the snapshot shows, coin by coin, and goes on when
\* a close fails; the reconciliation still works from that snapshot.
Flatten(A, equity, pnl) ==
    /\ fired' = (held \cap A # {} /\ Breached(equity, pnl))
    /\ \/ ~fired' /\ held' = held
       \/ fired' /\ held' = held \ A
       \/ /\ fired' /\ "close_fails" \in Events
          /\ \E closed \in SUBSET (held \cap A) : held' = held \ closed

RefuseReading ==
    /\ UNCHANGED <<held, lastEq, trackers, mem, base, flow, seen, stamped, astray>>
    /\ age' = IF age < SpikeTicks THEN age + 1 ELSE age
    /\ fired' = FALSE

Believe(A) ==
    LET equity == EquityOf(A)
        force  == \E d \in Tracked : d \in Queried(A) /\ d \notin held \cap A
    IN  /\ \/ /\ Spike(equity, force)
              /\ UNCHANGED <<lastEq, mem, base, flow, seen, stamped>>
              /\ astray' = astray \cup (IF GivenUp(A) # {} THEN {"reading"} ELSE {})
              /\ age' = IF age < SpikeTicks THEN age + 1 ELSE age
           \/ /\ ~Spike(equity, force)
              /\ \E c \in ContributionReads : mem' = Accounted(equity, c)
              /\ StampTruth(A)
              /\ lastEq' = equity /\ age' = 1
        /\ Flatten(A, equity, mem'.pnl)
        /\ trackers' = Reconciled(A)

Sync(A) ==
    /\ loaded' = TRUE
    /\ UNCHANGED <<eq, day, ledger, shown, bounds>>
    /\ outage' = [d \in Dexes |-> IF d \in A THEN 0 ELSE outage[d] + 1]
    /\ \/ Degraded(A) /\ RefuseReading /\ UNCHANGED <<funded, miss>>
       \/ /\ ~Degraded(A) /\ Vetoes(A) # {}
          /\ miss' = [d \in Dexes |-> IF d \in Missing(A) THEN miss[d] + 1 ELSE miss[d]]
          /\ funded' = funded \ (Missing(A) \ Vetoes(A))
          /\ RefuseReading
       \/ /\ ~Degraded(A) /\ Vetoes(A) = {}
          /\ miss' = [d \in Dexes |-> CASE d \in Queried(A) -> 0
                                        [] d \in Missing(A) -> miss[d] + 1
                                        [] OTHER            -> miss[d]]
          /\ funded' = {d \in A : eq[d] > 0}
          /\ Believe(A)

Heartbeat == \E A \in Answers : Sync(A)
---------------------------------------------------------------------------
(* What happens between two heartbeats.                                     *)

\* Prices move: only a clearinghouse with an open position gains or loses.
Trade ==
    /\ "trade" \in Events /\ moves < MaxMoves
    /\ \E d \in held, m \in {-1, 1} :
          eq[d] + m >= 0 /\ eq' = [eq EXCEPT ![d] = @ + m]
    /\ moves' = moves + 1
    /\ fired' = FALSE
    /\ UNCHANGED <<held, day, ledger, shown, process, saved, truth, transfers, restarts>>

\* A book enters, past the daily-loss gate on a read of its own; the position is
\* registered at once.
BotOpen ==
    /\ loaded
    /\ \E d \in Dexes \ held, A \in Answers :
          /\ d \in A /\ eq[d] > 0 /\ d \notin trackers
          /\ ~Breached(EquityOf(A), mem.pnl)
          /\ held' = held \cup {d} /\ trackers' = trackers \cup {d}
    /\ fired' = FALSE
    /\ UNCHANGED <<eq, day, ledger, shown, process, mem, truth, bounds>>

BotClose ==
    /\ loaded
    /\ \E d \in held : held' = held \ {d} /\ trackers' = trackers \ {d}
    /\ fired' = FALSE
    /\ UNCHANGED <<eq, day, ledger, shown, process, mem, truth, bounds>>

\* A resting stop fills, or the operator closes by hand.
ExternalClose ==
    /\ "external_close" \in Events
    /\ \E d \in held : held' = held \ {d}
    /\ fired' = FALSE
    /\ UNCHANGED <<eq, day, ledger, shown, process, saved, truth, bounds>>

\* USDC crosses the border of the account.  Transfers before the day's first
\* heartbeat are an event of their own.
Transfer ==
    /\ "transfer" \in Events /\ transfers < MaxTransfers
    /\ mem.dayStart = day \/ "early_transfer" \in Events
    /\ \E d \in Dexes, m \in {-2, 2} :
          /\ eq[d] + m >= 0
          /\ eq' = [eq EXCEPT ![d] = @ + m]
          /\ ledger' = [ledger EXCEPT ![day] = @ + m]
          /\ flow' = flow + m
    /\ shown' = IF "ledger_lag" \in Events THEN shown ELSE ledger'
    /\ astray' = astray \cup {"transfer"}
    /\ transfers' = transfers + 1
    /\ fired' = FALSE
    /\ UNCHANGED <<held, day, process, saved, outage, base, seen, stamped, moves,
                   restarts>>

\* The ledger catches up with the account.
Post ==
    /\ shown # ledger /\ shown' = ledger
    /\ fired' = FALSE
    /\ UNCHANGED <<eq, held, day, ledger, process, saved, truth, bounds>>

\* A day that rolls over after a transfer is an event of its own: the new day's
\* first heartbeat looks contributions up since the day before.
DayRoll ==
    /\ transfers = 0 \/ "carried_transfer" \in Events
    /\ day < MaxDays /\ day' = day + 1
    /\ fired' = FALSE
    /\ UNCHANGED <<eq, held, ledger, shown, process, saved, truth, bounds>>

\* The watchdog re-execs, or the supervisor restarts the loop.
Restart ==
    /\ "restart" \in Events /\ restarts < MaxRestarts
    /\ restarts' = restarts + 1
    /\ loaded' = FALSE
    /\ funded' = {} /\ miss' = [d \in Dexes |-> 0]
    /\ lastEq' = 0 /\ age' = 0 /\ seen' = 0
    /\ fired' = FALSE
    /\ UNCHANGED <<account, saved, outage, base, flow, stamped, astray, moves, transfers>>

AccountNext == Heartbeat \/ Trade \/ BotOpen \/ BotClose \/ ExternalClose \/ Transfer
          \/ Post \/ DayRoll \/ Restart

AccountSpec == AccountInit /\ [][AccountNext]_accountVars

\* Now and then the account read succeeds on every clearinghouse, and so does
\* every close the heartbeat sends.
CleanHeartbeat == Sync(Dexes) /\ (fired' => held' = {})

FairAccountSpec == AccountSpec /\ SF_accountVars(CleanHeartbeat)
---------------------------------------------------------------------------
AccountTypeOK ==
    /\ eq \in [Dexes -> Nat] /\ held \subseteq Dexes /\ day \in Nat
    /\ ledger \in [Days -> Int] /\ shown \in [Days -> Int]
    /\ loaded \in BOOLEAN /\ trackers \subseteq Dexes
    /\ funded \subseteq Dexes /\ miss \in [Dexes -> Nat]
    /\ lastEq \in Nat /\ age \in Nat
    /\ mem \in [sod : Nat, dayStart : Nat, contrib : Int, pnl : Int]
    /\ outage \in [Dexes -> Nat]
    /\ base \in Nat /\ flow \in Int /\ seen \in Nat /\ stamped \in Nat
    /\ astray \subseteq Strays
    /\ fired \in BOOLEAN
    /\ moves \in Nat /\ transfers \in Nat /\ restarts \in Nat

\* What trading made since the day's baseline was stamped: up to now, and up to
\* the last reading that was believed.
TruePnl == EquityOf(Dexes) - base - flow
SeenPnl == seen - base - flow

\* The kill switch only flattens a book that has really lost the day's limit: now,
\* or when the loop last believed a reading and a close of that flatten failed.
\* Gaps, restarts and the spike filter, whose old PnL meets the new equity in the
\* limit, never make it fire, except on figures that a clearinghouse given up on
\* or money in transit has led astray.
NoPhantomFlatten ==
    fired /\ astray = {} => Breached(EquityOf(Dexes), TruePnl) \/ Breached(seen, SeenPnl)

\* The PnL in memory is what trading had made when the last reading was believed,
\* whatever gaps and restarts there were and whatever was deposited or withdrawn,
\* once that reading's lookup showed it: until then a transfer counts as PnL.
PnlIsTrading ==
    lastEq > 0 /\ astray = {} => mem.pnl = SeenPnl

\* The day's baseline is stamped once: restarts and degraded reads never move it,
\* so they cannot launder a drawdown.
BaselineOncePerDay ==
    [][ stamped = day => UNCHANGED <<stamped, base, mem.sod, mem.contrib>> ]_accountVars

\* A book that has lost the limit of a day whose baseline is right, by a ledger that
\* shows every transfer, does not stay open: not for refused reads, vetoes, readings
\* that the spike filter keeps out, nor closes that fail.
LosesTheLimit ==
    /\ stamped = day /\ "baseline" \notin astray /\ shown = ledger
    /\ Breached(EquityOf(Dexes), TruePnl)

BreachIsFlattened == LosesTheLimit ~> (held = {} \/ ~LosesTheLimit)
===========================================================================
