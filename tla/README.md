# Pathia: a verification project

Pathia (package `pathiel`) is an autonomous trading agent for the Hyperliquid
perpetuals exchange.  One process, `scripts/trading_loop.py`, runs a tick every
few minutes: read the account, stop the day if it lost too much, reconcile its
exit trackers with the exchange, close what has to be closed, scan, let the
strategy books enter, ask the AI about held coins, and close again.  Around it
run an MCP server process that can trade through the same executor, a read-only
dashboard, a job scheduler and a supervisor.

The code has few threads and many network calls.  What is hard about it is not
parallelism inside the process, it is that the exchange moves between any two
calls, that a read is an aggregate of one POST per clearinghouse of which any
can fail, and that a process may die between "the order filled" and "the file
says so".  The models are built around these three facts.

## 1. Inventory

Each entry gives the component's state, its operations and what makes it correct.

**Trading loop** (`scripts/trading_loop.py`).  State: the tick's local snapshot
(`positions`, `equity`, `queried_dexes`), `_LAST_DEX_EQUITY`, `_DEX_MISS_STREAK`,
the watchdog's progress stamp.  Operations: `_sync_account_state`, kill switch,
DSL pass, slots gate, scan, books, AI review, second DSL pass, watchdog re-exec.
Correct when: what it does with the snapshot is harmless although the exchange has
moved on; a read it cannot believe changes nothing; held positions keep being
watched and reviewed.

**Executor** (`pathiel/agents/executor.py`).  No state of its own.  `maybe_execute`
(gates, account re-read, order, tracker registration, trade record, backup stop),
`close_position_market` (read, reduce-only order, deregistration, close record),
`monitor_exits`, `record_external_position_close`.  Correct when: it never adds to
its own position, a tracker goes only with its position, each close is recorded
exactly once.

**Dynamic stop-loss engine** (`pathiel/agents/dsl_exit.py`).  State: the registry
`_active_positions` of `DSLTracker`s and its mirror `.dsl-state.json`.
Operations: `check`, `register_position`, `deregister_position`, `load_state`,
`_save_state`, `rehydrate_from_exchange`, `refresh_entry_basis`.  Correct when: the
floor never loosens, a locked-in profit is not given back, exits fire when their
condition holds, and a restart continues where the process stopped.

**Agent memory** (`pathiel/agents/memory.py`).  State: recent trades, entry
contexts, loss cooldowns, closes, the day's PnL with its baseline, all in
`.agent-memory.json`, which the loop loads once and flushes.  The API server loads
the file at boot and never writes it.  Correct when: daily PnL is what trading made
since the day began, over restarts and transfers; a loss blocks its coin for the
cooldown; a row carries the context of its own entry.

**Account reads** (`pathiel/client/hl_client.py`).  Stateless aggregation over the
native and the HIP-3 clearinghouses, with the set that answered; the ledger lookup
for contributions.  Correct when: a caller can tell "no position" from "no answer".

**Exchange client** (`pathiel/client/exchange.py`): orders, leverage, triggers.
**Risk gates** (`risk_gates.py`): pure conditions on an entry.
**Strategy books and claims** (`*_live.py`, `news_surge_multi.py`,
`social_trending_recorder.py`, `rebalancer_owned.py`).  State: the registry of
claims (coin to book), one object per process mirrored in
`.rebalancer_claims.json`, and per-book throttles and `seen` keys.  Operations: a
pass of a book (prune its claims, filter, claim, execute, release, save), the
loop's `prune_claims_to_live`, and `with_deadline`, which abandons a
social_trending pass that takes too long.  Correct when: two books never trade one
coin, an open position keeps its claim, and no claim blocks a coin for ever.
**MCP server** (`scripts/pathiel-mcp-server.py`): `execute` and `close_position`
run the executor in another process, with a registry never loaded from disk; a tool
that updates the configuration.

**API server** (`pathiel/server.py`): runs the executor in a third process, with a
memory loaded at boot; `PUT /config`.

**Configuration** (`config_store.py`, `scripts/autonomous_cycle.py`).  State:
`.agent-config.json`, its temporary file.  Operations: the loop's read on every
tick, read-merge-replace by the two servers, the daily cycle that grades every
book's forward ledger and rewrites the whole file in place.  Correct when: an
operator's OFF stays in force, no book goes live unearned, a refuted book stops.

**Rate limiter** (`client/rate_limit.py`).  State: `_tokens`, `_last`, the callers
asleep.  Operation: `acquire`.  Correct when: no stretch of time holds more than a
burst and its refill, nobody is refused for nothing, everybody returns.

**Supervision** (`supervise_processes.py`, `restart.sh`).  State: the processes, the
operator's halt file, the restart history.  Operations: a pass (list, read, decide,
restart, save), the actions of `restart.sh`.  Correct when: what the operator
stopped stays down, what dies comes back, a crash loop ends.

**Scheduler** (`scripts/scheduler.py`).  State: `.state/scheduler.json`, a thread per
running job.  Operations: `tick`, `_stamp`, `run_job`, `--force`.  Correct when: an
occurrence starts a job once, over restarts, and no due job is starved.

**Snapshots and logs**, **capital flows and shadow ledgers**, **research / AI
review**, **sizing and indicators**, **market metadata**, **operations scripts**,
**dashboard**, **auth**, **trend engine**, **data API, demo, wallet UI**, **research
archive**: see section 8.

Interaction in one line each:

| from | to | how |
| --- | --- | --- |
| loop | exchange | one POST per clearinghouse, orders, all of which may fail or lose their answer |
| loop | DSL registry | same process; the file is the only thing a restart keeps |
| loop | memory | same process; `flush` only by the process that loaded it |
| books | executor | `_book_execute`, one candidate at a time |
| MCP server | executor, DSL file | another process, its own registry, the same file |
| resting stops, operator | exchange | at any moment |
| books | claims registry | same process; saved at the end of a pass, by some books only if something opened |
| `with_deadline` | social_trending | a thread that is abandoned, not stopped |
| watchdog, supervisor | loop | re-exec or restart at any moment |
| scheduler | supervisor pass, autonomous cycle, other jobs | a process per job, which outlives a scheduler that dies |
| loop | scheduler | a supervisor pass of its own now and then |
| API server, MCP server, cycle | loop | `.agent-config.json`, unlocked; the loop reads it anew on every tick |
| API server | executor, memory | its own copy of the loop's memory, from its boot |

## 2. Modules

| module | models | instance |
| --- | --- | --- |
| `PositionLifecycle` | the tick, the executor, registry and state file, outcome store, the MCP process | `MCPositionLifecycle` |
| `AccountSync` | `_sync_account_state`, `track_daily_pnl`, the kill switch | `MCAccountSync` |
| `DslExit` | one `DSLTracker`, its state file and its policy | `MCDslExit` |
| `BookClaims` | the claims registry, a book's pass, social_trending under its deadline | `MCBookClaims` |
| `EntryMemory` | the entry gates and the memory they rest on, in the loop and the API server | `MCEntryMemory` |
| `AgentConfig` | the configuration file, its writers, the autonomous cycle | `MCAgentConfig` |
| `Supervision` | supervisor passes, `restart.sh`, the halt file | `MCSupervision` |
| `Scheduler` | jobs, their threads, the state file, forced runs | `MCScheduler` |
| `TokenBucket` | the rate limiter and its callers | `MCTokenBucket` |
| `BudgetConstants` | parameters of both, and what is assumed of them | |
| `RateBudget` | what a request budget promises; `TokenBucket` implements it | |
| `PositionBook` | what the account promises to hold of the bot's trades; `PositionLifecycle` and `BookClaims` implement it | |
| `PositionLifecycle_proofs`, `DslExit_proofs`, `BookClaims_proofs`, `EntryMemory_proofs`, `AgentConfig_proofs`, `Supervision_proofs`, `Scheduler_proofs`, `AccountReads_proofs` (of `TokenBucket` and `AccountSync`) | theorems and their proofs | |

### PositionLifecycle

The exchange holds `pos` (coin to side), counts the bot's entry fills in the
position held now (`fills`), the positions ever opened (`opens`, which bounds the
model) and the fills that reduced one (`closes`).  The loop process has a program
counter `pc` whose values are the stretches of code between two network calls:

| `pc` | code | action |
| --- | --- | --- |
| `heartbeat` | `_sync_account_state` | `Heartbeat` |
| `kill` | kill switch | `KillSwitch` |
| `rehydrate`, `external` | `rehydrate_from_exchange`, `record_external_position_close` | `Rehydrate`, `RecordExternal` |
| `exits`, `exits2` | `monitor_exits`, first and second pass | `MonitorExits` |
| `scan`, `books`, `enter`, `register` | scan, books, `maybe_execute` up to and after the order | `Scan`, `Books`, `Enter`, `Register` |
| `review`, `verdict` | AI close-check: the coins to close, then a LONG or SHORT verdict on a coin that is not held any more, which `route_verdict` hands to `maybe_execute` | `Review`, `Verdict` |
| `close`, `order`, `settle`, `record` | `close_position_market`: read, order, deregister, record | `CloseRead`, `CloseOrder`, `CloseSettle`, `CloseRecord` |

`snap` and `queried` are the heartbeat's `positions` and `queried_dexes`; `mem`,
`loaded`, `disk` are `_active_positions`, `_loaded_from_disk` and `.dsl-state.json`;
`rows` counts rows of the outcome store; `mcp` is the MCP process's own registry.
A tracker is abstracted to the policy it carries: the one it was opened with
("own") or the config default a synthesized tracker gets ("config").  Which coin
the DSL, the AI or a book picks is left open: any subset.  The environment
(`StopFill`, `ManualOpen`, `McpExecute`, `McpClose`, `Crash`) may act between any
two steps.  The MCP process's own network calls are not told apart, but its order acts on
whatever position it meets, not on the one its read showed: it opens, adds or nets, its
close may find a partial read flat, fill in part or lose its answer.  `Events` lists the
faults an instance allows, so a run says which guarantee survives which fault.

### PositionBook

The abstract specification of the two modules that contain the tick: a trader's entry
fills a position that carries none and stays the only one in it until the position ends,
by whoever's hand; the operator's positions carry none.  In `PositionLifecycle` the loop
is one trader and `pos` and `fills` are mapped to it; in `BookClaims` every book is a
trader of its own.  Reads, snapshots, trackers, claims, files and restarts are all
stutters of it.

### AccountSync

One `Heartbeat` action is one call of `_sync_account_state` with the kill switch and
the reconciliation that follow it in the tick.  `Degraded` is the refusal on zero
equity or on a missing clearinghouse that backs a tracker, `Vetoes` the
idle-capital guard with its streak counter, `Spike` the filter in
`track_daily_pnl`, `Accounted` its bookkeeping, `Breached`
`effective_daily_loss_limit` against the PnL, `Flatten` the kill switch, each of whose
closes may fail.  Equity is in whole units.  `ledger` is what was transferred, `shown`
what a lookup of it answers: with `"ledger_lag"` a transfer is in the equity at once and
in the lookup when `Post` puts it there, any number of heartbeats later.  The
ghosts `base` and `flow` keep the true trading PnL of the day beside the computed
one, and `astray` what these two may differ by without a mistake of the loop: the day's
baseline or its last reading was taken without a clearinghouse that the idle-capital
guard has given up on (`GivenUp`), USDC has crossed the border of the account since
the last reading it believed, or it had crossed before and that reading's lookup did not
show it yet.

### DslExit

A short is a long on negated prices, so one computation serves both.  Percentages
are whole numbers of the entry price and floors are kept times 100, which makes
every comparison of `check()` exact.  `CheckEarly` is every return before the
floor, `CheckFloor` the rest; what `_save_state` wrote last is `saved`, and
`Restart` reads it back.  The clock is a counter up to the hard timeout.

### BookClaims

`pc` is where the cycle is, `job[a]` the book pass that actor `a` is in, where an
actor is the loop or a thread of the late book:

| stage of a job | code | action |
| --- | --- | --- |
| (none) | a book is called: prune, filter | `NextBook`, `Fetched` with `Begins` |
| `fetch` | `fetch_trending` | `Fetched` |
| `pick` | next candidate, `claims.claim` | `Claim`, `Finish` (save) |
| `read` | `maybe_execute` up to the order | `ExecutorReads` |
| `order` | order, registration or release | `ExecutorOrders` |

The loop's own steps are `Heartbeat`, `PruneClaims`, `NextBook`, `StartLate` and
`Joined`.  `Believable` says what a read that is believed may show: it may miss a HIP-3
clearinghouse that backs no tracker, and the main one whatever that backs, because a
failed request to it counts as answered.  `claims` and `loaded` are the singleton,
`file` what is on disk (it may start with claims of deleted books), `tracked` the coins of the DSL registry, which
a restart keeps.  The books differ in two ways that matter and are constants:
`SnapOnly` (xs_reversal looks at `positions` without the DSL registry) and `Eager`
(a pass ends with a save even if nothing opened).  Signals, throttles and `seen`
keys are a free choice of candidates.  The ghosts are `fills`, a book's entry fills
in the position held now, and `owner`, the book whose finished pass opened it.  One
call of the registry is one step: the interpreter lock does not guarantee that of
`claim`, but two of its callers meet only in the abandoned case, which is refuted
with whole calls already.

### EntryMemory

`mem[p]` is the `AgentMemory` of process `p` and `disk` the loop's file; `pc[p]` is
where the process is in `maybe_execute` (order, trade, context) or in the record of
a close (context popped, row, cooldown armed), with the flushes where the code has
them.  A process can die between any two of these steps, and the other one can
trade.  `fills` remembers every entry, `lossAt` when a loss was recorded.

### AgentConfig

Two facts of the configuration are kept: whether `mode` is LIVE and which books are
live.  Files are inodes, since that is what the code's two ways of writing differ in:
`write_agent_config` fills a temporary file and renames it, the cycle truncates the
file in place.  A writer's `pc` runs from its read (`await`, `grading`) to its merge
and its write; an API request reads the file *before* it awaits the request's body.
The ghosts name what the properties excuse: `behind`, the writers that had read the
file before an OFF or a demotion landed, `over`, that one of them has written since.

### Supervision

A run of `restart.sh` is a sequence of steps (stop, mark, clear, write, start, spawn)
taken one at a time by the operator or by a pass; a pass lists the processes, then
reads history and halt file, then decides component by component, and outlives the
host that began it: the host that comes back may begin its next pass beside the one its
predecessor left, and the later of the two to end writes over what the other counted.
`copy` is the halt file between its read and its replacement, for which all scripts use
one temporary file: the first to move it takes what it and others put there, in part or
mixed, and another that had it open too (`taken`) finds it gone and ends.  The ghost
`slips` counts the passes whose count may be lost, because they died of a restart or
because they began beside another of their host, `spent` the tries of supervision that came
to their end: with a process, or with the reason why there is none.

### Scheduler

A time matters only as it compares with its job's last scheduled occurrence, so it is
"new", "old" or "never"; reaching the next occurrence turns every "new" into "old".
The tick, the job threads and the forced run each load and replace the state file in
two steps, the first two under the lock.  The forced run has no lock: with `"shared"` it
and a holder of the lock may have the temporary file open together, and what is renamed is
one's content, the other's or a mixture (`Mixture`).  A dead scheduler leaves `orphans`.
Jobs that are not `Fast` are followed for one occurrence.

### TokenBucket and RateBudget

Times are relative to now: the age of `_last`, a caller's time to its deadline, the
rest of its sleep.  `RateBudget` is the abstract specification, a level that rises
with time and is granted from.  `ImplementsBudget` is the refinement, with the level
mapped to what a refill at this moment would make of `_tokens`.

## 3. Runs and what they show

Passing:

| run | question | bounds, and why they are enough |
| --- | --- | --- |
| `Lifecycle` | is a close ever recorded twice, a policy lost, a position stacked? does the loop implement `PositionBook`? | two coins on different clearinghouses, each opened at most twice, one restart: a stale snapshot, a reopened coin and a reload from disk can all meet |
| `Recorded` | does every close of the bot leave a row? | two coins, read gaps, rejects, one partial fill and manual opens; without stops that fill in mid-tick, crashes and the MCP process, which do lose rows (section 6) |
| `Watched` | is every position eventually watched, and every tracker of a gone position dropped? | one coin, both sides, every fault the module knows, the MCP process, native gaps, partial fills and a crash among them; two reductions or adds, so that a residual position is closed or added to again |
| `Account` | can the kill switch fire on a loss that did not happen, can a baseline move, do transfers pass for PnL, does a breached book stay open? | two days, a restart, two price moves and one transfer in either direction that the ledger shows as late as it likes, closes that fail, outages of two reads (`MissAccept` is 1, so a clearinghouse that is given up on occurs), equities so small that a loss limit is one or two moves away and a swing the spike filter refuses is reached |
| `Floor` | does the floor ratchet, is a winner protected, how long may it be held at a loss? | five marks that reach max loss, break-even and both tiers, two leverages, one add, one restart; a policy with one breach and no noise band, one with two and a band |
| `Claims` | is a position entered once, does it keep its claim, does every claim come free? do the books implement `PositionBook`? | three of the five books, one of each kind (the two news books save like social_trending and run in the loop); two coins, so that a claim on one meets a pass on the other; one is native and the other HIP-3, and reads miss either; each coin opened twice, one restart, a file left by an earlier version |
| `Entries` | does a loss block its coin, is the re-entry cap kept, an analysis executed once, a row given its own context? | two analyses of one coin, two traders, two entries, a clock of three with a cooldown of two, one death between any two steps |
| `Config` | does an operator's OFF hold, is what trades earned, does bleeding stop, when is the file unreadable? | four writers (two requests meet in the temporary file), two updates, one book whose grade changes once, one death |
| `Supervised` | does the operator win, a crash loop end, a healthy process live, a dead one come back? | loop and scheduler with a pass each way, one request of three kinds (start the scheduler, restart all, stop the loop), one fault, a cap of one restart, so that it is reached; the first death of an hour has to be revived, also when its restart hung.  Two passes of one host do not meet in this instance: with `Passes <- ThreePasses` they do, and the safety properties hold there too (4.1 million states), but its liveness takes too long; the theorems cover any number of passes |
| `Scheduled` | does an occurrence start once, is a success earned, every due job started? | three jobs for two slots, one that may run longer than its interval; one fault of any kind at any point but a shared temporary file: with three jobs its state space is out of reach, with two (356,000 states, passing) the slots never bind, so it is left to the theorems |
| `Budget` | is the budget kept, a refusal justified, does every call return? | two threads, a burst of four at one per tick, a light and a heavy endpoint; a wait long enough for the heavy one |

The type invariant is among the properties of the runs `Floor` and `Budget`; that of every
module is proved (section 5).

Refuted (quoted under `findings`): `OldestCooldown`.  The plain cooldown "keys off the
most recent trade-by-coin", but `get_recent_trades` lists the oldest first and the
executor takes the first match, so that with two trades of a coin among the last ten
it may be entered again at once.  Section 6 has the statements that other instances
refute.

`CHECK_DEADLOCK FALSE` is set for `Floor` only: a closed position has no next step.

## 4. Fairness

`PositionLifecycle`: weak fairness of the loop (the process runs, and the watchdog
or the supervisor bring it back) and strong fairness of `CleanHeartbeat`, a
heartbeat whose read was complete and current.  The code retries every tick, so
"reads fail for ever" is the only behaviour excluded.  `AccountSync`: strong
fairness of a complete read, for the same reason.  `BookClaims`: weak
fairness of the loop and of the threads (an answer or a socket timeout ends every
fetch), strong fairness of a complete read of the account.  `TokenBucket`: time
passes, a runnable thread runs.  `Supervision`: passes are begun again and again (each
host begins them on a timer) and a script that runs goes on.  `AgentConfig`: the
scheduler keeps starting the cycle, and the property starts only when the grade no
longer changes.  `Scheduler`: the tick loop, the threads (a job is killed at
`TIMEOUT_S`) and the restart of a dead scheduler go on, and who waits for the lock
gets it (strong fairness of `WorkLoad`: the lock is free for most of the minute
between two ticks).  `DslExit` and `EntryMemory` have no liveness property.  No mark, order of
events or choice of the books is assumed fair.

## 5. Proofs

For every value of the constants that satisfies the named assumptions:

- `PositionLifecycle_proofs!TypeCorrect`: the type invariant, one step per action.
- `PositionLifecycle_proofs!NeverStacks`: at most one entry fill per position, if
  no second process trades (`"mcp" \notin Events`).  The invariant is not inductive
  alone.  `Unstacked` adds what the executor's re-read establishes and nothing can
  take away before the order: between the read and the fill (`pc = "enter"`) the
  bot has no fill in the coin's position, because only the loop adds fills and
  every other step only removes them or opens with none.
- `PositionLifecycle_proofs!KeepsBook`, under the same hypothesis: the loop implements
  `PositionBook`.  The same invariant says that the one action that fills an entry finds
  the coin without any (`Bare`); every other action takes a position away together with
  its entry (`End`), opens one by hand, or leaves both alone.
- `PositionLifecycle_proofs!PolicyStays`, if the executor's reads are whole, orders fill
  at once and no second process writes the file (`WholeReads`).  `DueInv` follows the
  policy through the three places that hold it: a position whose tracker is due has its
  own policy in the file, a loaded registry agrees with the file (`Steady`), and while
  the tick reconciles, the snapshot shows such a coin if its clearinghouse answered.
- `PositionLifecycle_proofs!RowsAreCloses`, without a second process, the kill switch and
  gaps of the native read (`OneReader`).  `Paid` keeps an account per coin: rows written
  plus rows *owed* (a close that filled and is on its way to `record_close`, a tracker
  that the next reconciliation will record as closed externally) never exceed closes.
- `PositionLifecycle_proofs!ClosesAreRows`, the other half of that account (`Credited`),
  if nobody but the loop closes positions, answers arrive priced and the process lives
  (`LoopCloses`).
- `DslExit_proofs!TypeCorrect`.
- `DslExit_proofs!FloorNeverLoosens`: needs `Kept`, that the file's floor is the
  floor in memory whenever the position has one, else a restart could loosen it.
- `DslExit_proofs!Locked`: once armed on the present basis the floor is at or
  above entry; needs `Grounded`, that the peak is never below entry.
- `DslExit_proofs!WinnerExits`: with one breach required and no noise band, an armed
  position that trades below entry is told to exit by that very check.
- `DslExit_proofs!WinnerLetGo`: a position that reached phase 2 is held at a loss for one
  check less than the breaches its policy wants, once per life of the process.  `losing`
  counts the checks that find it below entry and do not tell it to exit; the code counts
  breaches of the floor, a different thing, and what has to be shown is that each of the
  former is one of the latter.  That needs `Locked` (below entry is below the floor),
  `Peaked` (a position in phase 2 has a peak that took it there, in the file too, so no
  loss limit or timeout can end in a hold) and that a noise band no wider than phase 2
  (`NarrowBand`) does not reach below entry.  `Waited` then charges what a restart loses of
  the count to the lives already lived.

- `BookClaims_proofs!TypeCorrect`: with `PassShape`, that a pass past its filter has a
  book and a loaded registry, and one in the executor a coin.
- `BookClaims_proofs!EntersOnce`, if no pass is abandoned (`"stall" \notin Events`).
  `OnceInv` adds `OneActor` (the loop is between passes while a thread is in one) and
  `EntriesFresh` (a coin between the executor's read and its order has no entry
  fill): nobody else can order in that window, so a fill always starts from none.
- `BookClaims_proofs!KeepsBook`, under the same assumption: the books together implement
  `PositionBook`, from `OnceInv`.  `BookHoldsOne` is a theorem about `PositionBook` alone:
  whatever its traders are, at most one of them has entered a position, and once.
- `BookClaims_proofs!ClaimsLast`, under the same assumption.  `LastInv` says why an
  owned coin's claim survives: `ClaimLasts`, while a coin has an owner the registry
  and the file both name that owner, the coin is tracked and, in a cycle whose read
  was believed, in `positions` (a believed read that hides it ends its ownership only if
  it misses the main clearinghouse); and `PassClaims`, a pass holds the claim of what it
  opened until `Finish` saves it, and never releases one of an earlier position.

- `EntryMemory_proofs!TypeCorrect`, with `InHand` (what a process has in hand is there)
  and `Numbered` (entries are numbered as they fill).
- `EntryMemory_proofs!ExecutesOnce` and `CapHolds`, while the entries made fit the list of
  trades (`MaxEntries < MaxTrades`: the list forgets its oldest member at 100).
  `HistoryInv` says where an entry is remembered: in the trades of the process that made
  it, in its hand between the answer and the note, or, while the loop is down, in the
  file; no list names an analysis twice, and the loop knows all its file holds.
  `CapHolds` adds `RoomInv`, that an order under way still has room under the cap.
- `EntryMemory_proofs!LossBlocks`: the block of a recorded loss is over, or in force in
  memory *and* file, or about to be armed, in the hand of the process (`BlockInv`).
- `EntryMemory_proofs!RowsMatch`: the context kept for a coin is that of the position it
  has, or of one that is gone and still to be recorded (`ContextInv`).

- `AgentConfig_proofs!TypeCorrect`, with `Shape`, a file is open exactly while it is
  written or about to be renamed.
- `AgentConfig_proofs!OffStays`: a writer that is not `behind` read the file after the
  OFF, so what it holds is not LIVE (`OffInv`), and it writes what it read, changed as it
  was told (`WritesItsRead`).  `OnlyEarnedTrades` is the same for the live books, in the
  file, in every snapshot and in what the cycle is about to write (`EarnedInv`).
- `AgentConfig_proofs!ReplaceIsAtomic`: until two writers share the temporary file, its
  name leads to the one writer that has it open, nobody but the cycle has the file itself
  open, and what is about to be renamed is whole (`AloneInv`).

- `Supervision_proofs!TypeCorrect`, then `Work`, the shape of a script under way: only its
  first step is half done (`Shape`), a pass restarts what it found dead and not halted and
  is through with it (`PassWork`), the operator lifts a halt only to start (`OpWork`).
- `Supervision_proofs!OperatorPrevails`: what the operator stopped for good is down and
  marked, every copy of the halt file about to be written has the mark, and every pass
  past its reading of the file has seen it (`Gone`); so nobody is left who would clear the
  mark or start it.  Two scripts in the temporary file at once end that.
- `Supervision_proofs!GivesUp`: `CountInv` splits the tries of a component into those that
  cannot be forgotten, because the file and every pass that will write it have them, and
  one each for the passes under way: those that have tried it once more, and those that
  still may.  Stated first with the passes that died as the only excuse, the property
  turned out false: two passes of one host may overlap, which an instance with one pass a
  host does not show.  It now excuses those as well (`slips`).
- `Supervision_proofs!StopsOnlyTheDead`: what a pass still means to stop, and that runs, was
  started by others since the pass listed the processes (`TouchedInv`).

- `Scheduler_proofs!TypeCorrect`, with `PassOK`: the pass claims a job that was due and
  does not run, once, and only while a slot is free.
- `Scheduler_proofs!StartsOnce`: who holds the loaded state file holds the lock
  (`LockOK`), an occurrence that was taken is in the file and in the copy that will
  replace it (`TakenIsFiled`), and a job still to be reached, or whose occurrence came
  since, has not been started (`DueIsFresh`).  Whatever the file holds after a forced run
  has shared its temporary name, each occurrence that was in it and is not any more is
  counted as lost (`LosesCounts`).
- `Scheduler_proofs!OkEarned`: each place from which `last_ok` may yet be written (a copy, the
  forced run's copy, a thread with return code 0) has it from a run that succeeded.

- `AccountReads_proofs!TypeCorrect`, then `Refinement`: a refill credited late gives
  the level an eager one has (the cap commutes with adding up ticks; this is where
  `LagFills` is needed, since the model stops ageing `_last` at `MaxLag`), so every
  step is one of the budget or a stutter.
- `AccountReads_proofs!BudgetIsBounded`, of the abstract budget: what a window is granted
  plus the level never exceeds capacity plus refill, which is inductive.
  `WindowIsBounded` carries it over to the bucket by the refinement.
- `AccountReads_proofs!RefusedWhenContended`: for a call during which nobody else was
  served, the level and what will be refilled until its deadline are enough (`InTime`).

- `AccountReads_proofs!AccountTypeCorrect`, and `BaselineStampedOnce`, which holds over
  every event and fault the model has: `Stamped` says that the loop's own day is the one
  the true baseline was stamped on and that a stamped baseline is never 0, which
  `track_daily_pnl` would take for "none yet".
- `AccountReads_proofs!PnlIsRight` and `FlattenIsEarned`, if every gap is one of a HIP-3
  clearinghouse this process has seen funded, the lookup answers, and no money moves
  before the day's first heartbeat (`SeenFaults`).  The lookup may lag behind the account
  for as long as it likes, and closes may fail.  `AccountInv` has four further parts:
  `Ledgered`, the ledger holds transfers of today only, all made after the baseline, and
  the lookup shows none of another day; `Trusted`, the baseline in memory is the true one;
  `PnlIsTrading` itself; and `Whole`, a reading that led nothing astray was the whole
  account.  The spike filter keeps an old PnL beside a new equity.  If the account has
  sunk since, the true PnL has sunk with it, and a breach stays one when both fall
  (`BreachedSinks`); if it has risen, the old PnL breached at the smaller equity too,
  since a limit is reached sooner there (`BreachedSmaller`), which was the account when
  the loop last believed a reading.
- Equity is a sum over the clearinghouses that answered, for any number of them.  The
  library's induction theorems cannot be used, so the facts the proofs need (a sum
  exists and is unique, unfolds at any member, splits, is monotone) are proved from the
  definition of the fold by least counterexample: the sizes of the sets for which a claim
  fails form a set of numbers, which has a least member (`LeastNumber`, `MemberByMember`).

Assumptions are `LifecycleAssumption`, `AccountAssumption`, `DslAssumption`, `RoeDivides`,
`ClaimsAssumption`, `EntryAssumption`, `ConfigAssumption` (there is a book),
`SupervisionAssumption`, `SchedulerAssumption`, `BucketAssumption`, `LagFills` and
`BudgetAssumption`, each evaluated by TLC in the runs of its module.  Hypotheses of single
theorems (`WholeReads`, `OneReader`, `LoopCloses`, `SeenFaults`, no `"mcp"`, no `"stall"`,
`MaxEntries < MaxTrades`) name what section 6 shows to be needed; the instances of the runs satisfy them.

Only model-checked: the liveness properties (`EveryPositionWatched`, `NoOrphanTracker`,
`BreachIsFlattened`, `EveryCallReturns`, `WatchRevives`, `BleedStops`, `ClaimsComeFree`,
`NothingMissed`), which rest on fairness and are out of the prover's reach.  Every other
property of a passing run is stated by a theorem.

## 6. Known limits of the guarantees

The passing runs exclude certain faults because the property fails with them.
Adding the fault to the run's `Events` gives the counterexample.

Positions and account:

- `NoPhantomClose` with `"kill"`: the pass after the kill switch reconciles with the
  snapshot from before it, re-creates trackers of positions just closed, and the
  next tick records them as closed externally.  With `"main_gap"`: the native
  trackers are dropped on a failed read.
- `PolicyKept` with `"mcp"` (its save replaces the file), with `"close_gap"` (a read
  gap passes for "already flat", though the tracker is to go "on success"), with
  `"main_gap"` (the native clearinghouse fails, and the tracker with it), and
  with `"partial_fill"` (the tracker goes with the first partial close).
- `EveryCloseRecorded` with `"stop_fill"`: a stop that fills between heartbeat and
  close attempt is "already flat" and leaves no row; with `"crash"` and
  `"unpriced"` the row is lost as well.  With both sides and `"manual_open"`: an entry
  that nets against a manual position opened between the executor's read and its order
  closes that position without a row.
- `NoPhantomFlatten` with `"main_gap"`: the native clearinghouse counts as queried
  even when its POST failed, so both guards believe a reading without it, although
  `trading_loop.py:590-593` says that "a bad read can NEVER trigger a flatten".  With
  `"cold_gap"` (the idle-capital guard forgets at a restart) and `"ledger_gap"` (a
  failed lookup reads as no contributions).
- `NoPhantomFlatten` and `PnlIsTrading` excuse figures that are `astray`.  A tick that reads
  the equity after a transfer and the ledger before it shows takes the transfer for PnL:
  `memory.py:301-308` records a deposit of $132 that did so, and guards only the day's
  peak against it.  A withdrawal in that window is a loss to the kill switch, which
  flattens a book that lost nothing.  What the properties say is that this ends with the
  first reading believed after the ledger has caught up, and leaves no trace.  A clearinghouse
  that is given up on is missing from every reading from then on, and so is its equity: the
  day looks lost by as much.  Ten misses make it so, but `trading_loop.py:407` and `:492`
  say "consecutive" and "in a row", and the code resets the streak only with a reading
  that it accepts: two clearinghouses that fail by turns veto each other's readings and add up
  their streaks though each answers every other time.  And after a withdrawal that the spike
  filter refuses, the kill switch weighs the PnL of the old reading with the equity of the
  new one, which implies a smaller start of day and so a smaller limit.
- `NoPhantomFlatten` counts a flatten as earned if the book had lost the limit when a
  reading was last believed: while a close fails and readings are filtered as spikes, the
  kill switch goes on with that PnL although the account may have recovered.
- `BaselineOncePerDay` has every heartbeat's `memory.flush` succeed.  If it fails
  (`memory.py:279-288`) and the process dies before the next one, the day is stamped anew.
- `BreachIsFlattened` assumes that a heartbeat whose read is complete, and whose closes all
  succeed, comes now and then.
- `PnlIsTrading` with `"early_transfer"`: the first heartbeat ever stamps a level of 0.
  With `"carried_transfer"`: the first heartbeat of a day asks for the contributions
  since yesterday, so a transfer of the day before distorts the day.
- `HeldIsReviewed` (in `PositionLifecycle`) with every slot taken: the scan and the AI
  close-check of held coins are skipped.
- `WinnerNotHeldForLong` allows one breach less than the policy wants for each life of the
  process, since a restart may lose the count; and it says nothing of an exit that comes too
  early: a reset of the breach count alone is not saved, so a restart may bring an old
  count back.
- After an add the ratchet keeps the floor of the old basis, although
  `dsl_exit.py:179` says floors derive from the entry price anew.

Books:

- `OneBookPerPosition` and `EnteredOnce` with `"stall"`: a social_trending pass
  abandoned at its deadline (90 s) trades beside the loop, whose scrub drops its claim.
  The pass saves its poll clock after the fetch, which has a deadline of its own (30 s),
  and the recording, before it trades; so a second thread is started only if these take
  longer than the 90 s, or when the next poll is due and the first still trades.
- `OpenStaysClaimed` gives a native coin up when a read without the main clearinghouse is
  believed.  The failed request counts as answered (`hl_client.py:290`), the guards at
  `trading_loop.py:466-500` let it pass while a HIP-3 clearinghouse is funded, and the
  reconciliation and the scrub then drop tracker and claim of every open native position.
  Another book may claim the coin after that; that it does not enter it is the executor's
  own read (`EnteredOnce`, `ImplementsBook`, checked with such reads).  The owner is not
  given the claim back.
- `OpenStaysClaimed` leaves out xs_reversal: it prunes its claims from `positions`
  alone, so a refused read drops those of its open positions.  The executor's own
  read keeps such a coin from being entered again.

Entry memory:

- The gates protect the process that remembers.  The API server's copy is as old as
  its boot and never written, so it does not know of the loop's later losses and
  entries, nor after a restart of its own; the properties are about the loop's entries
  (`ExecutedOnce` about each process's own).  The MCP process has no memory at all.
- `LossBlocksReentry` excuses a death between the row and the cooldown, `ExecutedOnce` and
  `ReentryCapped` an entry that a death before the next flush made the loop forget,
  `RowsMatchEntries` the row that follows a close which left none.
- `ExecutedOnce` and `ReentryCapped` need `MAX_TRADES` (100) to exceed the entries of
  a window: what the list has forgotten counts no more.

Configuration:

- `OffHolds` and `LiveIsEarned` excuse a stale writer: an API request that read the
  file before `await request.json()`, or a cycle that read it up to 25 minutes ago and
  writes the whole of it back, undoes an OFF or a demotion that landed in between.
- The loop merges what it reads with defaults whose books are live: an unreadable file
  is safe for the mode, which then is not LIVE, but an operator's next update merges
  into those defaults and brings back every shipped book.
- An in-place write that is cut short leaves a file on which every later cycle raises
  until an operator writes, although `autonomous_cycle.py` says after an abort that it
  "re-runs on the next scheduled tick"; `BleedStops` holds because an unreadable file
  does not trade.  All writers share one temporary file, so that a refused update may
  still take effect and a torn file may be renamed into place: "atomic replace"
  (`config_store.py:196`) holds for one writer at a time (`TornOnlyInPlace`).

Supervision and scheduler:

- `OperatorAlwaysWins` states what `supervise_processes.py:21-25` says and fails: a
  pass that read the halt file before the operator's stop still starts what it had
  decided to.  `OperatorWins` is what holds.
- `OperatorWins` gives a stop up as soon as two scripts have the temporary file of
  `restart.sh:103-107` open at once: one truncates what the other wrote, and what is moved
  into place may be a mixture, which reads as no marks at all.  The script that finds the
  file moved ends (`set -e`), before it starts what it has stopped.
- A component whose watcher is dead as well stays down (`WatchRevives`): with loop and
  scheduler both dead, or after a `restart` whose server dies at once, nobody revives
  anything.  It is also excused for the rest of the hour once as many tries as are allowed
  have come to their end; a try that hung is none of these, and another pass has to bring
  the component back.  Two passes that overlap can start two trading loops.
- `CrashLoopEnds` allows a try more than `MAX_RESTARTS` for each pass that dies of its
  restart, since `main` writes the history last, and for each that begins beside a pass
  of a dead host, since both write the whole history.
- An occurrence that was claimed and whose scheduler died before starting it is
  skipped, the price of starting no occurrence twice.  `OneCopyAtATime` fails with
  `"crash"` and with `"force"`: a restarted scheduler does not know the processes its
  predecessor left.
- `OncePerOccurrence` excuses a claim that did not reach a full disk,
  which makes the job start at every tick, and one a forced run wrote over, or a temporary
  file that it shared with the daemon (`scheduler.py:165-168`), of which either content, a
  mixture that reads as empty, or nothing may be renamed; a forced run also erases its
  job's `last_ok`.
- `SlotsSuffice` is an assumption: alerts, supervisor and trends-price have shorter
  cadences than `TIMEOUT_S` and, hanging together, would hold all three slots.
- When the clocks go back, a daily job starts an extra time (calendar arithmetic is
  not modelled).

Rate limiter: the bucket is per process.  By `WindowBound` a minute may hold 300 + 900
in the loop and 60 + 120 in the server, 1,380 against the 1,200 the exchange allows per
address; the comment at `rate_limit.py:78` counts the refills only.

## 7. Plan

1. Done: the modules above in the order of what can lose money (positions, the kill
   switch, the exit floor, the books, the entry gates), then what keeps the process
   fed and running (configuration, supervision, scheduler, rate limiter), their runs,
   the refinements of the rate limiter and of the two modules that contain the tick, and
   theorems about every module and every safety property of the runs.
   `PositionLifecycle` and `BookClaims` are kept apart because the first needs sides and
   policies and the second books and threads, and their product is out of TLC's reach;
   `PositionBook` is what they have in common.
2. Next: the account as a second reader of the exchange inside `PositionLifecycle`, so that
   a flatten of the kill switch and the closes it causes are one model; the sticky stops
   and brackets of the executor; the boundaries of the MCP server's other tools that write.

## 8. Not modelled

- Capital flows, shadow ledgers, data loggers: append-only records; no decision of the
  loop depends on them, and what the cycle reads of the ledgers is the free choice
  `grade` of `AgentConfig`.
- Research, AI review, perception, news: calls to language models and feeds.  Their
  verdicts are nondeterministic inputs of the tick.
- Sizing, indicators, backtests, studies, the research archive: floating-point
  formulas and offline scripts without shared state.  They are most of the
  repository's lines.
- Market metadata: caches; the set of clearinghouses is a constant.
- Dashboard, metrics, trend engine, data API, demo, events, wallet UI, web assets:
  read-only views and services without a part in trading.
- Auth service: a separate web service.
- Operations scripts: one-shot tools run by the operator, but for those named above.
