--------------------------- MODULE BookClaims ---------------------------
(***************************************************************************)
(* The strategy books and the registry that keeps them off each other's    *)
(* coins (rebalancer_owned.ClaimsRegistry).                                *)
(*                                                                         *)
(* Each cycle the loop reads the account, lets exits run, releases claims  *)
(* of coins it does not see, and calls the books one after the other.  A   *)
(* book prunes its own claims, claims a candidate, sends it through the    *)
(* executor, and releases the claim when it is told "not opened".  The     *)
(* last book, social_trending, runs in a thread of its own that the loop   *)
(* abandons at a deadline; the thread lives on and may trade later, beside *)
(* the loop, from the positions of the cycle that started it.              *)
(*                                                                         *)
(* Sides are left out: every book's entry is a fill in the coin's position.*)
(***************************************************************************)
EXTENDS Naturals, Sequences, FiniteSets

CONSTANTS
    Coins,
    Native,         \* coins of the main clearinghouse; the others are HIP-3
    LoopBooks,      \* the books the loop calls itself ...
    Order,          \* ... in this order
    Late,           \* the book that runs under a deadline (social_trending)
    SnapOnly,       \* books that see only `positions`, not the DSL registry (xs_reversal)
    Eager,          \* books that save the registry after every pass
    Threads,        \* names for the threads of the late book
    Events,         \* which environment events and faults can happen
    MaxOpens,       \* bound: positions ever opened on one coin
    MaxCrashes      \* bound: restarts of the process

AllEvents == {"gap", "main_gap", "stall", "reject", "lost_answer", "stop_fill",
              "manual_open", "crash"}

Books  == LoopBooks \cup {Late}     \* active_claim_books()
NoBook == "no_book"
Gone   == "gone"            \* a book that was deleted from the code
NoCoin == "no_coin"
Loop   == "loop"
Sighted == "sighted"        \* the heartbeat's read was believed ...
Blind   == "blind"          \* ... or refused (equity 0)
Actors == Threads \cup {Loop}

ASSUME ClaimsAssumption ==
    /\ Native \subseteq Coins
    /\ Order \in Seq(LoopBooks) /\ Late \notin LoopBooks
    /\ SnapOnly \subseteq Books /\ Eager \subseteq Books
    /\ NoBook \notin Books /\ Gone \notin Books
    /\ NoCoin \notin Coins /\ Loop \notin Threads
    /\ Threads \cap {"heartbeat", Sighted, Blind, "books"} = {}
    /\ Events \subseteq AllEvents
    /\ MaxOpens \in Nat /\ MaxCrashes \in Nat

VARIABLES
    \* the exchange
    held,       \* coins with a position
    fills,      \* coin -> book -> entry fills in the position held now (ghost)
    opens,      \* coin -> positions ever opened (bounded)
    \* the process
    pc,         \* where the cycle is
    idx,        \* the next book of Order
    snap,       \* the cycle's `positions`
    tracked,    \* coins in the DSL registry, which survives a restart
    claims,     \* coin -> owner, the registry in memory
    loaded,     \* the registry singleton exists
    job,        \* actor -> the book pass it is in
    crashes,
    \* on disk
    file,       \* .rebalancer_claims.json
    \* ghost
    owner       \* coin -> the book whose finished pass opened the position held now,
                \* unless a believed read has hidden that position since

exchange == <<held, fills, opens>>
cycle    == <<pc, idx, snap>>
registry == <<claims, loaded, file>>
vars     == <<held, fills, opens, pc, idx, snap, tracked, claims, loaded, job,
              crashes, file, owner>>

Claims   == [Coins -> Books \cup {NoBook}]
Unclaimed == [c \in Coins |-> NoBook]

\* A book pass: its stage, book, the `positions` it was called with, the
\* candidates left, the coin in the executor, and the coins it has opened.
Idle == [at |-> "idle", book |-> NoBook, positions |-> {}, cand |-> {},
         coin |-> NoCoin, opened |-> {}]
Stages == {"idle", "fetch", "pick", "read", "order"}
Jobs == [at : Stages, book : Books \cup {NoBook}, positions : SUBSET Coins,
         cand : SUBSET Coins, coin : Coins \cup {NoCoin}, opened : SUBSET Coins]
---------------------------------------------------------------------------
(* The registry.                                                           *)

\* _enforce_active_books: owners that are no longer active are dropped.
Scrubbed(f) == [c \in Coins |-> IF f[c] \in Books THEN f[c] ELSE NoBook]

\* get_claims_registry(): read from disk once per process, then shared.
Registry == IF loaded THEN claims ELSE Scrubbed(file)
OnDisk   == IF loaded THEN file ELSE Scrubbed(file)

\* prune_to(live, book).
PrunedTo(reg, live, b) ==
    [c \in Coins |-> IF reg[c] = b /\ c \notin live THEN NoBook ELSE reg[c]]

\* release(coin, book): only the owner's.
Released(reg, c, b) == IF reg[c] = b THEN [reg EXCEPT ![c] = NoBook] ELSE reg

ClaimedByOthers(reg, b) == {c \in Coins : reg[c] \notin {b, NoBook}}
---------------------------------------------------------------------------
Init ==
    /\ held = {} /\ opens = [c \in Coins |-> 0]
    /\ fills = [c \in Coins |-> [b \in Books |-> 0]]
    /\ pc = "heartbeat" /\ idx = 1 /\ snap = {} /\ tracked = {}
    /\ claims = Unclaimed /\ loaded = FALSE
    /\ file \in [Coins -> Books \cup {NoBook, Gone}]    \* left by an earlier version
    /\ job = [a \in Actors |-> Idle]
    /\ crashes = 0
    /\ owner = Unclaimed

\* A position ends: every coin of S is flat.
Flatten(S) ==
    /\ held' = held \ S
    /\ fills' = [c \in Coins |-> IF c \in S THEN [b \in Books |-> 0] ELSE fills[c]]
    /\ owner' = [c \in Coins |-> IF c \in S THEN NoBook ELSE owner[c]]
    /\ UNCHANGED opens
---------------------------------------------------------------------------
(* The cycle.                                                              *)

\* What a read that is believed may show.  One that misses a HIP-3 clearinghouse is
\* refused if that backs a tracker.  A failed request to the main one counts as
\* answered, with no position in it: it is refused for its zero equity unless a
\* HIP-3 clearinghouse is funded, and no tracker is asked.
Believable(S) ==
    /\ \/ held \cap Native \subseteq S
       \/ "main_gap" \in Events /\ S \cap Native = {}
    /\ (held \cap tracked) \ Native \subseteq S
    /\ held \ Native \subseteq S \/ "gap" \in Events

\* The account read and the reconciliation of trackers.  A refused read shows no
\* positions at all and leaves the trackers.
Heartbeat ==
    /\ pc = "heartbeat"
    /\ \/ \E S \in SUBSET held :
             /\ Believable(S)
             /\ snap' = S /\ tracked' = S /\ pc' = Sighted
             /\ owner' = [c \in Coins |-> IF c \in Native \ S THEN NoBook ELSE owner[c]]
       \/ /\ "gap" \in Events
          /\ snap' = {} /\ UNCHANGED <<tracked, owner>> /\ pc' = Blind
    /\ UNCHANGED <<exchange, idx, registry, job, crashes>>

\* Mutants: the scrub also trusts a read that was refused, and it is left to the
\* books.
PruneAlways ==
    /\ pc \in {Sighted, Blind}
    /\ claims' = [c \in Coins |-> IF c \in snap THEN Registry[c] ELSE NoBook]
    /\ file' = IF claims' # Registry THEN claims' ELSE OnDisk
    /\ loaded' = TRUE
    /\ pc' = "books" /\ idx' = 1
    /\ UNCHANGED <<exchange, snap, tracked, job, crashes, owner>>

PruneNever ==
    /\ pc \in {Sighted, Blind}
    /\ pc' = "books" /\ idx' = 1
    /\ UNCHANGED <<exchange, snap, tracked, registry, job, crashes, owner>>

\* prune_claims_to_live, when equity > 0; it saves if it dropped anything.
PruneClaims ==
    /\ pc \in {Sighted, Blind}
    /\ IF pc = Sighted
       THEN /\ claims' = [c \in Coins |-> IF c \in snap THEN Registry[c] ELSE NoBook]
            /\ file' = IF claims' # Registry THEN claims' ELSE OnDisk
            /\ loaded' = TRUE
       ELSE UNCHANGED registry
    /\ pc' = "books" /\ idx' = 1
    /\ UNCHANGED <<exchange, snap, tracked, job, crashes, owner>>
---------------------------------------------------------------------------
(* A pass of book b by actor a.                                            *)

\* held_coins_with_dsl(positions); xs_reversal takes `positions` alone.
HeldFor(b, positions) == IF b \in SnapOnly THEN positions ELSE positions \cup tracked

\* The pass has candidates: prune_to, claimed_by_others, and the filter on both.
Begins(a, b, positions) ==
    LET seen == HeldFor(b, positions)
        reg  == PrunedTo(Registry, seen, b)
    IN  /\ claims' = reg /\ loaded' = TRUE /\ file' = OnDisk
        /\ \E S \in SUBSET (Coins \ (seen \cup ClaimedByOthers(reg, b))) :
              job' = [job EXCEPT ![a] = [Idle EXCEPT !.at = "pick", !.book = b,
                                         !.positions = positions, !.cand = S]]

\* Throttled, disabled, out of slots, or without a candidate.
NextBook ==
    /\ pc = "books" /\ idx <= Len(Order) /\ job[Loop].at = "idle"
    /\ idx' = idx + 1
    /\ \/ Begins(Loop, Order[idx], snap)
       \/ UNCHANGED <<registry, job>>
    /\ UNCHANGED <<exchange, pc, snap, tracked, crashes, owner>>

\* claims.claim(coin, book), under max_new_per_cycle = 1.
Claim(a) ==
    /\ job[a].at = "pick" /\ job[a].opened = {}
    /\ \E c \in job[a].cand :
          LET b == job[a].book
              granted == claims[c] \in {NoBook, b}
          IN  /\ claims' = IF granted THEN [claims EXCEPT ![c] = b] ELSE claims
              /\ job' = [job EXCEPT ![a].cand = @ \ {c},
                                    ![a].at = IF granted THEN "read" ELSE "pick",
                                    ![a].coin = IF granted THEN c ELSE NoCoin]
    /\ UNCHANGED <<exchange, cycle, tracked, loaded, file, crashes, owner>>

NotOpened(a) ==
    /\ claims' = Released(claims, job[a].coin, job[a].book)
    /\ job' = [job EXCEPT ![a].at = "pick", ![a].coin = NoCoin]

\* Mutant: the executor neither reads the account nor asks the DSL registry.
ExecutorTrusts(a) ==
    /\ job[a].at = "read"
    /\ \/ /\ job' = [job EXCEPT ![a].at = "order"]
          /\ UNCHANGED claims
       \/ NotOpened(a)
    /\ UNCHANGED <<exchange, cycle, tracked, loaded, file, crashes, owner>>

\* maybe_execute up to the order: the live account and the DSL registry must both
\* show the coin flat, and any other gate may refuse.
ExecutorReads(a) ==
    /\ job[a].at = "read"
    /\ \/ /\ job[a].coin \notin held \cup tracked
          /\ job' = [job EXCEPT ![a].at = "order"]
          /\ UNCHANGED claims
       \/ NotOpened(a)
    /\ UNCHANGED <<exchange, cycle, tracked, loaded, file, crashes, owner>>

Fills(c, b) ==
    /\ opens[c] < MaxOpens \/ c \in held
    /\ held' = held \cup {c}
    /\ fills' = [fills EXCEPT ![c][b] = @ + 1]
    /\ opens' = IF c \in held THEN opens ELSE [opens EXCEPT ![c] = @ + 1]

\* The order fills and is registered with the DSL; or is rejected; or fills while
\* its answer is lost, which the book takes for "not opened".
ExecutorOrders(a) ==
    LET c == job[a].coin
        b == job[a].book
    IN  /\ job[a].at = "order"
        /\ \/ /\ Fills(c, b)
              /\ tracked' = tracked \cup {c}
              /\ job' = [job EXCEPT ![a].at = "pick", ![a].coin = NoCoin,
                                    ![a].opened = {c}]
              /\ UNCHANGED claims
           \/ /\ "reject" \in Events \/ (opens[c] = MaxOpens /\ c \notin held)
              /\ NotOpened(a) /\ UNCHANGED <<exchange, tracked>>
           \/ /\ "lost_answer" \in Events
              /\ Fills(c, b) /\ NotOpened(a) /\ UNCHANGED tracked
        /\ UNCHANGED <<cycle, loaded, file, crashes, owner>>

\* The end of the pass: claims.save(), in some books only if something opened.
Finish(a) ==
    /\ job[a].at = "pick"
    /\ job[a].opened # {} \/ job[a].cand = {}
    /\ file' = IF job[a].opened # {} \/ job[a].book \in Eager THEN claims ELSE file
    /\ owner' = [c \in Coins |-> IF c \in job[a].opened \cap held
                                 THEN job[a].book ELSE owner[c]]
    /\ job' = [job EXCEPT ![a] = Idle]
    /\ UNCHANGED <<exchange, cycle, tracked, claims, loaded, crashes>>

Pass(a) == Claim(a) \/ ExecutorReads(a) \/ ExecutorOrders(a) \/ Finish(a)
---------------------------------------------------------------------------
(* social_trending under with_deadline.                                    *)

\* The books are done.  The late book's thread starts with a slow fetch, or its
\* poll interval has not passed.
StartLate ==
    /\ pc = "books" /\ idx > Len(Order) /\ job[Loop].at = "idle"
    /\ \/ \E t \in Threads :
             /\ job[t].at = "idle"
             /\ job' = [job EXCEPT ![t] = [Idle EXCEPT !.at = "fetch", !.book = Late,
                                           !.positions = snap]]
             /\ pc' = t
       \/ pc' = "heartbeat" /\ UNCHANGED job
    /\ UNCHANGED <<exchange, idx, snap, tracked, registry, crashes, owner>>

\* The fetch answers: with nothing to trade, or with candidates.
Fetched(t) ==
    /\ job[t].at = "fetch"
    /\ \/ Begins(t, Late, job[t].positions)
       \/ job' = [job EXCEPT ![t] = Idle] /\ UNCHANGED registry
    /\ UNCHANGED <<exchange, cycle, tracked, crashes, owner>>

\* The loop waits for the thread, and gives up on one that stalls.
Joined ==
    /\ pc \in Threads
    /\ job[pc].at = "idle" \/ "stall" \in Events
    /\ pc' = "heartbeat"
    /\ UNCHANGED <<exchange, idx, snap, tracked, registry, job, crashes, owner>>
---------------------------------------------------------------------------
(* Everybody else.                                                         *)

\* monitor_exits before the books, the AI and the second monitor_exits after them
\* close positions and deregister them, ...
LoopCloses ==
    /\ pc \in {Sighted, Blind, "heartbeat"}
    /\ \E c \in tracked \cap held : Flatten({c}) /\ tracked' = tracked \ {c}
    /\ UNCHANGED <<cycle, registry, job, crashes>>

\* ... a resting stop or the operator does not.
StopFill ==
    /\ "stop_fill" \in Events
    /\ \E c \in held : Flatten({c})
    /\ UNCHANGED <<cycle, tracked, registry, job, crashes>>

ManualOpen ==
    /\ "manual_open" \in Events
    /\ \E c \in Coins \ held :
          /\ opens[c] < MaxOpens
          /\ held' = held \cup {c} /\ opens' = [opens EXCEPT ![c] = @ + 1]
    /\ UNCHANGED <<fills, cycle, tracked, registry, job, crashes, owner>>

\* The process dies or is re-execed: its threads die with it, the registry is
\* read again from the file.
Crash ==
    /\ "crash" \in Events /\ crashes < MaxCrashes
    /\ crashes' = crashes + 1
    /\ pc' = "heartbeat" /\ idx' = 1 /\ snap' = {}
    /\ claims' = Unclaimed /\ loaded' = FALSE
    /\ job' = [a \in Actors |-> Idle]
    /\ UNCHANGED <<exchange, tracked, file, owner>>
---------------------------------------------------------------------------
LoopStep == Heartbeat \/ PruneClaims \/ NextBook \/ Pass(Loop) \/ StartLate \/ Joined

LateStep == \E t \in Threads : Fetched(t) \/ Pass(t)

Next == LoopStep \/ LateStep \/ LoopCloses \/ StopFill \/ ManualOpen \/ Crash

Spec == Init /\ [][Next]_vars

\* The loop and its threads run, and the account read succeeds now and then.
CleanHeartbeat == Heartbeat /\ pc' = Sighted /\ snap' = held

FairSpec == Spec /\ WF_vars(LoopStep) /\ WF_vars(LateStep) /\ SF_vars(CleanHeartbeat)
---------------------------------------------------------------------------
TypeOK ==
    /\ held \subseteq Coins /\ opens \in [Coins -> Nat]
    /\ fills \in [Coins -> [Books -> Nat]]
    /\ pc \in {"heartbeat", Sighted, Blind, "books"} \cup Threads
    /\ idx \in 1..(Len(Order) + 1)
    /\ snap \subseteq Coins /\ tracked \subseteq Coins
    /\ claims \in Claims /\ loaded \in BOOLEAN
    /\ file \in [Coins -> Books \cup {NoBook, Gone}]
    /\ job \in [Actors -> Jobs]
    /\ crashes \in Nat
    /\ owner \in Claims

EntryBooks(c) == {b \in Books : fills[c][b] > 0}

\* A coin's position is entered once: not by two books, and not twice by one,
\* over lost answers, refused reads and restarts.
EnteredOnce ==
    \A c \in Coins : \A b \in EntryBooks(c) :
        fills[c][b] = 1 /\ EntryBooks(c) = {b}

\* The books together keep what PositionBook promises of the account, over every
\* interleaving of their passes with the operator's trades.
Book == INSTANCE PositionBook WITH Traders <- Books, entries <- fills

ImplementsBook == Book!Spec

\* At most one book holds a coin: two books would net on the exchange, and the
\* exit of one would close the other's leg.
OneBookPerPosition == \A c \in Coins : Cardinality(EntryBooks(c)) <= 1

\* A position whose book finished its pass stays claimed by it for as long as it is
\* open, over prunes, lost answers, restarts, refused reads and reads that miss HIP-3
\* clearinghouses.  Only a believed read without the main one, which the code cannot
\* tell from an account without native positions, frees a coin that is open.
OpenStaysClaimed ==
    \A c \in Coins : owner[c] \notin SnapOnly \cup {NoBook} => Registry[c] = owner[c]

\* A claim does not outlive its position for ever: the coin comes free for the
\* other books although the owner's own pass may not run.
ClaimsComeFree ==
    \A c \in Coins :
        (loaded /\ Registry[c] # NoBook /\ c \notin held)
            ~> (Registry[c] = NoBook \/ c \in held)
===========================================================================
