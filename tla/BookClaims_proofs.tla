------------------------ MODULE BookClaims_proofs ------------------------
(***************************************************************************)
(* Theorems about BookClaims, for every set of coins, books and threads    *)
(* and every bound.                                                        *)
(***************************************************************************)
EXTENDS BookClaims, TLAPS

(* The registry's operations return a registry. *)
LEMMA RegistryType == ASSUME TypeOK PROVE Registry \in Claims
    BY DEF Registry, Scrubbed, TypeOK, Claims

LEMMA PrunedType ==
    ASSUME NEW reg \in Claims, NEW S, NEW b
    PROVE  PrunedTo(reg, S, b) \in Claims
    BY DEF PrunedTo, Claims

LEMMA ReleasedType ==
    ASSUME NEW reg \in Claims, NEW c, NEW b
    PROVE  Released(reg, c, b) \in Claims
    BY DEF Released, Claims

(* A registry may be written to the file. *)
FileOK == file \in [Coins -> Books \cup {NoBook, Gone}]

LEMMA ClaimsFile == Claims \subseteq [Coins -> Books \cup {NoBook, Gone}]
    BY DEF Claims

LEMMA OnDiskType == ASSUME TypeOK PROVE OnDisk \in [Coins -> Books \cup {NoBook, Gone}]
    BY DEF OnDisk, Scrubbed, TypeOK

LEMMA FlattenType ==
    ASSUME TypeOK, NEW S, Flatten(S)
    PROVE  /\ held' \subseteq Coins /\ opens' \in [Coins -> Nat]
           /\ fills' \in [Coins -> [Books -> Nat]] /\ owner' \in Claims
    BY DEF Flatten, TypeOK, Claims

LEMMA FillsType ==
    ASSUME TypeOK, NEW c \in Coins, NEW b \in Books, Fills(c, b)
    PROVE  /\ held' \subseteq Coins /\ opens' \in [Coins -> Nat]
           /\ fills' \in [Coins -> [Books -> Nat]]
<1>1. held' \subseteq Coins /\ opens' \in [Coins -> Nat]
    BY DEF Fills, TypeOK
<1>2. fills[c][b] + 1 \in Nat /\ fills[c] \in [Books -> Nat]
    BY DEF TypeOK
<1>3. [fills[c] EXCEPT ![b] = fills[c][b] + 1] \in [Books -> Nat]
    BY <1>2
<1>4. fills' = [fills EXCEPT ![c] = [fills[c] EXCEPT ![b] = fills[c][b] + 1]]
    BY DEF Fills, TypeOK
<1>5. fills' \in [Coins -> [Books -> Nat]]
    BY <1>3, <1>4 DEF TypeOK
<1> QED  BY <1>1, <1>5

(* A pass keeps the shape of a job. *)
LEMMA NewJob ==
    ASSUME job \in [Actors -> Jobs], NEW a \in Actors, NEW r \in Jobs
    PROVE  [job EXCEPT ![a] = r] \in [Actors -> Jobs]
    OBVIOUS

LEMMA IdleJob == Idle \in Jobs
    BY DEF Idle, Jobs, Stages

(* What each step of a pass does to its job: the other actors keep theirs. *)
Others(a) == \A o \in Actors : o # a => job'[o] = job[o]

LEMMA JobSet ==
    ASSUME TypeOK, NEW a \in Actors, NEW r \in Jobs, job' = [job EXCEPT ![a] = r]
    PROVE  job' \in [Actors -> Jobs] /\ job'[a] = r /\ Others(a)
    BY DEF TypeOK, Others

LEMMA NotOpenedJob ==
    ASSUME TypeOK, NEW a \in Actors, NotOpened(a)
    PROVE  /\ job' \in [Actors -> Jobs] /\ Others(a)
           /\ job'[a].at = "pick" /\ job'[a].coin = NoCoin
           /\ job'[a].book = job[a].book /\ job'[a].cand = job[a].cand
           /\ job'[a].opened = job[a].opened
<1> DEFINE r == [job[a] EXCEPT !.at = "pick", !.coin = NoCoin]
<1>1. job[a] \in Jobs
    BY DEF TypeOK
<1>2. job' = [job EXCEPT ![a] = r]
    BY DEF NotOpened, TypeOK
<1>3. /\ r \in Jobs /\ r.at = "pick" /\ r.coin = NoCoin
      /\ r.book = job[a].book /\ r.cand = job[a].cand /\ r.opened = job[a].opened
    BY <1>1 DEF Jobs, Stages
<1> HIDE DEF r
<1> QED  BY <1>2, <1>3, JobSet

LEMMA ClaimJob ==
    ASSUME TypeOK, NEW a \in Actors, Claim(a)
    PROVE  \E c \in Coins :
             /\ job' \in [Actors -> Jobs] /\ Others(a)
             /\ c \in job[a].cand /\ job'[a].cand = job[a].cand \ {c}
             /\ job'[a].book = job[a].book /\ job'[a].opened = job[a].opened
             /\ \/ /\ claims[c] \in {NoBook, job[a].book}
                   /\ claims' = [claims EXCEPT ![c] = job[a].book]
                   /\ job'[a].at = "read" /\ job'[a].coin = c
                \/ /\ claims' = claims
                   /\ job'[a].at = "pick" /\ job'[a].coin = NoCoin
<1>1. job[a] \in Jobs
    BY DEF TypeOK
<1>2. PICK c \in job[a].cand :
         LET b == job[a].book
             granted == claims[c] \in {NoBook, b}
         IN  /\ claims' = IF granted THEN [claims EXCEPT ![c] = b] ELSE claims
             /\ job' = [job EXCEPT ![a].cand = @ \ {c},
                                   ![a].at = IF granted THEN "read" ELSE "pick",
                                   ![a].coin = IF granted THEN c ELSE NoCoin]
    BY DEF Claim
<1> DEFINE granted == claims[c] \in {NoBook, job[a].book}
           at == IF granted THEN "read" ELSE "pick"
           coin == IF granted THEN c ELSE NoCoin
           r == [job[a] EXCEPT !.cand = job[a].cand \ {c}, !.at = at, !.coin = coin]
<1>3. c \in Coins /\ at \in Stages /\ coin \in Coins \cup {NoCoin}
    BY <1>1 DEF Jobs, Stages
<1>4. job' = [job EXCEPT ![a].cand = @ \ {c}, ![a].at = at, ![a].coin = coin]
    BY <1>2
<1>5. /\ claims' = IF granted THEN [claims EXCEPT ![c] = job[a].book] ELSE claims
      /\ at = IF granted THEN "read" ELSE "pick"
      /\ coin = IF granted THEN c ELSE NoCoin
    BY <1>2
<1> HIDE DEF at, coin
<1>6. job' = [job EXCEPT ![a] = r]
    BY <1>4 DEF TypeOK
<1>7. /\ r \in Jobs /\ r.at = at /\ r.coin = coin /\ r.cand = job[a].cand \ {c}
      /\ r.book = job[a].book /\ r.opened = job[a].opened
    BY <1>1, <1>3 DEF Jobs
<1> HIDE DEF r
<1>8. job' \in [Actors -> Jobs] /\ Others(a) /\ job'[a] = r
    BY <1>6, <1>7, JobSet
<1> QED  BY <1>3, <1>5, <1>7, <1>8

LEMMA OrderedJob ==
    ASSUME TypeOK, NEW a \in Actors, job' = [job EXCEPT ![a].at = "order"]
    PROVE  /\ job' \in [Actors -> Jobs] /\ Others(a)
           /\ job'[a].at = "order" /\ job'[a].coin = job[a].coin
           /\ job'[a].book = job[a].book /\ job'[a].cand = job[a].cand
           /\ job'[a].opened = job[a].opened
<1> DEFINE r == [job[a] EXCEPT !.at = "order"]
<1>1. job[a] \in Jobs
    BY DEF TypeOK
<1>2. job' = [job EXCEPT ![a] = r]
    BY DEF TypeOK
<1>3. /\ r \in Jobs /\ r.at = "order" /\ r.coin = job[a].coin
      /\ r.book = job[a].book /\ r.cand = job[a].cand /\ r.opened = job[a].opened
    BY <1>1 DEF Jobs, Stages
<1> HIDE DEF r
<1> QED  BY <1>2, <1>3, JobSet

LEMMA OpenedJob ==
    ASSUME TypeOK, NEW a \in Actors, NEW c \in Coins,
           job' = [job EXCEPT ![a].at = "pick", ![a].coin = NoCoin, ![a].opened = {c}]
    PROVE  /\ job' \in [Actors -> Jobs] /\ Others(a)
           /\ job'[a].at = "pick" /\ job'[a].coin = NoCoin
           /\ job'[a].book = job[a].book /\ job'[a].cand = job[a].cand
           /\ job'[a].opened = {c}
<1> DEFINE r == [job[a] EXCEPT !.at = "pick", !.coin = NoCoin, !.opened = {c}]
<1>1. job[a] \in Jobs
    BY DEF TypeOK
<1>2. job' = [job EXCEPT ![a] = r]
    BY DEF TypeOK
<1>3. /\ r \in Jobs /\ r.at = "pick" /\ r.coin = NoCoin
      /\ r.book = job[a].book /\ r.cand = job[a].cand /\ r.opened = {c}
    BY <1>1 DEF Jobs, Stages
<1> HIDE DEF r
<1> QED  BY <1>2, <1>3, JobSet

LEMMA BeginsJob ==
    ASSUME TypeOK, NEW a \in Actors, NEW b \in Books, NEW P \in SUBSET Coins,
           Begins(a, b, P)
    PROVE  /\ job' \in [Actors -> Jobs] /\ Others(a)
           /\ job'[a].at = "pick" /\ job'[a].coin = NoCoin /\ job'[a].book = b
           /\ job'[a].cand \subseteq Coins \ HeldFor(b, P)
           /\ job'[a].opened = {}
<1>1. PICK S \in SUBSET (Coins \ HeldFor(b, P)) :
         job' = [job EXCEPT ![a] = [Idle EXCEPT !.at = "pick", !.book = b,
                                    !.positions = P, !.cand = S]]
    BY DEF Begins
<1> DEFINE r == [Idle EXCEPT !.at = "pick", !.book = b, !.positions = P, !.cand = S]
<1>2. /\ r \in Jobs /\ r.at = "pick" /\ r.coin = NoCoin /\ r.book = b
      /\ r.cand = S /\ r.opened = {}
    BY DEF Idle, Jobs, Stages
<1>3. job' = [job EXCEPT ![a] = r]
    BY <1>1
<1> HIDE DEF r
<1>4. job' \in [Actors -> Jobs] /\ Others(a) /\ job'[a] = r
    BY <1>2, <1>3, JobSet
<1> QED  BY <1>2, <1>4

LEMMA FetchJob ==
    ASSUME TypeOK, NEW t \in Threads,
           job' = [job EXCEPT ![t] = [Idle EXCEPT !.at = "fetch", !.book = Late,
                                                  !.positions = snap]]
    PROVE  /\ job' \in [Actors -> Jobs] /\ Others(t)
           /\ job'[t].at = "fetch" /\ job'[t].opened = {} /\ job'[t].cand = {}
           /\ job'[t].coin = NoCoin
<1> DEFINE r == [Idle EXCEPT !.at = "fetch", !.book = Late, !.positions = snap]
<1>1. /\ r \in Jobs /\ r.at = "fetch" /\ r.opened = {} /\ r.cand = {} /\ r.coin = NoCoin
    BY DEF Idle, Jobs, Stages, Books, TypeOK
<1>2. t \in Actors
    BY DEF Actors
<1> HIDE DEF r
<1> QED  BY <1>1, <1>2, JobSet DEF r

LEMMA IdledJob ==
    ASSUME TypeOK, NEW a \in Actors, job' = [job EXCEPT ![a] = Idle]
    PROVE  job' \in [Actors -> Jobs] /\ Others(a) /\ job'[a] = Idle
    BY IdleJob, JobSet

LEMMA BeginsRegistry ==
    ASSUME TypeOK, NEW a, NEW b, NEW P, Begins(a, b, P)
    PROVE  claims' \in Claims /\ loaded' \in BOOLEAN /\ FileOK'
<1>1. claims' \in Claims
    BY RegistryType, PrunedType DEF Begins
<1> QED  BY <1>1, OnDiskType DEF Begins, FileOK
---------------------------------------------------------------------------
(* Types are kept only by passes that carry what their stage needs: the executor is
   called with a coin and a book, and a pass that may still open has opened nothing. *)
ShapeOf(a) ==
    /\ job[a].at \in {"pick", "read", "order"} => job[a].book \in Books /\ loaded
    /\ job[a].at \in {"read", "order"} => job[a].coin \in Coins
    /\ job[a].at # "pick" => job[a].opened = {}

PassShape == \A a \in Actors : ShapeOf(a)

Typed == TypeOK /\ PassShape

LEMMA TypedInit == Init => Typed
<1> SUFFICES ASSUME Init PROVE Typed
    OBVIOUS
<1>1. /\ held \subseteq Coins /\ opens \in [Coins -> Nat]
      /\ fills \in [Coins -> [Books -> Nat]]
      /\ pc \in {"heartbeat", Sighted, Blind, "books"} \cup Threads
      /\ snap \subseteq Coins /\ tracked \subseteq Coins
      /\ claims \in Claims /\ loaded \in BOOLEAN /\ crashes \in Nat /\ owner \in Claims
    BY DEF Init, Claims, Unclaimed
<1>2. idx \in 1..(Len(Order) + 1)
    BY ClaimsAssumption DEF Init
<1>3. job \in [Actors -> Jobs] /\ \A a \in Actors : job[a] = Idle
    BY IdleJob DEF Init
<1>4. PassShape
    BY <1>3 DEF PassShape, ShapeOf, Idle
<1> QED  BY <1>1, <1>2, <1>3, <1>4 DEF Init, TypeOK, Typed

\* A step that leaves the jobs and `loaded` alone leaves their shapes alone; one
\* that changes a single job has that job to show.
LEMMA SameShape ==
    ASSUME PassShape, UNCHANGED <<job, loaded>>
    PROVE  PassShape'
    BY DEF PassShape, ShapeOf

LEMMA OneShape ==
    ASSUME PassShape, NEW a \in Actors, Others(a), ShapeOf(a)', loaded => loaded'
    PROVE  PassShape'
    BY DEF PassShape, ShapeOf, Others

LEMMA TypedClaim ==
    ASSUME Typed, NEW a \in Actors, Claim(a)
    PROVE  Typed'
<1> USE DEF Typed, exchange, cycle
<1>1. PICK c \in Coins :
         /\ job' \in [Actors -> Jobs] /\ Others(a)
         /\ c \in job[a].cand /\ job'[a].cand = job[a].cand \ {c}
         /\ job'[a].book = job[a].book /\ job'[a].opened = job[a].opened
         /\ \/ /\ claims[c] \in {NoBook, job[a].book}
               /\ claims' = [claims EXCEPT ![c] = job[a].book]
               /\ job'[a].at = "read" /\ job'[a].coin = c
            \/ /\ claims' = claims
               /\ job'[a].at = "pick" /\ job'[a].coin = NoCoin
    BY ClaimJob
<1>2. job[a].book \in Books /\ loaded /\ job[a].opened = {}
    BY DEF Claim, PassShape, ShapeOf
<1>3. claims' \in Claims
    BY <1>1, <1>2 DEF TypeOK, Claims
<1>4. TypeOK'
    BY <1>1, <1>3 DEF Claim, TypeOK
<1>5. ShapeOf(a)' /\ loaded'
    BY <1>1, <1>2 DEF ShapeOf, Claim
<1> QED  BY <1>1, <1>4, <1>5, OneShape

LEMMA TypedReads ==
    ASSUME Typed, NEW a \in Actors, ExecutorReads(a)
    PROVE  Typed'
<1> USE DEF Typed, exchange, cycle
<1>1. /\ job[a].at = "read" /\ job[a].book \in Books /\ job[a].coin \in Coins
      /\ job[a].opened = {} /\ loaded /\ loaded' = loaded
    BY DEF ExecutorReads, PassShape, ShapeOf
<1>2. /\ job' \in [Actors -> Jobs] /\ Others(a) /\ claims' \in Claims
      /\ job'[a].at \in {"pick", "order"} /\ job'[a].book = job[a].book
      /\ job'[a].opened = {} /\ (job'[a].at = "order" => job'[a].coin = job[a].coin)
  <2>1. CASE job' = [job EXCEPT ![a].at = "order"] /\ UNCHANGED claims
      BY <1>1, <2>1, OrderedJob DEF TypeOK
  <2>2. CASE NotOpened(a)
      BY <1>1, <2>2, NotOpenedJob, ReleasedType DEF NotOpened, TypeOK
  <2> QED  BY <2>1, <2>2 DEF ExecutorReads
<1>3. TypeOK'
    BY <1>2 DEF ExecutorReads, TypeOK
<1>4. ShapeOf(a)'
    BY <1>1, <1>2 DEF ShapeOf
<1> QED  BY <1>1, <1>2, <1>3, <1>4, OneShape

LEMMA TypedOrders ==
    ASSUME Typed, NEW a \in Actors, ExecutorOrders(a)
    PROVE  Typed'
<1> USE DEF Typed, exchange, cycle
<1>1. /\ job[a].at = "order" /\ job[a].book \in Books /\ job[a].coin \in Coins
      /\ job[a].opened = {} /\ loaded /\ loaded' = loaded
    BY DEF ExecutorOrders, PassShape, ShapeOf
<1>2. /\ job' \in [Actors -> Jobs] /\ Others(a) /\ claims' \in Claims
      /\ job'[a].at = "pick" /\ job'[a].book = job[a].book
      /\ tracked' \subseteq Coins
      /\ \/ Fills(job[a].coin, job[a].book)
         \/ UNCHANGED exchange
  <2>1. CASE NotOpened(a) /\ (tracked' = tracked)
      BY <1>1, <2>1, NotOpenedJob, ReleasedType DEF NotOpened, TypeOK, ExecutorOrders
  <2>2. CASE /\ Fills(job[a].coin, job[a].book)
             /\ tracked' = tracked \cup {job[a].coin}
             /\ job' = [job EXCEPT ![a].at = "pick", ![a].coin = NoCoin,
                                   ![a].opened = {job[a].coin}]
             /\ UNCHANGED claims
      BY <1>1, <2>2, OpenedJob DEF TypeOK
  <2> QED  BY <2>1, <2>2 DEF ExecutorOrders
<1>3. /\ held' \subseteq Coins /\ opens' \in [Coins -> Nat]
      /\ fills' \in [Coins -> [Books -> Nat]]
    BY <1>1, <1>2, FillsType DEF TypeOK
<1>4. TypeOK'
    BY <1>2, <1>3 DEF ExecutorOrders, TypeOK
<1>5. ShapeOf(a)'
    BY <1>1, <1>2 DEF ShapeOf
<1> QED  BY <1>1, <1>2, <1>4, <1>5, OneShape

LEMMA TypedFinish ==
    ASSUME Typed, NEW a \in Actors, Finish(a)
    PROVE  Typed'
<1> USE DEF Typed, exchange, cycle
<1>1. file' \in [Coins -> Books \cup {NoBook, Gone}]
    BY ClaimsFile DEF Finish, TypeOK
<1>2. job[a] \in Jobs
    BY DEF TypeOK
<1>3. owner' \in Claims
    BY <1>2 DEF Finish, TypeOK, Claims, Jobs
<1>4. job' \in [Actors -> Jobs] /\ Others(a) /\ job'[a] = Idle
    BY IdledJob DEF Finish
<1>5. TypeOK'
    BY <1>1, <1>3, <1>4 DEF Finish, TypeOK
<1>6. ShapeOf(a)' /\ loaded' = loaded
    BY <1>4 DEF ShapeOf, Idle, Finish
<1> QED  BY <1>4, <1>5, <1>6, OneShape

LEMMA TypedPrune == ASSUME Typed, PruneClaims PROVE Typed'
<1> USE DEF Typed, exchange, registry
<1>1. [c \in Coins |-> IF c \in snap THEN Registry[c] ELSE NoBook] \in Claims
    BY RegistryType DEF Claims
<1>2. claims' \in Claims /\ loaded' \in BOOLEAN /\ FileOK'
    BY <1>1, ClaimsFile, OnDiskType DEF PruneClaims, FileOK, TypeOK
<1>3. idx' \in 1..(Len(Order) + 1)
    BY ClaimsAssumption DEF PruneClaims
<1>4. TypeOK'
    BY <1>2, <1>3 DEF PruneClaims, TypeOK, FileOK
<1>5. job' = job /\ (loaded => loaded')
    BY DEF PruneClaims
<1>6. PassShape'
    BY <1>5 DEF PassShape, ShapeOf
<1> QED  BY <1>4, <1>6

LEMMA TypedNextBook == ASSUME Typed, NextBook PROVE Typed'
<1> USE DEF Typed, exchange, registry
<1>1. Order[idx] \in Books /\ idx + 1 \in 1..(Len(Order) + 1)
    BY ClaimsAssumption DEF NextBook, TypeOK, Books
<1>2. Loop \in Actors /\ snap \in SUBSET Coins
    BY DEF Actors, TypeOK
<1>3. CASE Begins(Loop, Order[idx], snap)
  <2>1. claims' \in Claims /\ loaded' \in BOOLEAN /\ FileOK'
      BY <1>3, BeginsRegistry
  <2>2. /\ job' \in [Actors -> Jobs] /\ Others(Loop)
        /\ job'[Loop].at = "pick" /\ job'[Loop].book \in Books /\ job'[Loop].opened = {}
      BY <1>1, <1>2, <1>3, BeginsJob
  <2>3. TypeOK'
      BY <1>1, <2>1, <2>2 DEF NextBook, TypeOK, FileOK
  <2>4. ShapeOf(Loop)' /\ loaded'
      BY <1>3, <2>2 DEF ShapeOf, Begins
  <2> QED  BY <1>2, <2>2, <2>3, <2>4, OneShape
<1>4. CASE UNCHANGED <<registry, job>>
  <2>1. TypeOK'
      BY <1>1, <1>4 DEF NextBook, TypeOK
  <2> QED  BY <1>4, <2>1, SameShape
<1> QED  BY <1>3, <1>4 DEF NextBook

LEMMA TypedStartLate == ASSUME Typed, StartLate PROVE Typed'
<1> USE DEF Typed, exchange, registry
<1>1. CASE pc' = "heartbeat" /\ UNCHANGED job
  <2>1. TypeOK'
      BY <1>1 DEF StartLate, TypeOK
  <2> QED  BY <1>1, <2>1, SameShape DEF StartLate
<1>2. ASSUME NEW t \in Threads, pc' = t,
             job' = [job EXCEPT ![t] = [Idle EXCEPT !.at = "fetch", !.book = Late,
                                                    !.positions = snap]]
      PROVE  Typed'
  <2>1. /\ t \in Actors /\ job' \in [Actors -> Jobs] /\ Others(t)
        /\ job'[t].at = "fetch" /\ job'[t].opened = {}
      BY <1>2, FetchJob DEF Actors
  <2>2. TypeOK'
      BY <1>2, <2>1 DEF StartLate, TypeOK
  <2>3. ShapeOf(t)' /\ loaded' = loaded
      BY <2>1 DEF ShapeOf, StartLate
  <2> QED  BY <2>1, <2>2, <2>3, OneShape
<1> QED  BY <1>1, <1>2 DEF StartLate

LEMMA TypedFetched == ASSUME Typed, NEW t \in Threads, Fetched(t) PROVE Typed'
<1> USE DEF Typed, exchange, cycle, registry
<1>1. t \in Actors /\ Late \in Books /\ job[t].positions \in SUBSET Coins
    BY DEF Actors, Books, TypeOK, Jobs
<1>2. CASE Begins(t, Late, job[t].positions)
  <2>1. claims' \in Claims /\ loaded' \in BOOLEAN /\ FileOK'
      BY <1>2, BeginsRegistry
  <2>2. /\ job' \in [Actors -> Jobs] /\ Others(t)
        /\ job'[t].at = "pick" /\ job'[t].book \in Books /\ job'[t].opened = {}
      BY <1>1, <1>2, BeginsJob
  <2>3. TypeOK'
      BY <2>1, <2>2 DEF Fetched, TypeOK, FileOK
  <2>4. ShapeOf(t)' /\ loaded'
      BY <1>2, <2>2 DEF ShapeOf, Begins
  <2> QED  BY <1>1, <2>2, <2>3, <2>4, OneShape
<1>3. CASE job' = [job EXCEPT ![t] = Idle] /\ UNCHANGED registry
  <2>1. job' \in [Actors -> Jobs] /\ Others(t) /\ job'[t] = Idle
      BY <1>1, <1>3, IdledJob
  <2>2. TypeOK'
      BY <1>3, <2>1 DEF Fetched, TypeOK
  <2>3. ShapeOf(t)' /\ loaded' = loaded
      BY <1>3, <2>1 DEF ShapeOf, Idle
  <2> QED  BY <1>1, <2>1, <2>2, <2>3, OneShape
<1> QED  BY <1>2, <1>3 DEF Fetched

LEMMA TypedCrash == ASSUME Typed, Crash PROVE Typed'
<1> USE DEF Typed, exchange
<1>1. job' \in [Actors -> Jobs] /\ \A a \in Actors : job'[a] = Idle
    BY IdleJob DEF Crash
<1>2. claims' \in Claims /\ loaded' \in BOOLEAN
    BY DEF Crash, Claims, Unclaimed
<1>3. idx' \in 1..(Len(Order) + 1) /\ pc' = "heartbeat" /\ snap' \subseteq Coins
    BY ClaimsAssumption DEF Crash
<1>4. crashes' \in Nat
    BY DEF Crash, TypeOK
<1>5. TypeOK'
    BY <1>1, <1>2, <1>3, <1>4 DEF Crash, TypeOK
<1>6. PassShape'
    BY <1>1 DEF PassShape, ShapeOf, Idle
<1> QED  BY <1>5, <1>6

LEMMA TypedEnvironment ==
    ASSUME Typed, LoopCloses \/ StopFill \/ ManualOpen
    PROVE  Typed'
<1> USE DEF Typed, exchange, cycle, registry
<1>1. TypeOK'
  <2>1. CASE LoopCloses
      BY <2>1, FlattenType DEF LoopCloses, TypeOK
  <2>2. CASE StopFill
      BY <2>2, FlattenType DEF StopFill, TypeOK
  <2>3. CASE ManualOpen
      BY <2>3 DEF ManualOpen, TypeOK
  <2> QED  BY <2>1, <2>2, <2>3
<1>2. UNCHANGED <<job, loaded>>
    BY DEF LoopCloses, StopFill, ManualOpen
<1> QED  BY <1>1, <1>2, SameShape

LEMMA TypedHeartbeat == ASSUME Typed, Heartbeat \/ Joined PROVE Typed'
<1> USE DEF Typed, exchange, registry
<1>1. owner' \in Claims
    BY DEF Heartbeat, Joined, TypeOK, Claims
<1>2. TypeOK'
    BY <1>1 DEF Heartbeat, Joined, TypeOK
<1>3. UNCHANGED <<job, loaded>>
    BY DEF Heartbeat, Joined
<1> QED  BY <1>2, <1>3, SameShape

\* Next, actor by actor.
LEMMA NextSplit ==
    ASSUME Next
    PROVE  \/ Heartbeat \/ Joined \/ PruneClaims \/ NextBook \/ StartLate \/ Crash
           \/ LoopCloses \/ StopFill \/ ManualOpen
           \/ \E t \in Threads : Fetched(t)
           \/ \E a \in Actors : Claim(a) \/ ExecutorReads(a) \/ ExecutorOrders(a) \/ Finish(a)
    BY DEF Next, LoopStep, LateStep, Pass, Actors

LEMMA TypedNext == Typed /\ [Next]_vars => Typed'
<1> SUFFICES ASSUME Typed, [Next]_vars PROVE Typed'
    OBVIOUS
<1>1. CASE UNCHANGED vars
  <2>1. TypeOK'
      BY <1>1 DEF vars, TypeOK, Typed
  <2> QED  BY <1>1, <2>1, SameShape DEF vars, Typed
<1>2. CASE Next
    BY <1>2, NextSplit, TypedHeartbeat, TypedPrune, TypedNextBook, TypedStartLate,
       TypedCrash, TypedEnvironment, TypedFetched, TypedClaim, TypedReads, TypedOrders,
       TypedFinish
<1> QED  BY <1>1, <1>2

(* Every variable of the cycle, the registry and its file keeps its type. *)
THEOREM TypeCorrect == Spec => []TypeOK
<1>1. Typed => TypeOK
    BY DEF Typed
<1> QED  BY <1>1, TypedInit, TypedNext, PTL DEF Spec

---------------------------------------------------------------------------
(* Without a stall one actor at a time is in a pass: the loop while it goes through
   its books, the late book's thread while the loop waits for it. *)
OneActor ==
    /\ pc # "books" => job[Loop].at = "idle"
    /\ \A t \in Threads : pc # t => job[t].at = "idle"

LEMMA Alone ==
    ASSUME OneActor, NEW a \in Actors, job[a].at # "idle"
    PROVE  \A o \in Actors : o # a => job[o].at = "idle"
    BY ClaimsAssumption DEF OneActor, Actors

LEMMA ActsAlone ==
    ASSUME OneActor, NEW a \in Actors, job[a].at # "idle", Others(a), pc' = pc
    PROVE  OneActor' /\ \A o \in Actors : o # a => job'[o].at = "idle"
<1>1. \A o \in Actors : o # a => job'[o].at = "idle"
    BY Alone DEF Others
<1>2. (a = Loop => pc = "books") /\ (a \in Threads => pc = a)
    BY DEF OneActor
<1>3. OneActor'
    BY <1>1, <1>2, ClaimsAssumption DEF OneActor, Actors
<1> QED  BY <1>1, <1>3

\* An actor in a pass takes a step of it.
PassStep(a) == Claim(a) \/ ExecutorReads(a) \/ ExecutorOrders(a) \/ Finish(a)
                 \/ (a \in Threads /\ Fetched(a))

LEMMA PassStepOthers ==
    ASSUME Typed, NEW a \in Actors, PassStep(a)
    PROVE  job[a].at # "idle" /\ Others(a) /\ pc' = pc
<1> USE DEF Typed, cycle
<1>1. CASE Claim(a)
  <2>1. Others(a)
      BY <1>1, ClaimJob
  <2> QED  BY <1>1, <2>1 DEF Claim
<1>2. CASE ExecutorReads(a)
  <2>1. Others(a)
      BY <1>2, OrderedJob, NotOpenedJob DEF ExecutorReads
  <2> QED  BY <1>2, <2>1 DEF ExecutorReads
<1>3. CASE ExecutorOrders(a)
  <2>1. job[a].coin \in Coins
      BY <1>3 DEF ExecutorOrders, PassShape, ShapeOf
  <2>2. Others(a)
      BY <1>3, <2>1, OpenedJob, NotOpenedJob DEF ExecutorOrders
  <2> QED  BY <1>3, <2>2 DEF ExecutorOrders
<1>4. CASE Finish(a)
    BY <1>4, IdledJob DEF Finish
<1>5. CASE a \in Threads /\ Fetched(a)
  <2>1. Late \in Books /\ job[a].positions \in SUBSET Coins
      BY DEF Books, TypeOK, Jobs
  <2>2. Others(a)
      BY <1>5, <2>1, BeginsJob, IdledJob DEF Fetched
  <2> QED  BY <1>5, <2>2 DEF Fetched
<1> QED  BY <1>1, <1>2, <1>3, <1>4, <1>5 DEF PassStep

LEMMA OneActorNext ==
    ASSUME "stall" \notin Events, Typed, OneActor, [Next]_vars
    PROVE  OneActor'
<1>1. CASE UNCHANGED <<pc, job>>
    BY <1>1 DEF OneActor
<1>2. CASE Heartbeat \/ PruneClaims
    BY <1>2, ClaimsAssumption DEF Heartbeat, PruneClaims, OneActor
<1>3. CASE NextBook
  <2>1. Order[idx] \in Books /\ Loop \in Actors /\ snap \in SUBSET Coins
      BY <1>3, ClaimsAssumption DEF NextBook, Typed, TypeOK, Books, Actors
  <2>2. Others(Loop)
      BY <1>3, <2>1, BeginsJob DEF NextBook, Typed, Others
  <2> QED  BY <1>3, <2>2, ClaimsAssumption DEF NextBook, OneActor, Others, Actors
<1>4. CASE StartLate
  <2>1. CASE pc' = "heartbeat" /\ UNCHANGED job
      BY <1>4, <2>1, ClaimsAssumption DEF StartLate, OneActor
  <2>2. ASSUME NEW t \in Threads, pc' = t,
               job' = [job EXCEPT ![t] = [Idle EXCEPT !.at = "fetch", !.book = Late,
                                                      !.positions = snap]]
        PROVE  OneActor'
    <3>1. Others(t)
        BY <2>2, FetchJob DEF Typed
    <3> QED  BY <1>4, <2>2, <3>1, ClaimsAssumption DEF StartLate, OneActor, Others, Actors
  <2> QED  BY <1>4, <2>1, <2>2 DEF StartLate
<1>5. CASE Joined
    BY <1>5, ClaimsAssumption DEF Joined, OneActor, Actors
<1>6. CASE Crash
  <2>1. \A a \in Actors : job'[a].at = "idle"
      BY <1>6 DEF Crash, Idle
  <2> QED  BY <2>1 DEF OneActor, Actors
<1>7. ASSUME NEW a \in Actors, PassStep(a)
      PROVE  OneActor'
    BY <1>7, PassStepOthers, ActsAlone
<1>8. CASE LoopCloses \/ StopFill \/ ManualOpen
  <2>1. UNCHANGED <<pc, job>>
      BY <1>8 DEF LoopCloses, StopFill, ManualOpen, cycle
  <2> QED  BY <1>1, <2>1
<1>9. UNCHANGED vars => UNCHANGED <<pc, job>>
    BY DEF vars
<1> QED
    BY <1>1, <1>2, <1>3, <1>4, <1>5, <1>6, <1>7, <1>8, <1>9, NextSplit DEF PassStep, Actors
---------------------------------------------------------------------------
(* A coin without a position has no entry in it, and neither has a coin the executor
   has just read as flat: nobody else can enter it before the order. *)
Fresh(c) == \A b \in Books : fills[c][b] = 0

EntriesFresh ==
    /\ \A c \in Coins : c \notin held => Fresh(c)
    /\ \A a \in Actors : job[a].at = "order" => Fresh(job[a].coin)

OnceInv == Typed /\ OneActor /\ EntriesFresh /\ EnteredOnce

LEMMA FlattenFresh ==
    ASSUME Typed, EntriesFresh, EnteredOnce, NEW S, Flatten(S), UNCHANGED job
    PROVE  EntriesFresh' /\ EnteredOnce'
<1>1. \A c \in Coins : (c \in S /\ Fresh(c)') \/ (c \notin S /\ fills'[c] = fills[c])
    BY DEF Flatten, Fresh
<1>2. \A c \in Coins : Fresh(c) => Fresh(c)'
    BY <1>1 DEF Fresh
<1>3. \A a \in Actors : job[a].at = "order" => job[a].coin \in Coins
    BY DEF Typed, PassShape, ShapeOf
<1>4. EntriesFresh'
    BY <1>1, <1>2, <1>3 DEF EntriesFresh, Flatten
<1>5. EnteredOnce'
    BY <1>1 DEF EnteredOnce, EntryBooks, Fresh
<1> QED  BY <1>4, <1>5

LEMMA FillsFresh ==
    ASSUME Typed, EntriesFresh, EnteredOnce, NEW c \in Coins, NEW b \in Books,
           Fresh(c), Fills(c, b)
    PROVE  /\ EnteredOnce'
           /\ \A d \in Coins : d \notin held' => Fresh(d)'
<1>1. fills' = [fills EXCEPT ![c] = [fills[c] EXCEPT ![b] = fills[c][b] + 1]]
    BY DEF Fills, Typed, TypeOK
<1>2. fills[c] \in [Books -> Nat]
    BY DEF Typed, TypeOK
<1>3. fills'[c] = [fills[c] EXCEPT ![b] = fills[c][b] + 1]
    BY <1>1 DEF Typed, TypeOK
<1>4. \A x \in Books : fills'[c][x] = IF x = b THEN 1 ELSE 0
    BY <1>2, <1>3 DEF Fresh
<1>5. \A d \in Coins : d # c => fills'[d] = fills[d]
    BY <1>1 DEF Typed, TypeOK
<1>6. EnteredOnce'
    BY <1>4, <1>5 DEF EnteredOnce, EntryBooks
<1>7. \A d \in Coins : d \notin held' => Fresh(d)'
    BY <1>5 DEF EntriesFresh, Fresh, Fills
<1> QED  BY <1>6, <1>7

LEMMA OnceNext ==
    ASSUME "stall" \notin Events, OnceInv, [Next]_vars
    PROVE  OnceInv'
<1> USE DEF OnceInv
<1>1. Typed' /\ OneActor'
    BY TypedNext, OneActorNext
<1>2. CASE UNCHANGED <<held, fills, job>>
    BY <1>1, <1>2 DEF EntriesFresh, EnteredOnce, EntryBooks, Fresh
<1>3. CASE Heartbeat \/ PruneClaims \/ Joined
    BY <1>1, <1>2, <1>3 DEF Heartbeat, PruneClaims, Joined, exchange
<1>4. CASE LoopCloses \/ StopFill
  <2>1. PICK S : Flatten(S) /\ UNCHANGED job
      BY <1>4 DEF LoopCloses, StopFill
  <2> QED  BY <1>1, <2>1, FlattenFresh
<1>5. CASE ManualOpen
  <2>1. fills' = fills /\ job' = job /\ held \subseteq held'
      BY <1>5 DEF ManualOpen
  <2> QED  BY <1>1, <2>1 DEF EntriesFresh, EnteredOnce, EntryBooks, Fresh
\* A step that leaves the exchange alone and puts nobody at the order.
<1>6. ASSUME NEW a \in Actors, Others(a), job'[a].at # "order", UNCHANGED <<held, fills>>
      PROVE  OnceInv'
  <2>1. EntriesFresh'
      BY <1>6 DEF EntriesFresh, Fresh, Others
  <2>2. EnteredOnce'
      BY <1>6 DEF EnteredOnce, EntryBooks
  <2> QED  BY <1>1, <2>1, <2>2
<1>7. CASE NextBook
  <2>1. Order[idx] \in Books /\ Loop \in Actors /\ snap \in SUBSET Coins
      BY <1>7, ClaimsAssumption DEF NextBook, Typed, TypeOK, Books, Actors
  <2>2. UNCHANGED <<held, fills>>
      BY <1>7 DEF NextBook, exchange
  <2>3. CASE Begins(Loop, Order[idx], snap)
      BY <1>6, <2>1, <2>2, <2>3, BeginsJob DEF Typed
  <2>4. CASE UNCHANGED <<registry, job>>
      BY <1>2, <1>1, <2>2, <2>4
  <2> QED  BY <1>7, <2>3, <2>4 DEF NextBook
<1>8. CASE StartLate
  <2>1. UNCHANGED <<held, fills>>
      BY <1>8 DEF StartLate, exchange
  <2>2. ASSUME NEW t \in Threads,
               job' = [job EXCEPT ![t] = [Idle EXCEPT !.at = "fetch", !.book = Late,
                                                      !.positions = snap]]
        PROVE  OnceInv'
      BY <1>6, <2>1, <2>2, FetchJob DEF Typed, Actors
  <2> QED  BY <1>1, <1>2, <1>8, <2>1, <2>2 DEF StartLate
<1>9. CASE Crash
  <2>1. \A a \in Actors : job'[a].at = "idle"
      BY <1>9 DEF Crash, Idle
  <2>2. UNCHANGED <<held, fills>>
      BY <1>9 DEF Crash, exchange
  <2> QED  BY <1>1, <2>1, <2>2 DEF EntriesFresh, EnteredOnce, EntryBooks, Fresh
<1>10. ASSUME NEW t \in Threads, Fetched(t)
       PROVE  OnceInv'
  <2>1. t \in Actors /\ Late \in Books /\ job[t].positions \in SUBSET Coins
      BY DEF Actors, Books, Typed, TypeOK, Jobs
  <2>2. UNCHANGED <<held, fills>>
      BY <1>10 DEF Fetched, exchange
  <2>3. Others(t) /\ job'[t].at # "order"
      BY <1>10, <2>1, BeginsJob, IdledJob DEF Fetched, Typed, Idle
  <2> QED  BY <1>6, <2>1, <2>2, <2>3
<1>11. ASSUME NEW a \in Actors, Claim(a)
       PROVE  OnceInv'
  <2>1. Others(a) /\ job'[a].at # "order"
      BY <1>11, ClaimJob DEF Typed
  <2> QED  BY <1>6, <1>11, <2>1 DEF Claim, exchange
<1>12. ASSUME NEW a \in Actors, Finish(a)
       PROVE  OnceInv'
  <2>1. Others(a) /\ job'[a].at # "order"
      BY <1>12, IdledJob DEF Finish, Typed, Idle
  <2> QED  BY <1>6, <1>12, <2>1 DEF Finish, exchange
<1>13. ASSUME NEW a \in Actors, ExecutorReads(a)
       PROVE  OnceInv'
  <2>1. job[a].coin \in Coins /\ UNCHANGED <<held, fills>>
      BY <1>13 DEF ExecutorReads, exchange, Typed, PassShape, ShapeOf
  <2>2. CASE NotOpened(a)
      BY <1>6, <2>1, <2>2, NotOpenedJob DEF Typed
  <2>3. CASE job[a].coin \notin held /\ job' = [job EXCEPT ![a].at = "order"]
    <3>1. Others(a) /\ job'[a].coin = job[a].coin
        BY <2>3, OrderedJob DEF Typed
    <3>2. Fresh(job[a].coin)
        BY <2>1, <2>3 DEF EntriesFresh
    <3>3. EntriesFresh'
        BY <2>1, <3>1, <3>2 DEF EntriesFresh, Fresh, Others
    <3> QED  BY <1>1, <2>1, <3>3 DEF EnteredOnce, EntryBooks
  <2> QED  BY <1>13, <2>2, <2>3 DEF ExecutorReads
<1>14. ASSUME NEW a \in Actors, ExecutorOrders(a)
       PROVE  OnceInv'
  <2>1. job[a].coin \in Coins /\ job[a].book \in Books /\ Fresh(job[a].coin)
      BY <1>14 DEF ExecutorOrders, Typed, PassShape, ShapeOf, EntriesFresh
  <2>2. job'[a].at = "pick"
      BY <1>14, <2>1, OpenedJob, NotOpenedJob DEF ExecutorOrders, Typed
  <2>3. \A o \in Actors : o # a => job'[o].at = "idle"
      BY <1>14, PassStepOthers, ActsAlone DEF PassStep, ExecutorOrders
  <2>4. CASE UNCHANGED exchange
      BY <1>1, <2>2, <2>3, <2>4 DEF exchange, EntriesFresh, EnteredOnce, EntryBooks, Fresh
  <2>5. CASE Fills(job[a].coin, job[a].book)
      BY <1>1, <2>1, <2>2, <2>3, <2>5, FillsFresh DEF EntriesFresh
  <2> QED  BY <1>14, <2>4, <2>5 DEF ExecutorOrders
<1>15. UNCHANGED vars => UNCHANGED <<held, fills, job>>
    BY DEF vars
<1> QED
    BY <1>1, <1>2, <1>3, <1>4, <1>5, <1>7, <1>8, <1>9, <1>10, <1>11, <1>12, <1>13, <1>14,
       <1>15, NextSplit

LEMMA OnceAlways == ASSUME "stall" \notin Events PROVE Spec => []OnceInv
<1>1. Init => OnceInv
  <2> SUFFICES ASSUME Init PROVE OnceInv
      OBVIOUS
  <2>1. \A a \in Actors : job[a].at = "idle"
      BY DEF Init, Idle
  <2>2. \A c \in Coins : Fresh(c)
      BY DEF Init, Fresh
  <2>3. EntriesFresh /\ OneActor
      BY <2>1, <2>2 DEF EntriesFresh, OneActor, Actors
  <2>4. EnteredOnce
      BY <2>2 DEF EnteredOnce, EntryBooks, Fresh
  <2> QED  BY <2>3, <2>4, TypedInit DEF OnceInv
<1>2. OnceInv /\ [Next]_vars => OnceInv'
    BY OnceNext
<1> QED  BY <1>1, <1>2, PTL DEF Spec

(* As long as the late book's thread meets its deadline, a coin's position is entered
   by one book and once: no lost answer, refused read, released claim or restart lets a
   second entry through. *)
THEOREM EntersOnce == ASSUME "stall" \notin Events PROVE Spec => []EnteredOnce
<1>1. OnceInv => EnteredOnce
    BY DEF OnceInv
<1> QED  BY <1>1, OnceAlways, PTL

---------------------------------------------------------------------------
(* The abstract account.  What EntriesFresh says of a coin at the order is what *)
(* makes its fill an entry of PositionBook.                                     *)

LEMMA BookSame == ASSUME UNCHANGED <<held, fills>> PROVE UNCHANGED Book!vars
    BY DEF Book!vars

LEMMA BookInit == Init => Book!Init
    BY DEF Init, Book!Init, Book!None

LEMMA BookEnds ==
    ASSUME Typed, NEW c \in Coins, c \in held, Flatten({c})
    PROVE  [Book!Next]_(Book!vars)
<1>1. fills' = [fills EXCEPT ![c] = [b \in Books |-> 0]]
    BY DEF Flatten, Typed, TypeOK
<1>2. Book!End(c)
    BY <1>1 DEF Book!End, Book!None, Flatten
<1> QED  BY <1>2 DEF Book!Next

LEMMA BookEnters ==
    ASSUME Typed, NEW c \in Coins, NEW b \in Books, Fresh(c), Fills(c, b)
    PROVE  [Book!Next]_(Book!vars)
<1>1. fills[c] = [t \in Books |-> 0]
    BY DEF Fresh, Typed, TypeOK
<1>2. fills' = [fills EXCEPT ![c] = [fills[c] EXCEPT ![b] = fills[c][b] + 1]]
    BY DEF Fills, Typed, TypeOK
<1>3. [fills[c] EXCEPT ![b] = fills[c][b] + 1] = [[t \in Books |-> 0] EXCEPT ![b] = 1]
    BY <1>1
<1>4. held' = held \cup {c}
    BY DEF Fills
<1>5. Book!Enter(c, b)
    BY <1>1, <1>2, <1>3, <1>4, Zenon DEF Book!Enter, Book!Bare, Book!None
<1> QED  BY <1>5 DEF Book!Next

LEMMA BookStep ==
    ASSUME "stall" \notin Events, OnceInv, [Next]_vars
    PROVE  [Book!Next]_(Book!vars)
<1> USE DEF OnceInv
<1>1. CASE UNCHANGED <<held, fills>>
    BY <1>1, BookSame
<1>2. CASE Heartbeat \/ PruneClaims \/ NextBook \/ StartLate \/ Joined \/ Crash
    BY <1>1, <1>2 DEF Heartbeat, PruneClaims, NextBook, StartLate, Joined, Crash, exchange
<1>3. CASE LoopCloses \/ StopFill
  <2>1. PICK c \in held : Flatten({c})
      BY <1>3 DEF LoopCloses, StopFill
  <2>2. c \in Coins
      BY DEF Typed, TypeOK
  <2> QED  BY <2>1, <2>2, BookEnds
<1>4. CASE ManualOpen
  <2>1. PICK c \in Coins \ held : held' = held \cup {c}
      BY <1>4 DEF ManualOpen
  <2>2. fills' = fills
      BY <1>4 DEF ManualOpen
  <2>3. Book!OpenByHand(c)
      BY <2>1, <2>2 DEF Book!OpenByHand
  <2> QED  BY <2>3 DEF Book!Next
<1>5. ASSUME NEW t \in Threads, Fetched(t) PROVE [Book!Next]_(Book!vars)
    BY <1>1, <1>5 DEF Fetched, exchange
<1>6. ASSUME NEW a \in Actors, Claim(a) \/ ExecutorReads(a) \/ Finish(a)
      PROVE  [Book!Next]_(Book!vars)
    BY <1>1, <1>6 DEF Claim, ExecutorReads, Finish, exchange
<1>7. ASSUME NEW a \in Actors, ExecutorOrders(a)
      PROVE  [Book!Next]_(Book!vars)
  <2>1. job[a].coin \in Coins /\ job[a].book \in Books /\ Fresh(job[a].coin)
      BY <1>7 DEF ExecutorOrders, Typed, PassShape, ShapeOf, EntriesFresh
  <2>2. CASE UNCHANGED exchange
      BY <1>1, <2>2 DEF exchange
  <2>3. CASE Fills(job[a].coin, job[a].book)
      BY <2>1, <2>3, BookEnters
  <2> QED  BY <1>7, <2>2, <2>3 DEF ExecutorOrders
<1>8. UNCHANGED vars => UNCHANGED <<held, fills>>
    BY DEF vars
<1> QED
    BY <1>1, <1>2, <1>3, <1>4, <1>5, <1>6, <1>7, <1>8, NextSplit

(* The books together implement the abstract account, as long as no pass is        *)
(* abandoned: whatever the loop, the thread and the operator do in between, an     *)
(* entry finds the coin without one.                                               *)
THEOREM KeepsBook == ASSUME "stall" \notin Events PROVE Spec => ImplementsBook
<1>1. OnceInv /\ [Next]_vars => [Book!Next]_(Book!vars)
    BY BookStep
<1> QED  BY <1>1, BookInit, OnceAlways, PTL DEF Spec, ImplementsBook, Book!Spec

(* What the abstract account gives for any coins and traders: no position carries   *)
(* more than one entry, and no entry is without a position.                         *)
THEOREM BookHoldsOne == Book!Spec => []Book!OneEntry
<1>1. Book!Init => Book!OneEntry
    BY DEF Book!Init, Book!OneEntry, Book!Bare
<1> DEFINE Whole == DOMAIN fills = Coins /\ fills = [c \in Coins |-> fills[c]]
           Inv == Book!OneEntry /\ Whole
<1>2. Book!Init => Inv
    BY <1>1 DEF Book!Init
<1>3. Inv /\ [Book!Next]_(Book!vars) => Inv'
  <2> SUFFICES ASSUME Inv, [Book!Next]_(Book!vars) PROVE Inv'
      OBVIOUS
  <2>1. ASSUME NEW c \in Coins, Book!OpenByHand(c) PROVE Inv'
      BY <2>1 DEF Book!OpenByHand, Book!OneEntry, Book!Bare
  <2>2. ASSUME NEW c \in Coins, Book!End(c) PROVE Inv'
      BY <2>2 DEF Book!End, Book!OneEntry, Book!Bare
  <2>3. ASSUME NEW c \in Coins, NEW t \in Books, Book!Enter(c, t) PROVE Inv'
      BY <2>3 DEF Book!Enter, Book!OneEntry, Book!Bare
  <2>4. CASE UNCHANGED Book!vars
      BY <2>4 DEF Book!vars, Book!OneEntry, Book!Bare
  <2> QED  BY <2>1, <2>2, <2>3, <2>4 DEF Book!Next
<1> QED  BY <1>2, <1>3, PTL DEF Book!Spec

---------------------------------------------------------------------------
(* The claim on an open position is in the registry and in the file, and the DSL
   watches the position, which is why no prune can take the claim away. *)
Lasting(c) == owner[c] \notin SnapOnly \cup {NoBook}

ClaimLasts ==
    \A c \in Coins : Lasting(c) =>
        /\ Registry[c] = owner[c] /\ file[c] = owner[c]
        /\ c \in held /\ c \in tracked
        /\ pc = Sighted => c \in snap

(* The coin a pass has opened or is opening is claimed by its book, and a coin it may
   still claim or release is not an open position of that book. *)
PassClaimsOf(a) ==
    /\ \A c \in job[a].opened : claims[c] = job[a].book /\ c \in tracked
    /\ job[a].at \in {"read", "order"} => claims[job[a].coin] = job[a].book
    /\ job[a].at \in {"pick", "read", "order"} =>
          \A c \in Coins : c \in job[a].cand \/ c = job[a].coin =>
              ~(Lasting(c) /\ owner[c] = job[a].book)

PassClaims == \A a \in Actors : PassClaimsOf(a)

LastInv == Typed /\ OneActor /\ ClaimLasts /\ PassClaims

\* The same, from the side of the file: a restart reads the claim back.
LEMMA LastingRegistry ==
    ASSUME Typed, NEW c \in Coins, Lasting(c), file[c] = owner[c]
    PROVE  Scrubbed(file)[c] = owner[c] /\ OnDisk[c] = owner[c] /\ owner[c] \in Books
<1>1. owner[c] \in Books
    BY DEF Lasting, Typed, TypeOK, Claims
<1> QED  BY <1>1 DEF Scrubbed, OnDisk

\* Nothing but positions ending: claims last for those that stay open.
LEMMA FlattenLasts ==
    ASSUME LastInv, NEW S, Flatten(S), UNCHANGED <<pc, snap, registry, job>>,
           tracked \ S \subseteq tracked',
           \A a \in Actors : job[a].opened # {} => tracked' = tracked
    PROVE  ClaimLasts' /\ PassClaims'
<1> USE DEF LastInv, registry
<1>1. \A c \in Coins : Lasting(c)' => c \notin S /\ Lasting(c) /\ owner'[c] = owner[c]
    BY DEF Flatten, Lasting
<1>2. Registry' = Registry
    BY DEF Registry, Scrubbed
<1>3. ClaimLasts'
    BY <1>1, <1>2 DEF ClaimLasts, Flatten
<1>4. ASSUME NEW a \in Actors PROVE PassClaimsOf(a)'
  <2>1. PassClaimsOf(a)
      BY DEF PassClaims
  <2>2. \A c \in job[a].opened : c \in tracked'
      BY <2>1 DEF PassClaimsOf
  <2> QED  BY <1>1, <2>1, <2>2 DEF PassClaimsOf, Flatten
<1> QED  BY <1>3, <1>4 DEF PassClaims

\* A pass begins: it prunes only its own claims, and only of coins it does not see.
LEMMA BeginsLasts ==
    ASSUME LastInv, NEW a \in Actors, NEW b \in Books, NEW P \in SUBSET Coins,
           Begins(a, b, P), UNCHANGED <<held, tracked, snap, pc, owner>>,
           \A o \in Actors : o # a => job[o].at = "idle"
    PROVE  ClaimLasts' /\ PassClaims'
<1> USE DEF LastInv
<1>1. /\ Others(a) /\ job'[a].at = "pick" /\ job'[a].coin = NoCoin /\ job'[a].book = b
      /\ job'[a].cand \subseteq Coins \ HeldFor(b, P) /\ job'[a].opened = {}
    BY BeginsJob DEF Typed
<1>2. /\ claims' = PrunedTo(Registry, HeldFor(b, P), b) /\ loaded' /\ file' = OnDisk
    BY DEF Begins
<1>3. ASSUME NEW c \in Coins, Lasting(c)
      PROVE  claims'[c] = owner[c] /\ file'[c] = owner[c]
             /\ (owner[c] = b => c \in HeldFor(b, P))
  <2>1. Registry[c] = owner[c] /\ file[c] = owner[c] /\ c \in tracked
      BY <1>3 DEF ClaimLasts
  <2>2. owner[c] = b => c \in HeldFor(b, P)
      BY <1>3, <2>1 DEF HeldFor, Lasting
  <2> QED  BY <1>2, <1>3, <2>1, <2>2, LastingRegistry DEF PrunedTo
<1>4. ClaimLasts'
    BY <1>2, <1>3 DEF ClaimLasts, Lasting, Registry
<1>5. PassClaimsOf(a)'
  <2>1. \A c \in Coins : Lasting(c)' <=> Lasting(c)
      BY DEF Lasting
  <2>2. NoCoin \notin Coins
      BY ClaimsAssumption
  <2> QED  BY <1>1, <1>3, <2>1, <2>2 DEF PassClaimsOf
<1>6. ASSUME NEW o \in Actors, o # a PROVE PassClaimsOf(o)'
  <2>1. job'[o].opened = {} /\ job'[o].at = "idle"
      BY <1>1, <1>6 DEF Others, Typed, PassShape, ShapeOf
  <2> QED  BY <2>1 DEF PassClaimsOf
<1> QED  BY <1>4, <1>5, <1>6 DEF PassClaims

\* Actors that carry nothing keep PassClaims over a step of another one.
LEMMA OthersCarryNothing ==
    ASSUME Typed, NEW a \in Actors, Others(a), PassClaimsOf(a)',
           \A o \in Actors : o # a => job[o].at = "idle"
    PROVE  PassClaims'
<1>1. ASSUME NEW o \in Actors, o # a PROVE PassClaimsOf(o)'
  <2>1. job'[o].opened = {} /\ job'[o].at = "idle"
      BY <1>1 DEF Others, Typed, PassShape, ShapeOf
  <2> QED  BY <2>1 DEF PassClaimsOf
<1> QED  BY <1>1 DEF PassClaims

\* NotOpened releases no claim of an open position.
LEMMA NotOpenedLasts ==
    ASSUME LastInv, NEW a \in Actors, NotOpened(a), job[a].at \in {"read", "order"},
           UNCHANGED <<tracked, snap, pc, owner, loaded, file>>, held \subseteq held',
           \A o \in Actors : o # a => job[o].at = "idle"
    PROVE  ClaimLasts' /\ PassClaims'
<1> USE DEF LastInv
<1>1. /\ Others(a) /\ job'[a].at = "pick" /\ job'[a].coin = NoCoin
      /\ job'[a].book = job[a].book /\ job'[a].cand = job[a].cand
      /\ job'[a].opened = job[a].opened
    BY NotOpenedJob DEF Typed
<1>2. /\ job[a].opened = {} /\ job[a].coin \in Coins /\ loaded
      /\ PassClaimsOf(a)
    BY DEF Typed, PassShape, ShapeOf, PassClaims
<1>3. claims' = Released(claims, job[a].coin, job[a].book)
    BY DEF NotOpened
<1>4. claims \in [Coins -> Books \cup {NoBook}]
    BY DEF Typed, TypeOK, Claims
<1>5. ASSUME NEW c \in Coins, Lasting(c)
      PROVE  claims'[c] = owner[c]
  <2>1. claims[c] = owner[c]
      BY <1>2, <1>5 DEF ClaimLasts, Registry
  <2>2. c = job[a].coin => owner[c] # job[a].book
      BY <1>2, <1>5 DEF PassClaimsOf
  <2> QED  BY <1>3, <1>4, <2>1, <2>2 DEF Released
<1>6. ClaimLasts'
    BY <1>2, <1>5 DEF ClaimLasts, Lasting, Registry
<1>7. PassClaimsOf(a)'
    BY <1>1, <1>2, ClaimsAssumption DEF PassClaimsOf, Lasting
<1> QED  BY <1>1, <1>6, <1>7, OthersCarryNothing

LEMMA ClaimKeeps ==
    ASSUME LastInv, NEW a \in Actors, Claim(a)
    PROVE  ClaimLasts' /\ PassClaims'
<1> USE DEF LastInv, exchange, cycle
<1>1. PICK c \in Coins :
         /\ job' \in [Actors -> Jobs] /\ Others(a)
         /\ c \in job[a].cand /\ job'[a].cand = job[a].cand \ {c}
         /\ job'[a].book = job[a].book /\ job'[a].opened = job[a].opened
         /\ \/ /\ claims[c] \in {NoBook, job[a].book}
               /\ claims' = [claims EXCEPT ![c] = job[a].book]
               /\ job'[a].at = "read" /\ job'[a].coin = c
            \/ /\ claims' = claims
               /\ job'[a].at = "pick" /\ job'[a].coin = NoCoin
    BY ClaimJob DEF Typed
<1>2. /\ job[a].opened = {} /\ job[a].at = "pick" /\ loaded /\ loaded' = loaded
      /\ PassClaimsOf(a)
    BY DEF Claim, Typed, PassShape, ShapeOf, PassClaims
<1>3. claims \in [Coins -> Books \cup {NoBook}]
    BY DEF Typed, TypeOK, Claims
<1>4. UNCHANGED <<held, tracked, snap, pc, owner, file>>
    BY DEF Claim
<1>5. ASSUME NEW d \in Coins, Lasting(d)
      PROVE  claims'[d] = owner[d]
  <2>1. claims[d] = owner[d] /\ owner[d] # NoBook
      BY <1>2, <1>5 DEF ClaimLasts, Registry, Lasting
  <2> QED  BY <1>1, <1>3, <2>1
<1>6. ClaimLasts'
    BY <1>2, <1>4, <1>5 DEF ClaimLasts, Lasting, Registry
<1>7. PassClaimsOf(a)'
    BY <1>1, <1>2, <1>3, <1>4, ClaimsAssumption DEF PassClaimsOf, Lasting
<1>8. \A o \in Actors : o # a => job[o].at = "idle"
    BY <1>2, Alone
<1> QED  BY <1>1, <1>6, <1>7, <1>8, OthersCarryNothing

LEMMA ReadsKeeps ==
    ASSUME LastInv, NEW a \in Actors, ExecutorReads(a)
    PROVE  ClaimLasts' /\ PassClaims'
<1> USE DEF LastInv, exchange, cycle
<1>1. \A o \in Actors : o # a => job[o].at = "idle"
    BY Alone DEF ExecutorReads
<1>2. UNCHANGED <<held, tracked, snap, pc, owner, loaded, file>> /\ job[a].at = "read"
    BY DEF ExecutorReads
<1>3. CASE NotOpened(a)
    BY <1>1, <1>2, <1>3, NotOpenedLasts
<1>4. CASE job' = [job EXCEPT ![a].at = "order"] /\ UNCHANGED claims
  <2>1. /\ Others(a) /\ job'[a].at = "order" /\ job'[a].coin = job[a].coin
        /\ job'[a].book = job[a].book /\ job'[a].cand = job[a].cand
        /\ job'[a].opened = job[a].opened
      BY <1>4, OrderedJob DEF Typed
  <2>2. PassClaimsOf(a)
      BY DEF PassClaims
  <2>3. PassClaimsOf(a)'
      BY <1>2, <1>4, <2>1, <2>2 DEF PassClaimsOf, Lasting
  <2>4. ClaimLasts'
      BY <1>2, <1>4 DEF ClaimLasts, Lasting, Registry, Scrubbed
  <2> QED  BY <1>1, <2>1, <2>3, <2>4, OthersCarryNothing
<1> QED  BY <1>3, <1>4 DEF ExecutorReads

LEMMA OrdersKeeps ==
    ASSUME LastInv, NEW a \in Actors, ExecutorOrders(a)
    PROVE  ClaimLasts' /\ PassClaims'
<1> USE DEF LastInv, cycle
<1>1. \A o \in Actors : o # a => job[o].at = "idle"
    BY Alone DEF ExecutorOrders
<1>2. /\ UNCHANGED <<snap, pc, owner, loaded, file>> /\ job[a].at = "order"
      /\ job[a].coin \in Coins /\ loaded
    BY DEF ExecutorOrders, Typed, PassShape, ShapeOf
<1>3. CASE NotOpened(a) /\ UNCHANGED <<exchange, tracked>>
  <2>1. held \subseteq held' /\ tracked' = tracked
      BY <1>3 DEF exchange
  <2> QED  BY <1>1, <1>2, <1>3, <2>1, NotOpenedLasts
<1>4. CASE Fills(job[a].coin, job[a].book) /\ NotOpened(a) /\ UNCHANGED tracked
  <2>1. held \subseteq held'
      BY <1>4 DEF Fills
  <2> QED  BY <1>1, <1>2, <1>4, <2>1, NotOpenedLasts
<1>5. CASE /\ Fills(job[a].coin, job[a].book)
           /\ tracked' = tracked \cup {job[a].coin}
           /\ job' = [job EXCEPT ![a].at = "pick", ![a].coin = NoCoin,
                                 ![a].opened = {job[a].coin}]
           /\ UNCHANGED claims
  <2>1. /\ Others(a) /\ job'[a].at = "pick" /\ job'[a].coin = NoCoin
        /\ job'[a].book = job[a].book /\ job'[a].cand = job[a].cand
        /\ job'[a].opened = {job[a].coin}
      BY <1>2, <1>5, OpenedJob DEF Typed
  <2>2. PassClaimsOf(a) /\ held \subseteq held'
      BY <1>5 DEF PassClaims, Fills
  <2>3. PassClaimsOf(a)'
      BY <1>2, <1>5, <2>1, <2>2, ClaimsAssumption DEF PassClaimsOf, Lasting
  <2>4. ClaimLasts'
      BY <1>2, <1>5, <2>2 DEF ClaimLasts, Lasting, Registry
  <2> QED  BY <1>1, <2>1, <2>3, <2>4, OthersCarryNothing
<1> QED  BY <1>3, <1>4, <1>5 DEF ExecutorOrders

LEMMA FinishKeeps ==
    ASSUME LastInv, NEW a \in Actors, Finish(a)
    PROVE  ClaimLasts' /\ PassClaims'
<1> USE DEF LastInv, cycle, exchange
<1>1. \A o \in Actors : o # a => job[o].at = "idle"
    BY Alone DEF Finish
<1>2. /\ UNCHANGED <<held, tracked, snap, pc, claims, loaded>>
      /\ job[a].at = "pick" /\ loaded /\ PassClaimsOf(a)
    BY DEF Finish, Typed, PassShape, ShapeOf, PassClaims
<1>3. pc # Sighted
    BY <1>2, ClaimsAssumption DEF OneActor, Actors, Sighted
<1>4. ASSUME NEW c \in Coins, Lasting(c)'
      PROVE  claims[c] = owner'[c] /\ file'[c] = owner'[c] /\ c \in held /\ c \in tracked
  <2>1. CASE c \in job[a].opened \cap held
      BY <1>2, <2>1 DEF Finish, PassClaimsOf
  <2>2. CASE c \notin job[a].opened \cap held
    <3>1. owner'[c] = owner[c] /\ Lasting(c)
        BY <1>4, <2>2 DEF Finish, Lasting
    <3>2. claims[c] = owner[c] /\ file[c] = owner[c] /\ c \in held /\ c \in tracked
        BY <1>2, <3>1 DEF ClaimLasts, Registry
    <3> QED  BY <3>1, <3>2 DEF Finish
  <2> QED  BY <2>1, <2>2
<1>5. ClaimLasts'
    BY <1>2, <1>3, <1>4 DEF ClaimLasts, Registry
<1>6. Others(a) /\ job'[a] = Idle
    BY IdledJob DEF Finish, Typed
<1>7. PassClaimsOf(a)'
    BY <1>6 DEF PassClaimsOf, Idle
<1> QED  BY <1>1, <1>5, <1>6, <1>7, OthersCarryNothing

\* Between passes nothing is carried.
LEMMA AllIdle ==
    ASSUME Typed, \A a \in Actors : job[a].at = "idle"
    PROVE  PassClaims /\ \A a \in Actors : job[a].opened = {}
    BY DEF Typed, PassShape, ShapeOf, PassClaims, PassClaimsOf

LEMMA AllIdleNext ==
    ASSUME Typed', \A a \in Actors : job'[a].at = "idle"
    PROVE  PassClaims'
    BY DEF Typed, PassShape, ShapeOf, PassClaims, PassClaimsOf

LEMMA IdleOutsidePasses ==
    ASSUME OneActor, pc \in {"heartbeat", Sighted, Blind}
    PROVE  \A a \in Actors : job[a].at = "idle"
    BY ClaimsAssumption DEF OneActor, Actors, Sighted, Blind

LEMMA LastNext ==
    ASSUME "stall" \notin Events, LastInv, [Next]_vars
    PROVE  LastInv'
<1> USE DEF LastInv
<1>1. Typed' /\ OneActor'
    BY TypedNext, OneActorNext
<1>2. ASSUME UNCHANGED <<held, tracked, registry, owner, job>>,
             pc' = Sighted => pc = Sighted /\ snap' = snap
      PROVE  LastInv'
  <2>1. ClaimLasts'
      BY <1>2 DEF ClaimLasts, Lasting, Registry, Scrubbed, registry
  <2>2. PassClaims'
      BY <1>2 DEF PassClaims, PassClaimsOf, Lasting, registry
  <2> QED  BY <1>1, <2>1, <2>2
<1>3. CASE Heartbeat
  <2>1. \A a \in Actors : job'[a].at = "idle"
      BY <1>3, IdleOutsidePasses DEF Heartbeat
  <2>2. PassClaims'
      BY <1>1, <2>1, AllIdleNext
  <2>3. UNCHANGED <<held, registry>>
      BY <1>3 DEF Heartbeat, exchange
  <2>4. ASSUME NEW c \in Coins, Lasting(c)'
        PROVE  /\ Lasting(c) /\ owner'[c] = owner[c] /\ c \in tracked'
               /\ pc' = Sighted => c \in snap'
    <3>1. CASE UNCHANGED <<tracked, owner>> /\ pc' = Blind
      <4>1. Lasting(c)
          BY <2>4, <3>1 DEF Lasting
      <4> QED  BY <3>1, <4>1 DEF ClaimLasts, Sighted, Blind
    <3>2. ASSUME NEW S \in SUBSET held, Believable(S), snap' = S, tracked' = S,
                 owner' = [d \in Coins |-> IF d \in Native \ S THEN NoBook ELSE owner[d]]
          PROVE  Lasting(c) /\ owner'[c] = owner[c] /\ c \in S
      <4>1. c \notin Native \ S /\ owner'[c] = owner[c] /\ Lasting(c)
          BY <2>4, <3>2 DEF Lasting
      <4>2. c \in held /\ c \in tracked
          BY <4>1 DEF ClaimLasts
      <4> QED  BY <3>2, <4>1, <4>2 DEF Believable
    <3> QED  BY <1>3, <3>1, <3>2 DEF Heartbeat
  <2>5. ClaimLasts'
      BY <2>3, <2>4 DEF ClaimLasts, Registry, Scrubbed, registry
  <2> QED  BY <1>1, <2>2, <2>5
<1>4. CASE PruneClaims
  <2>1. \A a \in Actors : job'[a].at = "idle"
      BY <1>4, IdleOutsidePasses DEF PruneClaims
  <2>2. PassClaims'
      BY <1>1, <2>1, AllIdleNext
  <2>3. ASSUME NEW c \in Coins, Lasting(c)
        PROVE  Registry'[c] = owner[c] /\ file'[c] = owner[c]
    <3>1. Registry[c] = owner[c] /\ file[c] = owner[c] /\ (pc = Sighted => c \in snap)
        BY <2>3 DEF ClaimLasts
    <3>2. OnDisk[c] = owner[c]
        BY <2>3, <3>1, LastingRegistry
    <3>3. CASE pc = Sighted
        BY <1>4, <3>1, <3>2, <3>3 DEF PruneClaims, Registry
    <3>4. CASE pc # Sighted
        BY <1>4, <3>1, <3>4 DEF PruneClaims, Registry, Scrubbed, registry
    <3> QED  BY <3>3, <3>4
  <2>4. ClaimLasts'
      BY <1>4, <2>3 DEF ClaimLasts, PruneClaims, Lasting, exchange, Sighted
  <2> QED  BY <1>1, <2>2, <2>4
<1>5. CASE NextBook
  <2>1. Order[idx] \in Books /\ Loop \in Actors /\ snap \in SUBSET Coins
      BY <1>5, ClaimsAssumption DEF NextBook, Typed, TypeOK, Books, Actors
  <2>2. UNCHANGED <<held, tracked, snap, pc, owner>> /\ pc = "books"
      BY <1>5 DEF NextBook, exchange
  <2>3. \A o \in Actors : o # Loop => job[o].at = "idle"
      BY <2>2, ClaimsAssumption DEF OneActor, Actors
  <2>4. CASE Begins(Loop, Order[idx], snap)
      BY <1>1, <2>1, <2>2, <2>3, <2>4, BeginsLasts
  <2>5. CASE UNCHANGED <<registry, job>>
      BY <1>2, <2>2, <2>5
  <2> QED  BY <1>5, <2>4, <2>5 DEF NextBook
<1>6. CASE StartLate
  <2>1. UNCHANGED <<held, tracked, snap, registry, owner>>
      BY <1>6 DEF StartLate, exchange
  <2>2. CASE pc' = "heartbeat" /\ UNCHANGED job
      BY <1>2, <2>1, <2>2 DEF Sighted
  <2>3. ASSUME NEW t \in Threads, pc' = t,
               job' = [job EXCEPT ![t] = [Idle EXCEPT !.at = "fetch", !.book = Late,
                                                      !.positions = snap]]
        PROVE  LastInv'
    <3>1. /\ t \in Actors /\ Others(t) /\ job'[t].at = "fetch" /\ job'[t].opened = {}
        BY <2>3, FetchJob DEF Typed, Actors
    <3>2. PassClaimsOf(t)'
        BY <3>1 DEF PassClaimsOf
    <3>3. \A o \in Actors : o # t => job[o].at = "idle"
        BY <1>6, ClaimsAssumption DEF StartLate, OneActor, Actors
    <3>4. PassClaims'
        BY <3>1, <3>2, <3>3, OthersCarryNothing
    <3>5. pc' # Sighted
        BY <2>3, ClaimsAssumption
    <3>6. ClaimLasts'
        BY <2>1, <3>5 DEF ClaimLasts, Lasting, Registry, Scrubbed, registry
    <3> QED  BY <1>1, <3>4, <3>6
  <2> QED  BY <1>6, <2>2, <2>3 DEF StartLate
<1>7. CASE Joined
  <2>1. UNCHANGED <<held, tracked, registry, owner, job>> /\ pc' = "heartbeat"
      BY <1>7 DEF Joined, exchange
  <2> QED  BY <1>2, <2>1 DEF Sighted
<1>8. CASE Crash
  <2>1. \A a \in Actors : job'[a].at = "idle"
      BY <1>8 DEF Crash, Idle
  <2>2. PassClaims'
      BY <1>1, <2>1, AllIdleNext
  <2>3. ClaimLasts'
      BY <1>8, LastingRegistry
      DEF ClaimLasts, Crash, Lasting, Registry, Scrubbed, exchange, Sighted
  <2> QED  BY <1>1, <2>2, <2>3
<1>9. CASE LoopCloses
  <2>1. \A a \in Actors : job[a].opened = {}
      BY <1>9, IdleOutsidePasses, AllIdle DEF LoopCloses
  <2>2. PICK c \in Coins : Flatten({c}) /\ tracked' = tracked \ {c}
      BY <1>9 DEF LoopCloses, Typed, TypeOK
  <2>3. UNCHANGED <<pc, snap, registry, job>>
      BY <1>9 DEF LoopCloses, cycle
  <2> QED  BY <1>1, <2>1, <2>2, <2>3, FlattenLasts
<1>10. CASE StopFill
  <2>1. PICK c : Flatten({c})
      BY <1>10 DEF StopFill
  <2>2. UNCHANGED <<pc, snap, registry, job, tracked>>
      BY <1>10 DEF StopFill, cycle
  <2> QED  BY <1>1, <2>1, <2>2, FlattenLasts
<1>11. CASE ManualOpen
  <2>1. UNCHANGED <<pc, snap, tracked, registry, owner, job>> /\ held \subseteq held'
      BY <1>11 DEF ManualOpen, cycle
  <2>2. ClaimLasts'
      BY <2>1 DEF ClaimLasts, Lasting, Registry, Scrubbed, registry
  <2>3. PassClaims'
      BY <2>1 DEF PassClaims, PassClaimsOf, Lasting, registry
  <2> QED  BY <1>1, <2>2, <2>3
<1>12. ASSUME NEW t \in Threads, Fetched(t)
       PROVE  LastInv'
  <2>1. t \in Actors /\ Late \in Books /\ job[t].positions \in SUBSET Coins
      BY DEF Actors, Books, Typed, TypeOK, Jobs
  <2>2. UNCHANGED <<held, tracked, snap, pc, owner>>
      BY <1>12 DEF Fetched, exchange, cycle
  <2>3. \A o \in Actors : o # t => job[o].at = "idle"
      BY <1>12, <2>1, Alone DEF Fetched
  <2>4. CASE Begins(t, Late, job[t].positions)
      BY <1>1, <2>1, <2>2, <2>3, <2>4, BeginsLasts
  <2>5. CASE job' = [job EXCEPT ![t] = Idle] /\ UNCHANGED registry
    <3>1. Others(t) /\ job'[t] = Idle
        BY <2>1, <2>5, IdledJob DEF Typed
    <3>2. PassClaimsOf(t)'
        BY <3>1 DEF PassClaimsOf, Idle
    <3>3. PassClaims'
        BY <2>1, <2>3, <3>1, <3>2, OthersCarryNothing
    <3>4. ClaimLasts'
        BY <2>2, <2>5 DEF ClaimLasts, Lasting, Registry, Scrubbed, registry
    <3> QED  BY <1>1, <3>3, <3>4
  <2> QED  BY <1>12, <2>4, <2>5 DEF Fetched
<1>13. ASSUME NEW a \in Actors,
              Claim(a) \/ ExecutorReads(a) \/ ExecutorOrders(a) \/ Finish(a)
       PROVE  LastInv'
    BY <1>1, <1>13, ClaimKeeps, ReadsKeeps, OrdersKeeps, FinishKeeps
<1>14. CASE UNCHANGED vars
    BY <1>2, <1>14 DEF vars, registry
<1> QED
    BY <1>3, <1>4, <1>5, <1>6, <1>7, <1>8, <1>9, <1>10, <1>11, <1>12, <1>13, <1>14,
       NextSplit

(* As long as the late book's thread meets its deadline, a position whose book finished
   its pass stays claimed by it while it is open: over prunes by any book and by the
   loop, refused reads, reads that miss HIP-3 clearinghouses, releases after lost
   answers, and restarts.  A native position loses its owner, and with it the promise,
   when a read that misses the main clearinghouse is believed. *)
THEOREM ClaimsLast == ASSUME "stall" \notin Events PROVE Spec => []OpenStaysClaimed
<1>1. Init => LastInv
  <2> SUFFICES ASSUME Init PROVE LastInv
      OBVIOUS
  <2>1. \A a \in Actors : job[a].at = "idle"
      BY DEF Init, Idle
  <2>2. Typed
      BY TypedInit
  <2>3. OneActor
      BY <2>1 DEF OneActor, Actors
  <2>4. ClaimLasts
      BY DEF Init, ClaimLasts, Lasting, Unclaimed
  <2> QED  BY <2>1, <2>2, <2>3, <2>4, AllIdle
      DEF LastInv
<1>2. LastInv /\ [Next]_vars => LastInv'
    BY LastNext
<1>3. LastInv => OpenStaysClaimed
    BY DEF LastInv, ClaimLasts, Lasting, OpenStaysClaimed
<1> QED  BY <1>1, <1>2, <1>3, PTL DEF Spec

==========================================================================
