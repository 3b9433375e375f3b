------------------------ MODULE AccountReads_proofs ------------------------
(***************************************************************************)
(* What an account read costs and what may be believed of it: the token    *)
(* bucket every read is paid from, and the heartbeat that judges what came *)
(* back.                                                                   *)
(*                                                                         *)
(* The lazily refilled bucket implements the budget, and so inherits its   *)
(* bound on every window.                                                  *)
(*                                                                         *)
(* The account's equity is a sum over the clearinghouses that answered, the*)
(* day's transfers one over the days of the ledger, so the heartbeat's     *)
(* proofs begin with what can be said of sums.  AccountInv is the          *)
(* inductive invariant; the baseline needs only its part Stamped.          *)
(***************************************************************************)
EXTENDS AccountSync, TokenBucket, FiniteSetTheorems, WellFoundedInduction, TLAPS

(* The budget.                                                              *)

LEMMA Products ==
    ASSUME NEW r \in Nat, NEW n \in Nat
    PROVE  /\ r * n \in Nat /\ n * r \in Nat
           /\ (n + 1) * r = n * r + r
           /\ 0 * r = 0
  OBVIOUS

LEMMA WeightType == ASSUME NEW w \in Weights \cup {0} PROVE w \in Nat
<1>1. CASE w \in Weights
  BY <1>1, BucketAssumption, BudgetAssumption
<1>2. CASE w = 0
  BY <1>2
<1> QED
  BY <1>1, <1>2

LEMMA LevelType == TypeOK => Level \in 0..Capacity
<1> SUFFICES ASSUME TypeOK PROVE Level \in 0..Capacity
  OBVIOUS
<1>1. lag * Refill \in Nat
  BY BucketAssumption, BudgetAssumption, Products DEF TypeOK
<1> QED
  BY <1>1, BucketAssumption, BudgetAssumption DEF TypeOK, Level, Least

LEMMA TypeInit == Init => TypeOK
  BY BucketAssumption, BudgetAssumption DEF Init, TypeOK

LEMMA LeaveType ==
    ASSUME TypeOK, NEW t \in Threads, Leave(t)
    PROVE  /\ pc' \in [Threads -> {"out", "acquire", "asleep"}]
           /\ weight' \in [Threads -> Weights \cup {0}]
           /\ left' \in [Threads -> 0..MaxWait] /\ nap' \in [Threads -> 0..MaxNap]
  BY BucketAssumption, BudgetAssumption DEF TypeOK, Leave

LEMMA TypeStep == TypeOK /\ [Next]_vars => TypeOK'
<1> SUFFICES ASSUME TypeOK, [Next]_vars PROVE TypeOK'
  OBVIOUS
<1>l. Level \in 0..Capacity
  BY LevelType
<1> USE BucketAssumption, BudgetAssumption
<1>1. ASSUME NEW t \in Threads, Call(t) PROVE TypeOK'
  BY <1>1 DEF Call, TypeOK, window
<1>2. ASSUME NEW t \in Threads, Grant(t) PROVE TypeOK'
  <2>w. weight[t] \in Weights \cup {0}
    BY DEF TypeOK
  <2>n. weight[t] \in Nat
    BY <2>w, WeightType
  <2>0. weight[t] \in Nat /\ weight[t] <= Level
    BY <1>2, <2>n DEF Grant
  <2>1. Level - weight[t] \in 0..Capacity
    BY <1>l, <2>0
  <2>2. granted + weight[t] \in Nat
    BY <2>0 DEF TypeOK
  <2>3. tokens' \in 0..Capacity /\ lag' \in 0..MaxLag
    BY <1>2, <2>1 DEF Grant
  <2>4. contended' \in [Threads -> BOOLEAN] /\ elapsed' \in 0..MaxWindow
    BY <1>2 DEF Grant, TypeOK
  <2>5. Leave(t)
    BY <1>2 DEF Grant
  <2>6. granted' \in Nat
    BY <1>2, <2>2 DEF Grant
  <2> QED
    BY <2>3, <2>4, <2>5, <2>6, LeaveType DEF TypeOK
<1>3. ASSUME NEW t \in Threads, Refuse(t) PROVE TypeOK'
  <2>1. Leave(t) /\ tokens' = Level /\ lag' = 0 /\ UNCHANGED window
        /\ contended' = [contended EXCEPT ![t] = FALSE]
    BY <1>3 DEF Refuse
  <2>2. contended' \in [Threads -> BOOLEAN]
    BY <2>1 DEF TypeOK
  <2> QED
    BY <2>1, <2>2, <1>l, LeaveType DEF TypeOK, window
<1>4. ASSUME NEW t \in Threads, Sleep(t) PROVE TypeOK'
  <2>1. PICK n \in 1..MaxNap : nap' = [nap EXCEPT ![t] = n]
    BY <1>4 DEF Sleep, Naps
  <2>2. nap' \in [Threads -> 0..MaxNap]
    BY <2>1 DEF TypeOK
  <2> QED
    BY <1>4, <1>l, <2>2 DEF Sleep, TypeOK, window
<1>5. ASSUME NEW t \in Threads, Wake(t) PROVE TypeOK'
  BY <1>5 DEF Wake, TypeOK, window
<1>6. CASE Tick
  <2>1. lag' \in 0..MaxLag
    BY <1>6 DEF Tick, Least, TypeOK
  <2>2. left' \in [Threads -> 0..MaxWait] /\ nap' \in [Threads -> 0..MaxNap]
    BY <1>6 DEF Tick, CountDown, TypeOK
  <2>3. elapsed' \in 0..MaxWindow /\ granted' \in Nat
    BY <1>6 DEF Tick, TypeOK
  <2> QED
    BY <1>6, <2>1, <2>2, <2>3 DEF Tick, TypeOK
<1>7. CASE OpenWindow
  BY <1>7 DEF OpenWindow, TypeOK, calls
<1>8. CASE UNCHANGED vars
  BY <1>8 DEF vars, calls, window, TypeOK
<1> QED
  BY <1>1, <1>2, <1>3, <1>4, <1>5, <1>6, <1>7, <1>8 DEF Next, Acquire

\* Capping what is there before more comes in, or only afterwards, is the same.
LEMMA CapTwice ==
    ASSUME NEW c \in Nat, NEW x \in Nat, NEW r \in Nat
    PROVE  Least(c, Least(c, x) + r) = Least(c, x + r)
  BY DEF Least

LEMMA LevelAfterLook ==
    ASSUME NEW n \in 0..Capacity, tokens' = n, lag' = 0
    PROVE  Level' = n
<1>1. Level' = Least(Capacity, n + 0 * Refill)
  BY DEF Level
<1>2. 0 * Refill = 0
  BY BucketAssumption, BudgetAssumption, Products
<1> QED
  BY <1>1, <1>2, BucketAssumption, BudgetAssumption DEF Least

LEMMA LevelAfterTick ==
    ASSUME TypeOK, lag' = Least(MaxLag, lag + 1), tokens' = tokens
    PROVE  Level' = Least(Capacity, Level + Refill)
<1> DEFINE unspent == lag * Refill
<1>1. unspent \in Nat /\ (lag + 1) * Refill = unspent + Refill
  BY BucketAssumption, BudgetAssumption, Products DEF TypeOK
<1>2. Capacity \in Nat /\ Refill \in Nat /\ tokens \in Nat /\ lag \in 0..MaxLag
      /\ MaxLag \in Nat
  BY BucketAssumption, BudgetAssumption DEF TypeOK
<1>3. CASE lag < MaxLag
  <2>1. lag' = lag + 1
    BY <1>2, <1>3 DEF Least
  <2>2. Level' = Least(Capacity, tokens + (lag + 1) * Refill)
    BY <2>1 DEF Level
  <2>3. Level = Least(Capacity, tokens + unspent)
    BY DEF Level
  <2> HIDE DEF unspent
  <2>4. tokens + unspent \in Nat /\ tokens + (unspent + Refill) = (tokens + unspent) + Refill
    BY <1>1, <1>2
  <2>5. Level' = Least(Capacity, (tokens + unspent) + Refill)
    BY <1>1, <2>2, <2>4, Zenon
  <2>6. Least(Capacity, Least(Capacity, tokens + unspent) + Refill)
          = Least(Capacity, (tokens + unspent) + Refill)
    BY <1>2, <2>4, CapTwice
  <2> QED
    BY <2>3, <2>5, <2>6, Zenon
<1>4. CASE lag = MaxLag
  <2>1. lag' = lag
    BY <1>2, <1>4 DEF Least
  <2>2. Level' = Level
    BY <2>1 DEF Level
  <2>3. unspent >= Capacity
    BY <1>4, LagFills
  <2>4. Level = Least(Capacity, tokens + unspent)
    BY DEF Level
  <2> HIDE DEF unspent
  <2>5. Level = Capacity
    BY <1>1, <1>2, <2>3, <2>4 DEF Least
  <2>6. Least(Capacity, Capacity + Refill) = Capacity
    BY <1>2 DEF Least
  <2> QED
    BY <2>2, <2>5, <2>6
<1> QED
  BY <1>2, <1>3, <1>4

LEMMA RefineInit == Init => Budget!Init
<1> SUFFICES ASSUME Init PROVE Level = Capacity
  BY DEF Init, Budget!Init
<1>1. lag * Refill = 0
  BY BucketAssumption, BudgetAssumption, Products DEF Init
<1> QED
  BY <1>1, BucketAssumption, BudgetAssumption DEF Init, Level, Least

LEMMA RefineStep == TypeOK /\ [Next]_vars => [Budget!Next]_(Budget!vars)
<1> SUFFICES ASSUME TypeOK, [Next]_vars PROVE [Budget!Next]_(Budget!vars)
  OBVIOUS
<1>l. Level \in 0..Capacity
  BY LevelType
<1>q. ASSUME UNCHANGED <<tokens, lag, elapsed, granted>> PROVE UNCHANGED Budget!vars
  BY <1>q DEF Budget!vars, Level
<1>1. ASSUME NEW t \in Threads, Call(t) PROVE UNCHANGED Budget!vars
  BY <1>1, <1>q DEF Call, window
<1>2. ASSUME NEW t \in Threads, Grant(t) PROVE Budget!Next \/ UNCHANGED Budget!vars
  <2>w. weight[t] \in Weights \cup {0} /\ granted \in Nat
    BY DEF TypeOK
  <2>o. weight[t] \in Nat
    BY <2>w, WeightType
  <2>n. weight[t] \in Nat /\ weight[t] <= Level
    BY <1>2, <2>o DEF Grant
  <2>1. Level - weight[t] \in 0..Capacity
    BY <1>l, <2>n, BucketAssumption, BudgetAssumption
  <2>2. Level' = Level - weight[t]
    BY <1>2, <2>1, LevelAfterLook DEF Grant
  <2>3. granted' = granted + weight[t] /\ elapsed' = elapsed
    BY <1>2 DEF Grant
  <2>4. CASE weight[t] \in Weights
    <3>1. Budget!Grant
      BY <2>2, <2>3, <2>4, <2>n DEF Budget!Grant
    <3> QED
      BY <3>1 DEF Budget!Next
  <2>5. CASE weight[t] = 0
    <3>1. Level - weight[t] = Level /\ granted + weight[t] = granted
      BY <1>l, <2>w, <2>5, BucketAssumption, BudgetAssumption
    <3> QED
      BY <2>2, <2>3, <3>1, Zenon DEF Budget!vars
  <2> QED
    BY <2>w, <2>4, <2>5
<1>3. ASSUME NEW t \in Threads, Refuse(t) \/ Sleep(t) PROVE UNCHANGED Budget!vars
  <2>1. Level' = Level
    BY <1>3, <1>l, LevelAfterLook DEF Refuse, Sleep
  <2> QED
    BY <1>3, <2>1 DEF Refuse, Sleep, window, Budget!vars
<1>4. ASSUME NEW t \in Threads, Wake(t) PROVE UNCHANGED Budget!vars
  BY <1>4, <1>q DEF Wake, window
<1>5. CASE Tick
  <2>1. Level' = Least(Capacity, Level + Refill)
    BY <1>5, LevelAfterTick DEF Tick
  <2>2. Level' = Budget!Least(Capacity, Level + Refill)
    BY <2>1 DEF Least, Budget!Least
  <2>3. Budget!Tick
    BY <1>5, <2>2 DEF Tick, Budget!Tick
  <2> QED
    BY <2>3 DEF Budget!Next
<1>6. CASE OpenWindow
  <2>1. Level' = Level
    BY <1>6 DEF OpenWindow, Level
  <2> QED
    BY <1>6, <2>1 DEF OpenWindow, Budget!OpenWindow, Budget!Next
<1>7. CASE UNCHANGED vars
  BY <1>7, <1>q DEF vars, window
<1> QED
  BY <1>1, <1>2, <1>3, <1>4, <1>5, <1>6, <1>7 DEF Next, Acquire

\* The types of the bucket's state.
THEOREM TypeCorrect == Spec => []TypeOK
  BY TypeInit, TypeStep, PTL DEF Spec

\* Whatever its callers do and however late they run, the bucket that looks at
\* the clock only when asked behaves as the budget that is refilled all the time.
THEOREM Refinement == Spec => ImplementsBudget
<1>1. Spec => Budget!Spec
  BY TypeCorrect, RefineInit, RefineStep, PTL DEF Spec, Budget!Spec
<1> QED
  BY <1>1 DEF ImplementsBudget

\* What was refilled in the window.  What has been granted in it and what is left
\* to grant are paid out of that and one burst.
Refilled    == Refill * elapsed
LevelCounts == granted + Level <= Capacity + Refilled
Window      == elapsed \in 0..MaxWindow /\ granted \in Nat /\ Level \in 0..Capacity
Paid        == Window /\ LevelCounts

LEMMA RefilledTypes ==
    /\ Window => Refilled \in Nat
    /\ elapsed' = 0 => Refilled' = 0
    /\ Window /\ elapsed' = elapsed + 1 => Refilled' = Refilled + Refill
<1>1. \A r, n \in Nat : r * n \in Nat /\ r * 0 = 0 /\ r * (n + 1) = r * n + r
  OBVIOUS
<1>2. Refill \in Nat /\ MaxWindow \in Nat
  BY BudgetAssumption
<1> QED
  BY <1>1, <1>2 DEF Refilled, Window

LEMMA LevelRises ==
    ASSUME NEW g \in Nat, NEW l \in Nat, NEW m \in Nat, NEW c \in Nat,
           NEW r \in Nat, NEW f \in Nat, g + l <= c + r, m <= l + f
    PROVE  g + m <= c + (r + f)
  OBVIOUS

LEMMA BudgetInit == Budget!Init => Paid
<1> SUFFICES ASSUME Budget!Init PROVE Paid
  OBVIOUS
<1>1. Level = Capacity /\ elapsed = 0 /\ granted = 0
  BY DEF Budget!Init
<1>2. Refill * 0 = 0
  BY BudgetAssumption
<1> QED
  BY <1>1, <1>2, BudgetAssumption DEF Paid, Window, LevelCounts, Refilled

LEMMA BudgetTick == ASSUME Paid, Budget!Tick PROVE Paid'
<1>0. /\ Capacity \in Nat /\ Refill \in Nat /\ MaxWindow \in Nat \ {0}
      /\ Level \in 0..Capacity /\ elapsed \in 0..MaxWindow /\ granted \in Nat
      /\ Refilled \in Nat /\ granted + Level <= Capacity + Refilled
  BY BudgetAssumption, RefilledTypes DEF Paid, Window, LevelCounts
<1>1. PICK m \in 0..Capacity : Level' = m /\ m <= Level + Refill
  BY <1>0 DEF Budget!Tick, Budget!Least
<1>2. CASE elapsed < MaxWindow /\ elapsed' = elapsed + 1 /\ granted' = granted
  <2>1. Refilled' = Refilled + Refill
    BY <1>2, RefilledTypes DEF Paid
  <2>2. granted + m <= Capacity + (Refilled + Refill)
    BY <1>0, <1>1, LevelRises
  <2>3. LevelCounts'
    BY <1>1, <1>2, <2>1, <2>2, Zenon DEF LevelCounts
  <2>4. Window'
    BY <1>0, <1>1, <1>2 DEF Window
  <2> QED
    BY <2>3, <2>4 DEF Paid
<1>3. CASE elapsed' = 0 /\ granted' = 0
  <2>1. Refilled' = 0
    BY <1>3, RefilledTypes
  <2>2. 0 + m <= Capacity + 0
    BY <1>0, <1>1
  <2>3. LevelCounts'
    BY <1>1, <1>3, <2>1, <2>2, Zenon DEF LevelCounts
  <2>4. Window'
    BY <1>0, <1>1, <1>3 DEF Window
  <2> QED
    BY <2>3, <2>4 DEF Paid
<1>4. \/ elapsed < MaxWindow /\ elapsed' = elapsed + 1 /\ granted' = granted
      \/ elapsed' = 0 /\ granted' = 0
  BY DEF Budget!Tick
<1> QED
  BY <1>2, <1>3, <1>4

LEMMA BudgetStep == Paid /\ [Budget!Next]_(Budget!vars) => Paid'
<1> SUFFICES ASSUME Paid, [Budget!Next]_(Budget!vars) PROVE Paid'
  OBVIOUS
<1>0. /\ Capacity \in Nat /\ Refill \in Nat
      /\ Level \in 0..Capacity /\ elapsed \in 0..MaxWindow /\ granted \in Nat
      /\ Refilled \in Nat /\ granted + Level <= Capacity + Refilled
  BY BudgetAssumption, RefilledTypes DEF Paid, Window, LevelCounts
<1>1. CASE Budget!Tick
  BY <1>1, BudgetTick
<1>2. CASE Budget!Grant
  <2>1. PICK w \in Weights : /\ w <= Level /\ Level' = Level - w
                             /\ granted' = granted + w /\ elapsed' = elapsed
    BY <1>2 DEF Budget!Grant
  <2>2. w \in Nat /\ Refilled' = Refilled
    BY <2>1, BudgetAssumption DEF Refilled
  <2>3. Level' \in 0..Capacity /\ granted' \in Nat
        /\ granted' + Level' <= Capacity + Refilled
    BY <1>0, <2>1, <2>2
  <2> QED
    BY <1>0, <2>1, <2>2, <2>3 DEF Paid, Window, LevelCounts
<1>3. CASE Budget!OpenWindow
  <2>1. Level' = Level /\ elapsed' = 0 /\ granted' = 0 /\ Refilled' = 0
    BY <1>3, RefilledTypes DEF Budget!OpenWindow
  <2> QED
    BY <1>0, <2>1, BudgetAssumption DEF Paid, Window, LevelCounts
<1>4. CASE UNCHANGED Budget!vars
  BY <1>4 DEF Budget!vars, Paid, Window, LevelCounts, Refilled
<1> QED
  BY <1>1, <1>2, <1>3, <1>4 DEF Budget!Next

\* What follows RateBudget, by whatever steps, grants no window more than a burst
\* and the window's own refill: nothing but the abstract budget is used.
THEOREM BudgetIsBounded == Budget!Spec => []Budget!WindowBound
<1>1. Paid => Budget!WindowBound
  <2> SUFFICES ASSUME Paid PROVE granted <= Capacity + Refilled
    BY DEF Budget!WindowBound, Refilled
  <2> QED
    BY BudgetAssumption, RefilledTypes DEF Paid, Window, LevelCounts
<1> QED
  BY <1>1, BudgetInit, BudgetStep, PTL DEF Budget!Spec

\* So no window of time, opened whenever, in which acquire() serves its callers
\* holds more weight than one burst and what was refilled in it.
THEOREM WindowIsBounded == Spec => []WindowBound
<1>1. Spec => Budget!Spec
  BY Refinement DEF ImplementsBudget
<1>2. Budget!WindowBound => WindowBound
  BY DEF Budget!WindowBound, WindowBound
<1> QED
  BY <1>1, <1>2, BudgetIsBounded, PTL

---------------------------------------------------------------------------
\* What a call that nobody else was served during can count on: what the bucket
\* holds and what will be refilled until its deadline is enough for it.  It is at
\* the call, each tick moves a refill from the future into the bucket (or finds
\* the bucket full), and only another call's grant takes anything out.
InTime ==
    \A t \in Threads :
        /\ pc[t] # "out" /\ ~contended[t]
        /\ weight[t] <= Capacity /\ weight[t] <= Refill * MaxWait
        => weight[t] <= Level + left[t] * Refill

LEMMA Typed ==
    ASSUME TypeOK, NEW t \in Threads
    PROVE  /\ Level \in Nat /\ Level <= Capacity
           /\ weight[t] \in Nat /\ left[t] \in Nat
           /\ Capacity \in Nat /\ Refill \in Nat /\ MaxWait \in Nat
<1>1. weight[t] \in Weights \cup {0} /\ left[t] \in 0..MaxWait
  BY DEF TypeOK
<1>2. weight[t] \in Nat
  BY <1>1, WeightType
<1>3. Level \in 0..Capacity
  BY LevelType
<1> QED
  BY <1>1, <1>2, <1>3, BucketAssumption, BudgetAssumption

\* A step that leaves level and deadlines alone, and opens no call.
LEMMA InTimeKept ==
    ASSUME TypeOK, InTime, Level' = Level,
           \A t \in Threads :
              /\ pc'[t] # "out" => pc[t] # "out" /\ weight'[t] = weight[t] /\ left'[t] = left[t]
              /\ pc'[t] # "out" => (contended[t] => contended'[t])
    PROVE  InTime'
  BY DEF InTime

LEMMA LeaveOne ==
    ASSUME TypeOK, NEW t \in Threads, Leave(t)
    PROVE  \A u \in Threads : pc'[u] # "out" =>
              u # t /\ pc[u] # "out" /\ weight'[u] = weight[u] /\ left'[u] = left[u]
  BY DEF Leave, TypeOK

LEMMA InTimeCall ==
    ASSUME TypeOK, InTime, NEW t \in Threads, Call(t)
    PROVE  InTime'
<1>1. Level' = Level
  BY DEF Call, Level
<1>2. ASSUME NEW u \in Threads, weight'[u] <= Refill * MaxWait, weight'[u] <= Capacity,
             pc'[u] # "out", ~contended'[u]
      PROVE  weight'[u] <= Level' + left'[u] * Refill
  <2>1. CASE u = t
    <3>1. left'[u] = MaxWait /\ weight'[u] \in Weights
      BY <2>1 DEF Call, TypeOK
    <3>2. Level \in Nat /\ weight'[u] \in Nat /\ Refill \in Nat /\ MaxWait \in Nat
      BY <3>1, Typed, WeightType
    <3>3. Refill * MaxWait = MaxWait * Refill /\ MaxWait * Refill \in Nat
      BY <3>2
    <3> QED
      BY <1>1, <1>2, <3>1, <3>2, <3>3
  <2>2. CASE u # t
    <3>1. pc'[u] = pc[u] /\ weight'[u] = weight[u] /\ left'[u] = left[u]
      BY <2>2 DEF Call, TypeOK
    <3>2. ~contended[u]
      BY <1>2, <2>2, Zenon DEF Call, TypeOK
    <3> QED
      BY <1>1, <1>2, <3>1, <3>2 DEF InTime
  <2> QED
    BY <2>1, <2>2
<1> QED
  BY <1>2 DEF InTime

LEMMA InTimeTick ==
    ASSUME TypeOK, InTime, Tick
    PROVE  InTime'
<1>1. Level' = Least(Capacity, Level + Refill)
  BY LevelAfterTick DEF Tick
<1>2. UNCHANGED <<pc, weight, contended>>
  BY DEF Tick
<1>3. ASSUME NEW t \in Threads, weight[t] <= Level + left[t] * Refill, weight[t] <= Capacity
      PROVE  weight[t] <= Level' + left'[t] * Refill
  <2>0. /\ Level \in Nat /\ Level <= Capacity /\ weight[t] \in Nat /\ left[t] \in Nat
        /\ Capacity \in Nat /\ Refill \in Nat
    BY Typed
  <2>1. left'[t] = CountDown(left[t])
    BY DEF Tick
  <2>2. CASE left[t] = 0
    <3>1. left'[t] = 0 /\ 0 * Refill = 0
      BY <2>0, <2>1, <2>2, Products DEF CountDown
    <3>2. Level' \in Nat /\ Level' >= Level
      BY <1>1, <2>0 DEF Least
    <3> QED
      BY <1>3, <2>0, <2>2, <3>1, <3>2
  <2>3. CASE left[t] # 0
    <3>1. PICK n \in Nat : left[t] = n + 1
      BY <2>0, <2>3
    <3>2. left'[t] = n
      BY <2>1, <3>1 DEF CountDown
    <3>3. left[t] * Refill = n * Refill + Refill /\ n * Refill \in Nat
      BY <2>0, <3>1, Products
    <3>4. Level' = Capacity \/ Level' = Level + Refill
      BY <1>1 DEF Least
    <3> DEFINE rest == n * Refill
    <3>5. weight[t] <= Level + (rest + Refill) /\ rest \in Nat
      BY <1>3, <3>3
    <3> HIDE DEF rest
    <3>6. weight[t] <= Level' + rest
      BY <1>3, <2>0, <3>4, <3>5
    <3> QED
      BY <3>2, <3>6 DEF rest
  <2> QED
    BY <2>2, <2>3
<1> QED
  BY <1>2, <1>3 DEF InTime

LEMMA InTimeInvariant == Spec => []InTime
<1>1. Init => InTime
  BY DEF Init, InTime
<1>2. TypeOK /\ InTime /\ [Next]_vars => InTime'
  <2> SUFFICES ASSUME TypeOK, InTime, [Next]_vars PROVE InTime'
    OBVIOUS
  <2>l. Level \in 0..Capacity
    BY LevelType
  <2>1. ASSUME NEW t \in Threads, Call(t) PROVE InTime'
    BY <2>1, InTimeCall
  <2>2. ASSUME NEW t \in Threads, Grant(t) PROVE InTime'
    <3>1. Leave(t) /\ contended' = [u \in Threads |-> u # t /\ (contended[u] \/ pc[u] # "out")]
      BY <2>2 DEF Grant
    <3>2. \A u \in Threads : pc'[u] # "out" => u # t /\ pc[u] # "out"
      BY <3>1, LeaveOne
    <3>3. \A u \in Threads : pc'[u] # "out" => contended'[u]
      BY <3>1, <3>2
    <3> QED
      BY <3>3 DEF InTime
  <2>3. ASSUME NEW t \in Threads, Refuse(t) PROVE InTime'
    <3>1. Leave(t) /\ contended' = [contended EXCEPT ![t] = FALSE] /\ Level' = Level
      BY <2>3, <2>l, LevelAfterLook DEF Refuse
    <3>2. \A u \in Threads : u # t => contended'[u] = contended[u]
      BY <3>1 DEF TypeOK
    <3> QED
      BY <3>1, <3>2, LeaveOne, InTimeKept
  <2>4. ASSUME NEW t \in Threads, Sleep(t) PROVE InTime'
    <3>1. Level' = Level /\ UNCHANGED <<weight, left, contended>>
      BY <2>4, <2>l, LevelAfterLook DEF Sleep
    <3>2. \A u \in Threads : pc'[u] # "out" => pc[u] # "out"
      BY <2>4 DEF Sleep, TypeOK
    <3> QED
      BY <3>1, <3>2, InTimeKept
  <2>5. ASSUME NEW t \in Threads, Wake(t) PROVE InTime'
    <3>1. Level' = Level /\ UNCHANGED <<weight, left, contended>>
      BY <2>5 DEF Wake, Level
    <3>2. \A u \in Threads : pc'[u] # "out" => pc[u] # "out"
      BY <2>5 DEF Wake, TypeOK
    <3> QED
      BY <3>1, <3>2, InTimeKept
  <2>6. CASE Tick
    BY <2>6, InTimeTick
  <2>7. CASE OpenWindow \/ UNCHANGED vars
    <3>1. Level' = Level /\ UNCHANGED <<pc, weight, left, contended>>
      BY <2>7 DEF OpenWindow, vars, calls, Level
    <3> QED
      BY <3>1, InTimeKept
  <2> QED
    BY <2>1, <2>2, <2>3, <2>4, <2>5, <2>6, <2>7 DEF Next, Acquire
<1> QED
  BY <1>1, <1>2, TypeCorrect, PTL DEF Spec

\* acquire() refuses a call that the bucket could have served in time only if
\* another call was granted in between, however late any thread was run.
THEOREM RefusedWhenContended == Spec => RefusedOnlyWhenContended
<1> DEFINE OnlyThen == \A t \in Threads :
                          Refuse(t) /\ weight[t] <= Capacity /\ weight[t] <= Refill * MaxWait
                             => contended[t]
<1>1. TypeOK /\ InTime => OnlyThen
  <2> SUFFICES ASSUME TypeOK, InTime, NEW t \in Threads, Refuse(t),
                      weight[t] <= Capacity, weight[t] <= Refill * MaxWait, ~contended[t]
               PROVE  FALSE
    OBVIOUS
  <2>1. weight[t] <= Level + left[t] * Refill
    BY DEF Refuse, InTime
  <2>2. weight[t] - Level > left[t] * Refill
    BY DEF Refuse, Hopeless
  <2>3. Level \in Nat /\ weight[t] \in Nat /\ left[t] \in Nat /\ Refill \in Nat
    BY Typed
  <2>4. left[t] * Refill \in Nat
    BY <2>3, Products
  <2> QED
    BY <2>1, <2>2, <2>3, <2>4
<1>2. TypeOK /\ InTime /\ [Next]_vars => [OnlyThen]_vars
  BY <1>1
<1> QED
  BY <1>2, TypeCorrect, InTimeInvariant, PTL DEF Spec, RefusedOnlyWhenContended
---------------------------------------------------------------------------
(* Sums over finite sets, by the least counterexample.                      *)

\* A nonempty set of natural numbers has a least member.
LEMMA LeastNumber ==
    ASSUME NEW T, T \subseteq Nat, T # {}
    PROVE  \E n \in T : \A m \in T : n <= m
<1>1. PICK n \in T : \A m \in T : ~(<<m, n>> \in OpToRel(<, Nat))
  BY WFMin, NatLessThanWellFounded
<1>2. ASSUME NEW m \in T PROVE n <= m
  <2>1. n \in Nat /\ m \in Nat
    OBVIOUS
  <2>2. ~(m < n)
    BY <1>1, <2>1 DEF OpToRel
  <2> QED
    BY <2>1, <2>2
<1> QED
  BY <1>2

\* What is true of a set whenever it is true of the set without any one of its
\* members is true of every finite set.  The predicate is a set of sets here.
LEMMA MemberByMember ==
    ASSUME NEW S, IsFiniteSet(S), NEW G,
           \A s \in SUBSET S : (\A x \in s : s \ {x} \in G) => s \in G
    PROVE  \A s \in SUBSET S : s \in G
<1> DEFINE Bad == {s \in SUBSET S : s \notin G}
           T   == {n \in Nat : \E s \in Bad : Cardinality(s) = n}
<1>1. \A s \in SUBSET S : IsFiniteSet(s) /\ Cardinality(s) \in Nat
  BY FS_Subset, FS_CardinalityType
<1>2. SUFFICES ASSUME Bad # {} PROVE FALSE
  OBVIOUS
<1>3. T # {}
  BY <1>1, <1>2
<1>4. PICK n \in T : \A m \in T : n <= m
  <2> HIDE DEF T
  <2>1. T \subseteq Nat
    BY DEF T
  <2> QED
    BY <1>3, <2>1, LeastNumber
<1>5. PICK s \in Bad : Cardinality(s) = n
  BY <1>4
<1>6. ASSUME NEW x \in s PROVE s \ {x} \in G
  <2>1. Cardinality(s \ {x}) = n - 1
    BY <1>1, <1>5, <1>6, FS_RemoveElement
  <2>2. s \ {x} \in SUBSET S
    BY <1>5
  <2>3. n \in Nat /\ n - 1 \in Nat
    BY <1>1, <2>1, <2>2
  <2>4. n - 1 \notin T
    BY <1>4, <2>3
  <2> QED
    BY <2>1, <2>2, <2>3, <2>4
<1> QED
  BY <1>5, <1>6

\* The function that SumFunctionOnSet(f, S) is the value of at S.
Some(s) == CHOOSE x \in s : TRUE
Adds(f, S, g) ==
    g = [s \in SUBSET S |-> IF s = {} THEN 0 ELSE f[Some(s)] + g[s \ {Some(s)}]]

LEMMA SumIsChosen ==
    ASSUME NEW f, NEW S
    PROVE  SumFunctionOnSet(f, S) = (CHOOSE g : Adds(f, S, g))[S]
  BY DEF SumFunctionOnSet, FoldFunctionOnSet, MapThenFoldSet, Adds, Some

LEMMA SomeMember == ASSUME NEW s, s # {} PROVE Some(s) \in s
  BY DEF Some

\* It exists: up to n members for every n, hence on all subsets of a finite set.
LEMMA SumExists ==
    ASSUME NEW f, NEW S, IsFiniteSet(S)
    PROVE  \E g : Adds(f, S, g)
<1> DEFINE Small(n) == {s \in SUBSET S : Cardinality(s) <= n}
           Good(n, g) == g = [s \in Small(n) |-> IF s = {} THEN 0
                                                 ELSE f[Some(s)] + g[s \ {Some(s)}]]
           Bad == {n \in Nat : ~ \E g : Good(n, g)}
<1>1. \A s \in SUBSET S : IsFiniteSet(s) /\ Cardinality(s) \in Nat
  BY FS_Subset, FS_CardinalityType
<1>2. \A s \in SUBSET S : Cardinality(s) = 0 => s = {}
  BY <1>1, FS_EmptySet
<1>3. 0 \notin Bad
  <2> DEFINE g == [s \in Small(0) |-> 0]
  <2>1. \A s \in Small(0) : s = {}
    BY <1>1, <1>2
  <2>2. Good(0, g)
    BY <2>1
  <2> QED
    BY <2>2
<1>4. ASSUME NEW n \in Nat, n \notin Bad PROVE n + 1 \notin Bad
  <2>1. PICK g : Good(n, g)
    BY <1>4
  <2> DEFINE h == [s \in Small(n + 1) |-> IF s = {} THEN 0
                                          ELSE f[Some(s)] + g[s \ {Some(s)}]]
  <2>2. ASSUME NEW s \in Small(n)
        PROVE  g[s] = IF s = {} THEN 0 ELSE f[Some(s)] + g[s \ {Some(s)}]
    BY <2>1, Zenon
  <2>3. ASSUME NEW s \in Small(n + 1), s # {}
        PROVE  s \ {Some(s)} \in Small(n) /\ s \ {Some(s)} \in Small(n + 1)
    <3>1. Cardinality(s \ {Some(s)}) = Cardinality(s) - 1
      BY <1>1, <2>3, SomeMember, FS_RemoveElement
    <3>2. s \ {Some(s)} \in SUBSET S /\ Cardinality(s) \in Nat /\ Cardinality(s) <= n + 1
      BY <1>1
    <3> QED
      BY <3>1, <3>2
  <2>4. ASSUME NEW s \in Small(n + 1), s # {}
        PROVE  h[s \ {Some(s)}] = g[s \ {Some(s)}]
    <3> DEFINE t == s \ {Some(s)}
    <3>1. t \in Small(n) /\ t \in Small(n + 1)
      BY <2>3, <2>4
    <3>2. h[t] = IF t = {} THEN 0 ELSE f[Some(t)] + g[t \ {Some(t)}]
      BY <3>1, Zenon
    <3> QED
      BY <2>2, <3>1, <3>2, Zenon
  <2>5. Good(n + 1, h)
    BY <2>4
  <2>6. n + 1 \in Nat
    OBVIOUS
  <2> HIDE DEF Good, h
  <2> QED
    BY <2>5, <2>6
<1>5. Bad = {}
  <2> SUFFICES ASSUME Bad # {} PROVE FALSE
    OBVIOUS
  <2>0. Bad \subseteq Nat
    OBVIOUS
  <2> HIDE DEF Bad
  <2>1. PICK k \in Bad : \A m \in Bad : k <= m
    BY <2>0, LeastNumber
  <2>2. k \in Nat /\ k # 0 /\ k - 1 \in Nat
    BY <1>3, <2>0, <2>1
  <2>3. k - 1 \notin Bad
    BY <2>1, <2>2
  <2>4. (k - 1) + 1 \notin Bad
    BY <1>4, <2>2, <2>3
  <2> QED
    BY <2>2, <2>4
<1>6. PICK g : Good(Cardinality(S), g)
  BY <1>1, <1>5
<1>7. Small(Cardinality(S)) = SUBSET S
  BY FS_Subset
<1>8. Adds(f, S, g)
  BY <1>6, <1>7 DEF Adds
<1> QED
  BY <1>8

\* Two such functions agree where both are defined.
LEMMA SumUnique ==
    ASSUME NEW f, NEW S, IsFiniteSet(S), NEW T \in SUBSET S,
           NEW g, Adds(f, S, g), NEW h, Adds(f, T, h)
    PROVE  \A s \in SUBSET T : g[s] = h[s]
<1> DEFINE G == {s \in SUBSET T : g[s] = h[s]}
<1>1. IsFiniteSet(T)
  BY FS_Subset
<1>2. ASSUME NEW s \in SUBSET T, \A x \in s : s \ {x} \in G PROVE s \in G
  <2>1. g[s] = IF s = {} THEN 0 ELSE f[Some(s)] + g[s \ {Some(s)}]
    <3>1. s \in SUBSET S
      OBVIOUS
    <3> QED
      BY <3>1, Zenon DEF Adds
  <2>2. h[s] = IF s = {} THEN 0 ELSE f[Some(s)] + h[s \ {Some(s)}]
    BY Zenon DEF Adds
  <2>3. s # {} => g[s \ {Some(s)}] = h[s \ {Some(s)}]
    BY <1>2, SomeMember
  <2> QED
    BY <2>1, <2>2, <2>3
<1> HIDE DEF G
<1>3. \A s \in SUBSET T : s \in G
  BY <1>1, <1>2, MemberByMember
<1> QED
  BY <1>3 DEF G

LEMMA SumOfNone == ASSUME NEW f PROVE SumFunctionOnSet(f, {}) = 0
<1>1. PICK g : Adds(f, {}, g)
  BY SumExists, FS_EmptySet
<1> DEFINE c == CHOOSE x : Adds(f, {}, x)
<1>2. Adds(f, {}, c)
  BY <1>1, Zenon
<1> HIDE DEF c
<1>3. c[{}] = 0
  BY <1>2 DEF Adds
<1> QED
  BY <1>3, SumIsChosen DEF c

LEMMA SumUnfolds ==
    ASSUME NEW f, NEW S, IsFiniteSet(S), S # {}
    PROVE  SumFunctionOnSet(f, S) = f[Some(S)] + SumFunctionOnSet(f, S \ {Some(S)})
<1> DEFINE R == S \ {Some(S)}
           c == CHOOSE x : Adds(f, S, x)
           d == CHOOSE x : Adds(f, R, x)
<1>1. R \in SUBSET S /\ IsFiniteSet(R)
  BY FS_Subset
<1>2. Adds(f, S, c)
  BY SumExists, Zenon
<1>3. Adds(f, R, d)
  BY <1>1, SumExists, Zenon
<1>s. SumFunctionOnSet(f, S) = c[S] /\ SumFunctionOnSet(f, R) = d[R]
  BY SumIsChosen
<1> HIDE DEF c, d
<1>4. c[R] = d[R]
  <2> HIDE DEF R
  <2> QED
    BY <1>1, <1>2, <1>3, SumUnique
<1>5. c[S] = f[Some(S)] + c[S \ {Some(S)}]
  <2>1. c[S] = IF S = {} THEN 0 ELSE f[Some(S)] + c[S \ {Some(S)}]
    BY <1>2, Zenon DEF Adds
  <2> QED
    BY <2>1
<1> QED
  BY <1>4, <1>5, <1>s

LEMMA SumType ==
    ASSUME NEW f, NEW S, IsFiniteSet(S), \A x \in S : f[x] \in Int
    PROVE  \A s \in SUBSET S : SumFunctionOnSet(f, s) \in Int
<1> DEFINE G == {s \in SUBSET S : SumFunctionOnSet(f, s) \in Int}
<1>1. ASSUME NEW s \in SUBSET S, \A x \in s : s \ {x} \in G PROVE s \in G
  <2>1. CASE s = {}
    BY <2>1, SumOfNone
  <2>2. CASE s # {}
    <3>1. IsFiniteSet(s) /\ Some(s) \in s
      BY <2>2, FS_Subset, SomeMember
    <3>2. SumFunctionOnSet(f, s) = f[Some(s)] + SumFunctionOnSet(f, s \ {Some(s)})
      BY <2>2, <3>1, SumUnfolds
    <3>3. SumFunctionOnSet(f, s \ {Some(s)}) \in Int
      BY <1>1, <3>1
    <3> QED
      BY <3>1, <3>2, <3>3
  <2> QED
    BY <2>1, <2>2
<1> HIDE DEF G
<1>2. \A s \in SUBSET S : s \in G
  BY <1>1, MemberByMember
<1> QED
  BY <1>2 DEF G

\* The order does not matter: any member may be split off.
LEMMA SumSplits ==
    ASSUME NEW f, NEW S, IsFiniteSet(S), \A x \in S : f[x] \in Int
    PROVE  \A s \in SUBSET S : \A x \in s :
              SumFunctionOnSet(f, s) = f[x] + SumFunctionOnSet(f, s \ {x})
<1> DEFINE Sum(s) == SumFunctionOnSet(f, s)
           G == {s \in SUBSET S : \A x \in s : Sum(s) = f[x] + Sum(s \ {x})}
<1>t. \A s \in SUBSET S : Sum(s) \in Int
  BY SumType
<1>u. \A s \in SUBSET S : s # {} => Some(s) \in s /\ Sum(s) = f[Some(s)] + Sum(s \ {Some(s)})
  BY SumUnfolds, SomeMember, FS_Subset
<1>1. ASSUME NEW s \in SUBSET S, \A x \in s : s \ {x} \in G PROVE s \in G
  <2> SUFFICES ASSUME NEW x \in s PROVE Sum(s) = f[x] + Sum(s \ {x})
    OBVIOUS
  <2> DEFINE y == Some(s)
  <2>1. y \in s /\ Sum(s) = f[y] + Sum(s \ {y})
    BY <1>u
  <2>2. CASE x = y
    BY <2>1, <2>2
  <2>3. CASE x # y
    <3>1. Sum(s \ {y}) = f[x] + Sum((s \ {y}) \ {x})
      BY <1>1, <2>1, <2>3
    <3>2. Sum(s \ {x}) = f[y] + Sum((s \ {x}) \ {y})
      BY <1>1, <2>1, <2>3
    <3>3. (s \ {y}) \ {x} = (s \ {x}) \ {y}
      OBVIOUS
    <3>4. f[x] \in Int /\ f[y] \in Int /\ Sum((s \ {x}) \ {y}) \in Int
      BY <1>t, <2>1
    <3> DEFINE r == Sum((s \ {x}) \ {y})
               u == Sum(s \ {y})
               v == Sum(s \ {x})
    <3>5. Sum((s \ {y}) \ {x}) = r
      BY <3>3, Zenon
    <3>6. u = f[x] + r
      BY <3>1, <3>5, Zenon
    <3>7. v = f[y] + r
      BY <3>2, Zenon
    <3>8. Sum(s) = f[y] + u
      BY <2>1, Zenon
    <3>9. r \in Int
      BY <3>4, Zenon
    <3>10. f[y] + u = f[x] + v
      <4> HIDE DEF r, u, v, y
      <4> QED
        BY <3>4, <3>6, <3>7, <3>9
    <3> QED
      BY <3>8, <3>10, Zenon
  <2> QED
    BY <2>2, <2>3
<1> HIDE DEF G
<1>2. \A s \in SUBSET S : s \in G
  BY <1>1, MemberByMember
<1> QED
  BY <1>2 DEF G

LEMMA SumNat ==
    ASSUME NEW f, NEW S, IsFiniteSet(S), \A x \in S : f[x] \in Nat
    PROVE  \A s \in SUBSET S :
              /\ SumFunctionOnSet(f, s) \in Nat
              /\ \A x \in s : f[x] <= SumFunctionOnSet(f, s)
<1> DEFINE G == {s \in SUBSET S : SumFunctionOnSet(f, s) \in Nat}
<1>i. \A x \in S : f[x] \in Int
  OBVIOUS
<1>1. ASSUME NEW s \in SUBSET S, \A x \in s : s \ {x} \in G PROVE s \in G
  <2>1. CASE s = {}
    BY <2>1, SumOfNone
  <2>2. CASE s # {}
    <3>1. PICK x \in s : TRUE
      BY <2>2
    <3>2. SumFunctionOnSet(f, s) = f[x] + SumFunctionOnSet(f, s \ {x})
      BY <1>i, SumSplits
    <3>3. SumFunctionOnSet(f, s \ {x}) \in Nat /\ f[x] \in Nat
      BY <1>1
    <3> QED
      BY <3>2, <3>3
  <2> QED
    BY <2>1, <2>2
<1> HIDE DEF G
<1>2. \A s \in SUBSET S : s \in G
  BY <1>1, MemberByMember
<1>3. \A s \in SUBSET S : SumFunctionOnSet(f, s) \in Nat
  BY <1>2 DEF G
<1>4. ASSUME NEW s \in SUBSET S, NEW x \in s PROVE f[x] <= SumFunctionOnSet(f, s)
  <2>1. SumFunctionOnSet(f, s) = f[x] + SumFunctionOnSet(f, s \ {x})
    BY <1>i, SumSplits
  <2>2. SumFunctionOnSet(f, s \ {x}) \in Nat /\ f[x] \in Nat
    BY <1>3
  <2> QED
    BY <2>1, <2>2
<1> QED
  BY <1>3, <1>4

LEMMA SumMonotone ==
    ASSUME NEW f, NEW S, IsFiniteSet(S), \A x \in S : f[x] \in Nat,
           NEW R \in SUBSET S
    PROVE  SumFunctionOnSet(f, R) <= SumFunctionOnSet(f, S)
<1> DEFINE G == {s \in SUBSET S : R \subseteq s =>
                    SumFunctionOnSet(f, R) <= SumFunctionOnSet(f, s)}
<1>i. \A x \in S : f[x] \in Int
  OBVIOUS
<1>n. \A s \in SUBSET S : SumFunctionOnSet(f, s) \in Nat
  BY SumNat
<1>1. ASSUME NEW s \in SUBSET S, \A x \in s : s \ {x} \in G PROVE s \in G
  <2>1. CASE R = s
    BY <2>1, <1>n
  <2>2. CASE ~(R \subseteq s)
    BY <2>2
  <2>3. CASE R \subseteq s /\ R # s
    <3>1. PICK x \in s : x \notin R
      BY <2>3
    <3>2. SumFunctionOnSet(f, s) = f[x] + SumFunctionOnSet(f, s \ {x})
      BY <1>i, SumSplits
    <3>3. R \subseteq s \ {x}
      BY <2>3, <3>1
    <3>4. SumFunctionOnSet(f, R) <= SumFunctionOnSet(f, s \ {x})
      BY <1>1, <3>1, <3>3
    <3>5. f[x] \in Nat /\ SumFunctionOnSet(f, s \ {x}) \in Nat /\ SumFunctionOnSet(f, R) \in Nat
      BY <1>n
    <3> QED
      BY <3>2, <3>4, <3>5
  <2> QED
    BY <2>1, <2>2, <2>3
<1> HIDE DEF G
<1>2. \A s \in SUBSET S : s \in G
  BY <1>1, MemberByMember
<1> QED
  BY <1>2 DEF G

LEMMA SumOfZeros ==
    ASSUME NEW f, NEW S, IsFiniteSet(S), \A x \in S : f[x] = 0
    PROVE  SumFunctionOnSet(f, S) = 0
<1> DEFINE G == {s \in SUBSET S : SumFunctionOnSet(f, s) = 0}
<1>i. \A x \in S : f[x] \in Int
  OBVIOUS
<1>1. ASSUME NEW s \in SUBSET S, \A x \in s : s \ {x} \in G PROVE s \in G
  <2>1. CASE s = {}
    BY <2>1, SumOfNone
  <2>2. CASE s # {}
    <3>1. PICK x \in s : TRUE
      BY <2>2
    <3>2. SumFunctionOnSet(f, s) = f[x] + SumFunctionOnSet(f, s \ {x})
      BY <1>i, SumSplits
    <3>3. SumFunctionOnSet(f, s \ {x}) = 0 /\ f[x] = 0
      BY <1>1
    <3> QED
      BY <3>2, <3>3
  <2> QED
    BY <2>1, <2>2
<1> HIDE DEF G
<1>2. \A s \in SUBSET S : s \in G
  BY <1>1, MemberByMember
<1> QED
  BY <1>2 DEF G

LEMMA SumOfOne ==
    ASSUME NEW f, NEW S, IsFiniteSet(S), NEW x \in S, f[x] \in Int,
           \A y \in S \ {x} : f[y] = 0
    PROVE  SumFunctionOnSet(f, S) = f[x]
<1>1. \A y \in S : f[y] \in Int
  OBVIOUS
<1>2. SumFunctionOnSet(f, S \ {x}) = 0
  BY SumOfZeros, FS_Subset
<1>3. SumFunctionOnSet(f, S) = f[x] + SumFunctionOnSet(f, S \ {x})
  BY <1>1, SumSplits
<1> QED
  BY <1>2, <1>3
---------------------------------------------------------------------------
(* What the heartbeat can read.                                             *)

LEMMA DaysAreFinite == IsFiniteSet(Days)
  BY AccountAssumption, FS_Interval DEF Days

LEMMA EquityType ==
    ASSUME AccountTypeOK, NEW A \in SUBSET Dexes
    PROVE  /\ EquityOf(A) \in Nat /\ EquityOf(Dexes) \in Nat
           /\ EquityOf(A) <= EquityOf(Dexes)
           /\ \A d \in A : eq[d] <= EquityOf(A)
<1>1. IsFiniteSet(Dexes) /\ \A d \in Dexes : eq[d] \in Nat
  BY AccountAssumption DEF AccountTypeOK
<1>2. \A B \in SUBSET Dexes : EquityOf(B) \in Nat /\ \A d \in B : eq[d] <= EquityOf(B)
  BY <1>1, SumNat DEF EquityOf
<1>3. EquityOf(A) <= EquityOf(Dexes)
  BY <1>1, SumMonotone DEF EquityOf
<1> QED
  BY <1>2, <1>3

LEMMA SinceType ==
    ASSUME AccountTypeOK, NEW first
    PROVE  Since(first) \in Int
<1>1. \A d \in Days : shown[d] \in Int
  BY DEF AccountTypeOK
<1> DEFINE D == {d \in Days : first > 0 /\ d >= first}
<1>2. D \in SUBSET Days
  OBVIOUS
<1> HIDE DEF D
<1>3. SumFunctionOnSet(shown, D) \in Int
  BY <1>1, <1>2, DaysAreFinite, SumType
<1> QED
  BY <1>3 DEF Since, D

LEMMA AccountedType ==
    ASSUME AccountTypeOK, NEW e \in Nat, NEW c \in Int
    PROVE  Accounted(e, c) \in [sod : Nat, dayStart : Nat, contrib : Int, pnl : Int]
  BY DEF AccountTypeOK, Accounted

LEMMA ContributionType ==
    ASSUME AccountTypeOK, NEW c \in ContributionReads
    PROVE  c \in Int
  BY SinceType DEF ContributionReads
---------------------------------------------------------------------------
(* Types.                                                                   *)

LEMMA AccountTypeInit == AccountInit => AccountTypeOK
<1> SUFFICES ASSUME AccountInit PROVE AccountTypeOK
  OBVIOUS
<1>1. eq \in [Dexes -> Nat] /\ held \subseteq Dexes /\ ledger \in [Days -> Int]
      /\ shown \in [Days -> Int]
  BY AccountAssumption DEF AccountInit
<1>2. funded \subseteq Dexes /\ miss \in [Dexes -> Nat] /\ outage \in [Dexes -> Nat]
  BY DEF AccountInit
<1>3. mem \in [sod : Nat, dayStart : Nat, contrib : Int, pnl : Int]
  BY DEF AccountInit
<1> QED
  BY <1>1, <1>2, <1>3 DEF AccountInit, AccountTypeOK

LEMMA BelieveType ==
    ASSUME AccountTypeOK, NEW A \in SUBSET Dexes, Believe(A), UNCHANGED <<eq, day>>
    PROVE  /\ held' \subseteq Dexes /\ trackers' \subseteq Dexes
           /\ lastEq' \in Nat /\ age' \in Nat /\ fired' \in BOOLEAN
           /\ mem' \in [sod : Nat, dayStart : Nat, contrib : Int, pnl : Int]
           /\ base' \in Nat /\ flow' \in Int /\ seen' \in Nat /\ stamped' \in Nat
           /\ astray' \subseteq Strays
<1>e. EquityOf(A) \in Nat /\ EquityOf(Dexes) \in Nat
  BY EquityType
<1>1. held' \subseteq Dexes /\ trackers' \subseteq Dexes /\ fired' \in BOOLEAN
  BY DEF Believe, Flatten, Reconciled, AccountTypeOK
<1> DEFINE force == \E d \in Tracked : d \in Queried(A) /\ d \notin held \cap A
<1>2. CASE /\ Spike(EquityOf(A), force)
           /\ UNCHANGED <<lastEq, mem, base, flow, seen, stamped>>
           /\ astray' = astray \cup (IF GivenUp(A) # {} THEN {"reading"} ELSE {})
           /\ age' = IF age < SpikeTicks THEN age + 1 ELSE age
  BY <1>1, <1>2 DEF AccountTypeOK, Strays
<1>3. CASE /\ ~Spike(EquityOf(A), force)
           /\ \E c \in ContributionReads : mem' = Accounted(EquityOf(A), c)
           /\ StampTruth(A)
           /\ lastEq' = EquityOf(A) /\ age' = 1
  <2>1. mem' \in [sod : Nat, dayStart : Nat, contrib : Int, pnl : Int]
    BY <1>3, <1>e, AccountedType, ContributionType
  <2>2. base' \in Nat /\ flow' \in Int /\ seen' \in Nat /\ stamped' \in Nat
    BY <1>3, <1>e DEF StampTruth, AccountTypeOK
  <2>3. astray' \subseteq Strays
    BY <1>3 DEF StampTruth, AccountTypeOK, Strays
  <2> QED
    BY <1>1, <1>3, <1>e, <2>1, <2>2, <2>3
<1> QED
  BY <1>2, <1>3 DEF Believe

LEMMA AccountTypeStep == AccountTypeOK /\ [AccountNext]_accountVars => AccountTypeOK'
<1> SUFFICES ASSUME AccountTypeOK, [AccountNext]_accountVars PROVE AccountTypeOK'
  OBVIOUS
<1>1. CASE Heartbeat
  <2>1. PICK A \in Answers : Sync(A)
    BY <1>1 DEF Heartbeat
  <2>2. A \in SUBSET Dexes
    BY DEF Answers
  <2>3. /\ loaded' = TRUE
        /\ UNCHANGED <<eq, day, ledger, shown, bounds>>
    BY <2>1 DEF Sync
  <2>4. outage' \in [Dexes -> Nat]
    BY <2>1 DEF Sync, AccountTypeOK
  <2>5. miss' \in [Dexes -> Nat] /\ funded' \subseteq Dexes
    BY <2>1, <2>2 DEF Sync, AccountTypeOK
  <2>6. /\ held' \subseteq Dexes /\ trackers' \subseteq Dexes
        /\ lastEq' \in Nat /\ age' \in Nat /\ fired' \in BOOLEAN
        /\ mem' \in [sod : Nat, dayStart : Nat, contrib : Int, pnl : Int]
        /\ base' \in Nat /\ flow' \in Int /\ seen' \in Nat /\ stamped' \in Nat
        /\ astray' \subseteq Strays
    <3>1. CASE RefuseReading
      <4>1. age' \in Nat
        BY <3>1 DEF RefuseReading, AccountTypeOK
      <4> QED
        BY <3>1, <4>1, Zenon DEF RefuseReading, AccountTypeOK
    <3>2. CASE Believe(A)
      BY <2>2, <2>3, <3>2, BelieveType
    <3> QED
      BY <2>1, <3>1, <3>2 DEF Sync
  <2>7. day' \in Nat /\ eq' \in [Dexes -> Nat] /\ ledger' \in [Days -> Int]
        /\ shown' \in [Days -> Int]
    BY <2>3 DEF AccountTypeOK
  <2>8. moves' \in Nat /\ transfers' \in Nat /\ restarts' \in Nat
    BY <2>3 DEF AccountTypeOK, bounds
  <2> QED
    BY <2>3, <2>4, <2>5, <2>6, <2>7, <2>8, Zenon DEF AccountTypeOK
<1>2. CASE Trade
  <2>1. eq' \in [Dexes -> Nat] /\ moves' \in Nat
    BY <1>2 DEF Trade, AccountTypeOK
  <2> QED
    BY <1>2, <2>1, Zenon DEF Trade, AccountTypeOK, process, saved, truth
<1>3. CASE BotOpen
  BY <1>3 DEF BotOpen, AccountTypeOK, process, truth, bounds
<1>4. CASE BotClose
  BY <1>4 DEF BotClose, AccountTypeOK, process, truth, bounds
<1>5. CASE ExternalClose
  BY <1>5 DEF ExternalClose, AccountTypeOK, process, saved, truth, bounds
<1>6. CASE Transfer
  <2>1. PICK d \in Dexes, m \in {-2, 2} :
          /\ eq[d] + m >= 0
          /\ eq' = [eq EXCEPT ![d] = @ + m]
          /\ ledger' = [ledger EXCEPT ![day] = @ + m]
          /\ flow' = flow + m
    BY <1>6 DEF Transfer
  <2>2. eq' \in [Dexes -> Nat] /\ flow' \in Int
    BY <2>1 DEF AccountTypeOK
  <2>3. ledger' \in [Days -> Int]
    <3>1. m \in Int /\ ledger \in [Days -> Int]
      BY DEF AccountTypeOK
    <3>2. ledger' = [d1 \in Days |-> IF d1 = day THEN ledger[day] + m ELSE ledger[d1]]
      BY <2>1, <3>1
    <3> QED
      BY <3>1, <3>2
  <2>4. astray' \subseteq Strays /\ transfers' \in Nat
    BY <1>6 DEF Transfer, AccountTypeOK, Strays
  <2>5. shown' \in [Days -> Int]
    BY <1>6, <2>3 DEF Transfer, AccountTypeOK
  <2> QED
    BY <1>6, <2>2, <2>3, <2>4, <2>5, Zenon DEF Transfer, AccountTypeOK, process, saved
<1>7. CASE DayRoll
  <2>1. day' \in Nat
    BY <1>7 DEF DayRoll, AccountTypeOK
  <2> QED
    BY <1>7, <2>1, Zenon DEF DayRoll, AccountTypeOK, process, saved, truth, bounds
<1>8. CASE Restart
  <2>1. funded' \subseteq Dexes /\ miss' \in [Dexes -> Nat]
    BY <1>8 DEF Restart
  <2>2. lastEq' \in Nat /\ age' \in Nat /\ seen' \in Nat /\ restarts' \in Nat
    BY <1>8 DEF Restart, AccountTypeOK
  <2> QED
    BY <1>8, <2>1, <2>2, Zenon DEF Restart, AccountTypeOK, account, saved
<1>9. CASE Post
  BY <1>9, Zenon DEF Post, AccountTypeOK, process, saved, truth, bounds
<1>10. CASE UNCHANGED accountVars
  BY <1>10 DEF AccountTypeOK, accountVars, account, process, saved, truth, bounds
<1> QED
  BY <1>1, <1>2, <1>3, <1>4, <1>5, <1>6, <1>7, <1>8, <1>9, <1>10 DEF AccountNext

\* The account, the loop's memory of it and the ghosts keep their types.
THEOREM AccountTypeCorrect == AccountSpec => []AccountTypeOK
  BY AccountTypeInit, AccountTypeStep, PTL DEF AccountSpec
---------------------------------------------------------------------------
(* The day's baseline.                                                      *)

\* The loop's own day is the one its true baseline was stamped on, a stamped
\* baseline is never 0 (track_daily_pnl takes a 0 for "none yet"), and no day
\* is stamped ahead of time.
Stamped ==
    /\ mem.dayStart = stamped /\ stamped <= day /\ day \in Days
    /\ stamped # 0 => mem.sod # 0

LEMMA RollsIsNewDay ==
    ASSUME AccountTypeOK, Stamped
    PROVE  Rolls <=> stamped # day
  BY DEF Stamped, Rolls, AccountTypeOK, Days

\* What a heartbeat can do, one case for each way a reading is taken.
LEMMA HeartbeatCases ==
    ASSUME AccountTypeOK, Heartbeat
    PROVE  \/ RefuseReading
           \/ \E A \in Answers : ~Degraded(A) /\ Vetoes(A) = {} /\ Believe(A)
  BY DEF Heartbeat, Sync

LEMMA HeartbeatKeeps ==
    ASSUME Heartbeat
    PROVE  UNCHANGED <<eq, day, ledger, shown, moves, transfers, restarts>>
  BY DEF Heartbeat, Sync, bounds

\* A reading that is believed either counts as a spike, which leaves the day's
\* figures alone, or makes new ones.
Unmoved == UNCHANGED <<lastEq, mem, base, flow, seen, stamped>>
Filed(A) ==
    /\ \E c \in ContributionReads : mem' = Accounted(EquityOf(A), c)
    /\ StampTruth(A)
    /\ lastEq' = EquityOf(A)

LEMMA BelieveCases ==
    ASSUME NEW A, Believe(A)
    PROVE  \/ /\ Unmoved /\ lastEq > 0
              /\ astray' = astray \cup (IF GivenUp(A) # {} THEN {"reading"} ELSE {})
           \/ Filed(A)
<1> DEFINE force == \E d \in Tracked : d \in Queried(A) /\ d \notin held \cap A
<1>1. CASE /\ Spike(EquityOf(A), force)
           /\ UNCHANGED <<lastEq, mem, base, flow, seen, stamped>>
           /\ astray' = astray \cup (IF GivenUp(A) # {} THEN {"reading"} ELSE {})
  BY <1>1 DEF Unmoved, Spike
<1>2. CASE /\ \E c \in ContributionReads : mem' = Accounted(EquityOf(A), c)
           /\ StampTruth(A)
           /\ lastEq' = EquityOf(A)
  BY <1>2 DEF Filed
<1> QED
  BY <1>1, <1>2 DEF Believe

\* What is filed on a day that is not stamped yet, and on one that is.
LEMMA FiledRolls ==
    ASSUME AccountTypeOK, Stamped, NEW A, Filed(A), stamped # day
    PROVE  /\ mem'.sod = EquityOf(A) /\ mem'.dayStart = day /\ mem'.pnl = 0
           /\ \E c \in ContributionReads : mem'.contrib = c
           /\ base' = EquityOf(Dexes) /\ flow' = 0 /\ stamped' = day
           /\ astray' = {} => GivenUp(A) = {} /\ shown = ledger
           /\ "baseline" \notin astray' => GivenUp(A) = {}
           /\ lastEq' = EquityOf(A) /\ seen' = EquityOf(Dexes)
  BY RollsIsNewDay DEF Filed, Accounted, StampTruth

LEMMA FiledSameDay ==
    ASSUME AccountTypeOK, Stamped, NEW A, Filed(A), stamped = day
    PROVE  /\ mem'.sod = mem.sod /\ mem'.dayStart = mem.dayStart
           /\ mem'.contrib = mem.contrib
           /\ \E c \in ContributionReads :
                mem'.pnl = EquityOf(A) - mem.sod - (c - mem.contrib)
           /\ UNCHANGED <<base, flow, stamped>>
           /\ astray' = {} => GivenUp(A) = {} /\ shown = ledger
           /\ "baseline" \notin astray' => "baseline" \notin astray
           /\ lastEq' = EquityOf(A) /\ seen' = EquityOf(Dexes)
<1>1. ~Rolls
  BY RollsIsNewDay
<1>2. PICK c \in ContributionReads : mem' = Accounted(EquityOf(A), c)
  BY DEF Filed
<1>3. mem' = [mem EXCEPT !.pnl = EquityOf(A) - mem.sod - (c - mem.contrib)]
  BY <1>1, <1>2 DEF Accounted
<1>4. /\ mem'.sod = mem.sod /\ mem'.dayStart = mem.dayStart
      /\ mem'.contrib = mem.contrib
      /\ mem'.pnl = EquityOf(A) - mem.sod - (c - mem.contrib)
  BY <1>3 DEF AccountTypeOK
<1>5. /\ UNCHANGED <<base, flow, stamped>>
      /\ astray' = {} => GivenUp(A) = {} /\ shown = ledger
      /\ "baseline" \notin astray' => "baseline" \notin astray
      /\ lastEq' = EquityOf(A) /\ seen' = EquityOf(Dexes)
  BY <1>1 DEF Filed, StampTruth
<1> QED
  BY <1>4, <1>5

\* Outside the heartbeat only transfers, their posting and the clock touch the
\* day's figures.
LEMMA Elsewhere ==
    ASSUME [AccountNext]_accountVars, ~Heartbeat
    PROVE  /\ UNCHANGED <<mem, base, stamped>>
           /\ \/ Transfer
              \/ UNCHANGED <<flow, ledger, transfers, astray>>
           /\ \/ Transfer \/ Post
              \/ UNCHANGED shown
           /\ \/ DayRoll
              \/ UNCHANGED day
           /\ \/ Restart
              \/ UNCHANGED <<lastEq, seen>>
<1>1. CASE Trade
  BY <1>1 DEF Trade, process, saved, truth
<1>2. CASE BotOpen
  BY <1>2 DEF BotOpen, process, truth, bounds
<1>3. CASE BotClose
  BY <1>3 DEF BotClose, process, truth, bounds
<1>4. CASE ExternalClose
  BY <1>4 DEF ExternalClose, process, saved, truth, bounds
<1>5. CASE Transfer
  BY <1>5 DEF Transfer, process, saved
<1>6. CASE DayRoll
  BY <1>6 DEF DayRoll, process, saved, truth, bounds
<1>7. CASE Restart
  BY <1>7 DEF Restart, account, saved
<1>8. CASE Post
  BY <1>8 DEF Post, process, saved, truth, bounds
<1>9. CASE UNCHANGED accountVars
  BY <1>9 DEF accountVars, account, process, saved, truth, bounds
<1> QED
  BY <1>1, <1>2, <1>3, <1>4, <1>5, <1>6, <1>7, <1>8, <1>9 DEF AccountNext

LEMMA StampedInit == AccountInit => Stamped
  BY AccountAssumption DEF AccountInit, Stamped, Days

LEMMA StampedStep ==
    ASSUME AccountTypeOK, Stamped, [AccountNext]_accountVars
    PROVE  Stamped'
<1>1. CASE Heartbeat
  <2>d. day' = day
    BY <1>1, HeartbeatKeeps
  <2>1. CASE RefuseReading
    BY <2>1, <2>d DEF RefuseReading, Stamped, Days
  <2>2. ASSUME NEW A \in Answers, ~Degraded(A), Believe(A) PROVE Stamped'
    <3>1. CASE Unmoved
      BY <3>1, <2>d DEF Unmoved, Stamped, Days
    <3>2. CASE Filed(A) /\ stamped # day
      <4>1. EquityOf(A) # 0
        BY <2>2, EquityType DEF Degraded, Answers
      <4> QED
        BY <3>2, <4>1, <2>d, FiledRolls DEF Stamped, Days, AccountTypeOK
    <3>3. CASE Filed(A) /\ stamped = day
      BY <3>3, <2>d, FiledSameDay DEF Stamped, Days
    <3> QED
      BY <2>2, <3>1, <3>2, <3>3, BelieveCases
  <2> QED
    BY <1>1, <2>1, <2>2, HeartbeatCases
<1>2. CASE DayRoll
  <2>1. day' \in Days /\ stamped <= day'
    BY <1>2, AccountAssumption DEF DayRoll, Stamped, Days, AccountTypeOK
  <2> QED
    BY <1>2, <2>1 DEF DayRoll, Stamped, saved, truth, Days
<1>3. CASE ~Heartbeat /\ ~DayRoll
  BY <1>3, Elsewhere DEF Stamped, Days
<1> QED
  BY <1>1, <1>2, <1>3

LEMMA StampedAlways == AccountSpec => [](AccountTypeOK /\ Stamped)
<1>1. AccountInit => AccountTypeOK /\ Stamped
  BY AccountTypeInit, StampedInit
<1>2. AccountTypeOK /\ Stamped /\ [AccountNext]_accountVars => (AccountTypeOK /\ Stamped)'
  BY AccountTypeStep, StampedStep
<1> QED
  BY <1>1, <1>2, PTL DEF AccountSpec

\* The day's baseline is stamped once, whatever the reads miss, whenever the loop
\* is restarted and whatever crosses the border of the account: no hypothesis on
\* the events.
THEOREM BaselineStampedOnce == AccountSpec => BaselineOncePerDay
<1>1. ASSUME AccountTypeOK, Stamped, [AccountNext]_accountVars, stamped = day
      PROVE  UNCHANGED <<stamped, base, mem.sod, mem.contrib>>
  <2>1. CASE Heartbeat
    <3>1. CASE RefuseReading
      BY <3>1 DEF RefuseReading
    <3>2. ASSUME NEW A, Believe(A)
          PROVE  UNCHANGED <<stamped, base, mem.sod, mem.contrib>>
      <4>1. CASE Unmoved
        BY <4>1 DEF Unmoved
      <4>2. CASE Filed(A)
        BY <4>2, <1>1, FiledSameDay
      <4> QED
        BY <3>2, <4>1, <4>2, BelieveCases
    <3> QED
      BY <1>1, <2>1, <3>1, <3>2, HeartbeatCases
  <2>2. CASE ~Heartbeat
    BY <1>1, <2>2, Elsewhere
  <2> QED
    BY <2>1, <2>2
<1>2. AccountTypeOK /\ Stamped /\ [AccountNext]_accountVars =>
         [stamped = day => UNCHANGED <<stamped, base, mem.sod, mem.contrib>>]_accountVars
  BY <1>1
<1> QED
  BY <1>2, StampedAlways, PTL DEF AccountSpec, BaselineOncePerDay
---------------------------------------------------------------------------
(* The figures of the day, where every fault is one the loop can see.       *)

\* A clearinghouse that misses a read has been seen funded and is not the native
\* one, the ledger's lookup answers, with whatever it shows by then, and money moves
\* within a day that has its baseline.
SeenFaults ==
    Events \cap {"main_gap", "cold_gap", "ledger_gap", "early_transfer",
                 "carried_transfer"} = {}

\* A believed reading that gives nothing up is whole.
LEMMA WholeReading ==
    ASSUME AccountTypeOK, SeenFaults, NEW A \in Answers, Vetoes(A) = {}, GivenUp(A) = {}
    PROVE  A = Dexes
<1>1. Main \in A /\ A \subseteq Dexes
  BY DEF Answers, SeenFaults
<1>2. Queried(A) = A
  BY <1>1 DEF Queried
<1>3. Missing(A) = {}
  <2>1. \A d \in Missing(A) : d \in Dexes /\ miss[d] \in Nat
    BY DEF Missing, AccountTypeOK
  <2>2. MissAccept \in Nat
    BY AccountAssumption
  <2>3. \A d \in Missing(A) : miss[d] + 1 <= MissAccept \/ miss[d] >= MissAccept
    BY <2>1, <2>2
  <2> QED
    BY <2>3 DEF Vetoes, GivenUp
<1>4. ASSUME NEW d \in Dexes, d \notin A PROVE FALSE
  <2>1. d \notin funded
    BY <1>2, <1>3, <1>4 DEF Missing
  <2>2. d \in Dexes \ {Main}
    BY <1>1, <1>4
  <2>3. "cold_gap" \in Events
    BY <1>4, <2>1, <2>2 DEF Answers
  <2> QED
    BY <2>3 DEF SeenFaults
<1> QED
  BY <1>1, <1>4

\* The ledger holds one day's transfers, all made after that day's baseline, and
\* the lookup shows none of any other day.
Ledgered ==
    /\ transfers # 0 => mem.dayStart = day /\ flow = ledger[day]
    /\ transfers = 0 => flow = 0
    /\ \A d \in Days : d # day \/ transfers = 0 => ledger[d] = 0 /\ shown[d] = 0

LEMMA NothingCameIn ==
    ASSUME AccountTypeOK, Ledgered, transfers = 0, NEW first
    PROVE  Since(first) = 0
<1> DEFINE D == {d \in Days : first > 0 /\ d >= first}
<1>1. D \in SUBSET Days /\ IsFiniteSet(D)
  BY DaysAreFinite, FS_Subset
<1>2. \A d \in D : shown[d] = 0
  BY DEF Ledgered
<1>3. SumFunctionOnSet(shown, D) = 0
  <2> HIDE DEF D
  <2> QED
    BY <1>1, <1>2, SumOfZeros
<1> QED
  BY <1>3 DEF Since

LEMMA CameInToday ==
    ASSUME AccountTypeOK, Stamped, Ledgered, shown = ledger
    PROVE  Since(day) = flow
<1>1. CASE transfers = 0
  BY <1>1, NothingCameIn DEF Ledgered
<1>2. CASE transfers # 0
  <2> DEFINE D == {d \in Days : day > 0 /\ d >= day}
  <2>1. D \in SUBSET Days /\ IsFiniteSet(D) /\ day \in D
    <3>1. day \in Days /\ day > 0 /\ day >= day
      BY AccountAssumption DEF Stamped, Days
    <3>2. D \in SUBSET Days /\ day \in D
      BY <3>1
    <3> HIDE DEF D
    <3> QED
      BY <3>2, DaysAreFinite, FS_Subset
  <2>2. \A d \in D \ {day} : shown[d] = 0
    BY DEF Ledgered
  <2>3. shown[day] \in Int
    BY <2>1 DEF AccountTypeOK
  <2>4. SumFunctionOnSet(shown, D) = shown[day]
    <3> HIDE DEF D
    <3> QED
      BY <2>1, <2>2, <2>3, SumOfOne
  <2> QED
    BY <1>2, <2>4 DEF Since, Ledgered
<1> QED
  BY <1>1, <1>2

\* The loop's figures rest on the true baseline.
Trusted == mem.contrib = 0 /\ ("baseline" \notin astray => mem.sod = base)

\* A reading that led nothing astray was the whole account.
Whole == lastEq > 0 /\ astray = {} => seen = lastEq

AccountInv == AccountTypeOK /\ Stamped /\ Ledgered /\ Trusted /\ PnlIsTrading /\ Whole

LEMMA AccountInvInit == AccountInit => AccountInv
<1> SUFFICES ASSUME AccountInit PROVE AccountInv
  OBVIOUS
<1>1. AccountTypeOK /\ Stamped
  BY AccountTypeInit, StampedInit
<1>2. Ledgered
  BY DEF AccountInit, Ledgered
<1>3. Trusted
  BY DEF AccountInit, Trusted
<1>4. PnlIsTrading /\ Whole
  BY DEF AccountInit, PnlIsTrading, Whole
<1> QED
  BY <1>1, <1>2, <1>3, <1>4 DEF AccountInv

\* What is filed, in terms of the true figures.
LEMMA FiledTruly ==
    ASSUME AccountTypeOK, Stamped, Ledgered, Trusted, SeenFaults,
           NEW A \in Answers, Vetoes(A) = {}, Filed(A)
    PROVE  /\ Trusted' /\ lastEq' = EquityOf(A) /\ mem'.dayStart = day
           /\ stamped # day => transfers = 0 /\ flow' = 0
           /\ stamped = day => flow' = flow
           /\ seen' = EquityOf(Dexes)
           /\ astray' = {} => A = Dexes /\ mem'.pnl = SeenPnl'
<1>e. A \in SUBSET Dexes /\ EquityOf(A) \in Nat /\ EquityOf(Dexes) \in Nat
  BY EquityType DEF Answers
<1>c. ContributionReads = {Since(mem.dayStart)}
  BY DEF ContributionReads, SeenFaults
<1>w. GivenUp(A) = {} => A = Dexes
  BY WholeReading
<1>1. CASE stamped # day
  <2>1. transfers = 0
    BY <1>1 DEF Ledgered, Stamped
  <2>2. mem'.contrib = 0
    BY <1>1, <1>c, <2>1, FiledRolls, NothingCameIn
  <2>3. /\ mem'.sod = EquityOf(A) /\ base' = EquityOf(Dexes)
        /\ mem'.dayStart = day /\ mem'.pnl = 0 /\ flow' = 0 /\ lastEq' = EquityOf(A)
        /\ seen' = EquityOf(Dexes)
        /\ astray' = {} => GivenUp(A) = {}
        /\ "baseline" \notin astray' => GivenUp(A) = {}
    BY <1>1, FiledRolls
  <2>4. Trusted'
    BY <1>w, <2>2, <2>3 DEF Trusted
  <2>5. astray' = {} => A = Dexes /\ mem'.pnl = SeenPnl'
    BY <1>e, <1>w, <2>3 DEF SeenPnl
  <2> QED
    BY <1>1, <2>1, <2>3, <2>4, <2>5
<1>2. CASE stamped = day
  <2>1. /\ mem'.sod = mem.sod /\ mem'.dayStart = mem.dayStart
        /\ mem'.contrib = mem.contrib
        /\ UNCHANGED <<base, flow, stamped>> /\ lastEq' = EquityOf(A)
        /\ seen' = EquityOf(Dexes)
        /\ astray' = {} => GivenUp(A) = {} /\ shown = ledger
        /\ "baseline" \notin astray' => "baseline" \notin astray
    BY <1>2, FiledSameDay
  <2>2. shown = ledger => mem'.pnl = EquityOf(A) - mem.sod - (flow - mem.contrib)
    BY <1>2, <1>c, FiledSameDay, CameInToday DEF Stamped
  <2>3. Trusted'
    BY <2>1 DEF Trusted
  <2>4. astray' = {} => A = Dexes /\ mem'.pnl = SeenPnl'
    <3> SUFFICES ASSUME astray' = {} PROVE A = Dexes /\ mem'.pnl = SeenPnl'
      OBVIOUS
    <3>1. GivenUp(A) = {} /\ "baseline" \notin astray /\ shown = ledger
      BY <2>1
    <3>2. A = Dexes
      BY <1>w, <3>1
    <3>3. mem.sod = base /\ mem.contrib = 0 /\ base \in Nat /\ flow \in Int
      BY <3>1 DEF Trusted, AccountTypeOK
    <3> QED
      BY <1>e, <2>1, <2>2, <3>1, <3>2, <3>3 DEF SeenPnl
  <2> QED
    BY <1>2, <2>1, <2>3, <2>4 DEF Stamped
<1> QED
  BY <1>1, <1>2
---------------------------------------------------------------------------
(* The limit.                                                               *)

\* What a loss limit of `pct` per cent comes to.
LEMMA Percents ==
    ASSUME NEW n \in Nat, NEW k \in Nat, NEW pct \in 0..100
    PROVE  /\ n * pct \in Nat
           /\ (n + k) * pct = n * pct + k * pct
           /\ k * pct <= k * 100 /\ k * pct \in Nat
           /\ pct > 0 /\ n > 0 => n * pct > 0
  OBVIOUS

\* A smaller account breaches no later on the same PnL.
LEMMA BreachedSmaller ==
    ASSUME NEW e \in Nat, NEW l \in Nat, NEW p \in Int, 0 < l, l <= e, Breached(e, p)
    PROVE  Breached(l, p)
<1>a. LossPct \in 0..100 /\ LossUsd \in Nat
  BY AccountAssumption
<1>1. CASE LossPct > 0 /\ e - p > 0
  <2>1. p * 100 <= - ((e - p) * LossPct)
    BY <1>1 DEF Breached
  <2>2. e - p \in Nat /\ e - p > 0
    BY <1>1
  <2>3. (e - p) * LossPct \in Nat /\ (e - p) * LossPct > 0
    <3> DEFINE n == e - p
    <3>1. n \in Nat /\ n > 0
      BY <2>2
    <3> HIDE DEF n
    <3>2. n * LossPct \in Nat /\ n * LossPct > 0
      BY <1>a, <1>1, <3>1, Percents
    <3> QED
      BY <3>2 DEF n
  <2>4. p < 0
    <3> DEFINE q == (e - p) * LossPct
    <3>1. q \in Nat /\ q > 0 /\ p * 100 <= - q
      BY <2>1, <2>3
    <3> HIDE DEF q
    <3> QED
      BY <3>1
  <2>5. l - p \in Nat /\ l - p > 0 /\ e - l \in Nat /\ e - p = (l - p) + (e - l)
    BY <2>4
  <2>6. /\ (e - p) * LossPct = (l - p) * LossPct + (e - l) * LossPct
        /\ (l - p) * LossPct \in Nat /\ (e - l) * LossPct \in Nat
    <3> DEFINE n == l - p
               k == e - l
    <3>1. n \in Nat /\ k \in Nat /\ e - p = n + k
      BY <2>5
    <3> HIDE DEF n, k
    <3>2. /\ (n + k) * LossPct = n * LossPct + k * LossPct
          /\ n * LossPct \in Nat /\ k * LossPct \in Nat
      BY <1>a, <3>1, Percents
    <3> QED
      BY <3>1, <3>2 DEF n, k
  <2>7. p * 100 <= - ((l - p) * LossPct)
    <3> DEFINE q == (e - p) * LossPct
               r == (l - p) * LossPct
               s == (e - l) * LossPct
    <3>1. q = r + s /\ r \in Nat /\ s \in Nat /\ p * 100 <= - q
      BY <2>1, <2>6
    <3> HIDE DEF q, r, s
    <3>2. p * 100 <= - r
      BY <3>1
    <3> QED
      BY <3>2 DEF r
  <2> QED
    BY <1>1, <2>5, <2>7 DEF Breached
<1>2. CASE ~(LossPct > 0 /\ e - p > 0)
  <2>1. p <= - LossUsd
    BY <1>2 DEF Breached
  <2>2. ~(LossPct > 0 /\ l - p > 0)
    BY <1>a, <1>2
  <2> QED
    BY <2>1, <2>2 DEF Breached
<1> QED
  BY <1>1, <1>2

\* What breaches the limit still does when the PnL sinks.
LEMMA BreachedSinks ==
    ASSUME NEW e \in Nat, NEW k \in Nat, NEW p \in Int, 0 < e, Breached(e, p)
    PROVE  Breached(e, p - k)
<1>a. LossPct \in 0..100 /\ LossUsd \in Nat
  BY AccountAssumption
<1>1. CASE LossPct > 0 /\ e - p > 0
  <2>1. p * 100 <= - ((e - p) * LossPct)
    BY <1>1 DEF Breached
  <2>2. e - (p - k) > 0 /\ e - (p - k) = (e - p) + k /\ e - p \in Nat
    BY <1>1
  <2>3. /\ (e - (p - k)) * LossPct = (e - p) * LossPct + k * LossPct
        /\ (e - p) * LossPct \in Nat /\ k * LossPct \in Nat /\ k * LossPct <= k * 100
    <3> DEFINE n == e - p
    <3>1. n \in Nat /\ e - (p - k) = n + k
      BY <2>2
    <3> HIDE DEF n
    <3>2. /\ (n + k) * LossPct = n * LossPct + k * LossPct
          /\ n * LossPct \in Nat /\ k * LossPct \in Nat /\ k * LossPct <= k * 100
      BY <1>a, <3>1, Percents
    <3> QED
      BY <3>1, <3>2 DEF n
  <2>4. (p - k) * 100 <= - ((e - (p - k)) * LossPct)
    <3> DEFINE q == (e - p) * LossPct
               r == k * LossPct
    <3>1. q \in Nat /\ r \in Nat /\ p * 100 <= - q /\ r <= k * 100
      BY <2>1, <2>3
    <3>2. (e - (p - k)) * LossPct = q + r
      BY <2>3
    <3> HIDE DEF q, r
    <3>3. (p - k) * 100 <= - (q + r)
      BY <3>1
    <3> QED
      BY <3>2, <3>3
  <2> QED
    BY <1>1, <2>2, <2>4 DEF Breached
<1>2. CASE LossPct > 0 /\ e - p <= 0
  <2>1. p <= - LossUsd
    BY <1>2 DEF Breached
  <2> QED
    BY <1>a, <1>2, <2>1
<1>3. CASE LossPct = 0
  <2>1. p <= - LossUsd
    BY <1>3 DEF Breached
  <2>2. p - k <= - LossUsd
    BY <1>a, <2>1
  <2> QED
    BY <1>3, <2>2 DEF Breached
<1> QED
  BY <1>a, <1>1, <1>2, <1>3
---------------------------------------------------------------------------
(* The inductive invariant.                                                 *)

LEMMA LedgeredStep ==
    ASSUME AccountInv, SeenFaults, [AccountNext]_accountVars
    PROVE  Ledgered'
<1> USE DEF AccountInv
<1>1. CASE Heartbeat
  <2>k. UNCHANGED <<day, ledger, shown, transfers>>
    BY <1>1, HeartbeatKeeps
  <2>1. CASE RefuseReading
    BY <2>1, <2>k DEF RefuseReading, Ledgered, Days
  <2>2. ASSUME NEW A \in Answers, Vetoes(A) = {}, Believe(A) PROVE Ledgered'
    <3>1. CASE Unmoved
      BY <3>1, <2>k DEF Unmoved, Ledgered, Days
    <3>2. CASE Filed(A)
      BY <2>2, <2>k, <3>2, FiledTruly DEF Ledgered, Days, Stamped
    <3> QED
      BY <2>2, <3>1, <3>2, BelieveCases
  <2> QED
    BY <1>1, <2>1, <2>2, HeartbeatCases
<1>2. CASE Transfer
  <2>1. mem.dayStart = day /\ UNCHANGED <<day, mem>>
    BY <1>2 DEF Transfer, SeenFaults, saved
  <2>2. PICK m \in {-2, 2} : /\ ledger' = [ledger EXCEPT ![day] = @ + m]
                             /\ flow' = flow + m
    BY <1>2 DEF Transfer
  <2>3. transfers' = transfers + 1 /\ transfers' # 0
    BY <1>2 DEF Transfer, AccountTypeOK
  <2>4. day \in Days /\ ledger \in [Days -> Int] /\ m \in Int
    BY DEF Stamped, AccountTypeOK
  <2>5. flow = ledger[day]
    BY <2>4 DEF Ledgered
  <2>6. ledger'[day] = ledger[day] + m /\ \A d \in Days : d # day => ledger'[d] = ledger[d]
    BY <2>2, <2>4
  <2>7. \A d \in Days : d # day => ledger'[d] = 0 /\ shown'[d] = 0
    <3>1. \A d \in Days : d # day => ledger'[d] = 0 /\ shown[d] = 0
      BY <2>6 DEF Ledgered
    <3>2. shown' = shown \/ shown' = ledger'
      BY <1>2 DEF Transfer
    <3> QED
      BY <3>1, <3>2
  <2>8. flow' = ledger'[day]
    BY <2>2, <2>5, <2>6
  <2> QED
    BY <2>1, <2>3, <2>7, <2>8 DEF Ledgered, Days
<1>3. CASE DayRoll
  <2>1. transfers = 0 /\ UNCHANGED <<ledger, shown, transfers, flow, mem>>
    BY <1>3 DEF DayRoll, SeenFaults, saved, truth, bounds
  <2> QED
    BY <2>1 DEF Ledgered, Days
<1>4. CASE Post
  <2>1. shown' = ledger /\ UNCHANGED <<day, ledger, transfers, flow, mem>>
    BY <1>4 DEF Post, saved, truth, bounds
  <2> QED
    BY <2>1 DEF Ledgered, Days
<1>5. CASE ~Heartbeat /\ ~Transfer /\ ~DayRoll /\ ~Post
  <2>1. UNCHANGED <<mem, flow, ledger, shown, transfers, day>>
    BY <1>5, Elsewhere
  <2> QED
    BY <2>1 DEF Ledgered, Days
<1> QED
  BY <1>1, <1>2, <1>3, <1>4, <1>5

LEMMA TrustedStep ==
    ASSUME AccountInv, SeenFaults, [AccountNext]_accountVars
    PROVE  Trusted'
<1> USE DEF AccountInv
<1>1. CASE Heartbeat
  <2>1. CASE RefuseReading
    BY <2>1 DEF RefuseReading, Trusted
  <2>2. ASSUME NEW A \in Answers, Vetoes(A) = {}, Believe(A) PROVE Trusted'
    <3>1. CASE Unmoved /\ astray' = astray \cup (IF GivenUp(A) # {} THEN {"reading"} ELSE {})
      BY <3>1 DEF Unmoved, Trusted
    <3>2. CASE Filed(A)
      BY <2>2, <3>2, FiledTruly
    <3> QED
      BY <2>2, <3>1, <3>2, BelieveCases
  <2> QED
    BY <1>1, <2>1, <2>2, HeartbeatCases
<1>2. CASE Transfer
  BY <1>2 DEF Transfer, Trusted, saved
<1>3. CASE ~Heartbeat /\ ~Transfer
  BY <1>3, Elsewhere DEF Trusted
<1> QED
  BY <1>1, <1>2, <1>3

LEMMA PnlStep ==
    ASSUME AccountInv, SeenFaults, [AccountNext]_accountVars
    PROVE  PnlIsTrading'
<1> USE DEF AccountInv
<1>1. CASE Heartbeat
  <2>1. CASE RefuseReading
    BY <2>1 DEF RefuseReading, PnlIsTrading, SeenPnl
  <2>2. ASSUME NEW A \in Answers, Vetoes(A) = {}, Believe(A) PROVE PnlIsTrading'
    <3>1. CASE Unmoved /\ astray' = astray \cup (IF GivenUp(A) # {} THEN {"reading"} ELSE {})
      BY <3>1 DEF Unmoved, PnlIsTrading, SeenPnl
    <3>2. CASE Filed(A)
      BY <2>2, <3>2, FiledTruly DEF PnlIsTrading
    <3> QED
      BY <2>2, <3>1, <3>2, BelieveCases
  <2> QED
    BY <1>1, <2>1, <2>2, HeartbeatCases
<1>2. CASE Transfer
  BY <1>2 DEF Transfer, PnlIsTrading
<1>3. CASE Restart
  BY <1>3 DEF Restart, PnlIsTrading
<1>4. CASE ~Heartbeat /\ ~Transfer /\ ~Restart
  BY <1>4, Elsewhere DEF PnlIsTrading, SeenPnl
<1> QED
  BY <1>1, <1>2, <1>3, <1>4

LEMMA WholeStep ==
    ASSUME AccountInv, SeenFaults, [AccountNext]_accountVars
    PROVE  Whole'
<1> USE DEF AccountInv
<1>1. CASE Heartbeat
  <2>1. CASE RefuseReading
    BY <2>1 DEF RefuseReading, Whole
  <2>2. ASSUME NEW A \in Answers, Vetoes(A) = {}, Believe(A) PROVE Whole'
    <3>1. CASE Unmoved /\ astray' = astray \cup (IF GivenUp(A) # {} THEN {"reading"} ELSE {})
      BY <3>1 DEF Unmoved, Whole
    <3>2. CASE Filed(A)
      BY <2>2, <3>2, FiledTruly DEF Whole
    <3> QED
      BY <2>2, <3>1, <3>2, BelieveCases
  <2> QED
    BY <1>1, <2>1, <2>2, HeartbeatCases
<1>2. CASE Transfer
  BY <1>2 DEF Transfer, Whole
<1>3. CASE Restart
  BY <1>3 DEF Restart, Whole
<1>4. CASE ~Heartbeat /\ ~Transfer /\ ~Restart
  BY <1>4, Elsewhere DEF Whole
<1> QED
  BY <1>1, <1>2, <1>3, <1>4

LEMMA AccountInvAlways == ASSUME SeenFaults PROVE AccountSpec => []AccountInv
<1>1. AccountInv /\ [AccountNext]_accountVars => AccountInv'
  BY AccountTypeStep, StampedStep, LedgeredStep, TrustedStep, PnlStep, WholeStep
     DEF AccountInv
<1> QED
  BY <1>1, AccountInvInit, PTL DEF AccountSpec

\* The PnL in memory is what trading made when the last reading was believed,
\* whatever was missed by reads before and however late the ledger shows what
\* crossed the border of the account: the figures made while it does not are the
\* only ones that may be off.
THEOREM PnlIsRight == ASSUME SeenFaults PROVE AccountSpec => []PnlIsTrading
  BY AccountInvAlways, PTL DEF AccountInv

\* On a reading within the spike window the old PnL meets the new equity.  If the
\* account has sunk since that PnL was filed, the true PnL has sunk with it; if it
\* has risen, the old PnL breached the limit of the account as it was.
LEMMA FlattenStep ==
    ASSUME AccountInv, SeenFaults, [AccountNext]_accountVars, NoPhantomFlatten
    PROVE  NoPhantomFlatten'
<1> USE DEF AccountInv
<1> SUFFICES ASSUME fired', astray' = {}
             PROVE  Breached(EquityOf(Dexes)', TruePnl') \/ Breached(seen', SeenPnl')
  BY DEF NoPhantomFlatten, Breached
<1>1. CASE Heartbeat
  <2>k. eq' = eq /\ EquityOf(Dexes)' = EquityOf(Dexes)
    BY <1>1, HeartbeatKeeps DEF EquityOf
  <2>1. CASE RefuseReading
    BY <2>1 DEF RefuseReading
  <2>2. ASSUME NEW A \in Answers, ~Degraded(A), Vetoes(A) = {}, Believe(A)
        PROVE  Breached(EquityOf(Dexes)', TruePnl') \/ Breached(seen', SeenPnl')
    <3>a. A \in SUBSET Dexes
      BY DEF Answers
    <3>b. Breached(EquityOf(A), mem'.pnl)
      BY <2>2 DEF Believe, Flatten
    <3>e. EquityOf(A) \in Nat /\ EquityOf(A) > 0
      BY <2>2, <3>a, EquityType DEF Degraded
    <3>1. CASE /\ Unmoved /\ lastEq > 0
               /\ astray' = astray \cup (IF GivenUp(A) # {} THEN {"reading"} ELSE {})
      <4>1. astray = {} /\ A = Dexes
        BY <2>2, <3>1, WholeReading
      <4> DEFINE e == EquityOf(Dexes)
                 p == mem.pnl
      <4>2. e \in Nat /\ e > 0 /\ p \in Int /\ lastEq \in Nat /\ base \in Nat /\ flow \in Int
        BY <3>e, <4>1 DEF AccountTypeOK
      <4>3. Breached(e, p)
        BY <3>b, <3>1, <4>1 DEF Unmoved
      <4>4. p = SeenPnl /\ seen = lastEq
        BY <3>1, <4>1 DEF PnlIsTrading, Whole
      <4>5. p = lastEq - base - flow
        BY <4>4 DEF SeenPnl
      <4>6. TruePnl' = e - base - flow /\ SeenPnl' = SeenPnl /\ seen' = seen
        BY <2>k, <3>1 DEF TruePnl, SeenPnl, Unmoved
      <4> HIDE DEF e, p
      <4>7. CASE e < lastEq
        <5>1. lastEq - e \in Nat
          BY <4>2, <4>7
        <5>2. Breached(e, p - (lastEq - e))
          BY <4>2, <4>3, <5>1, BreachedSinks
        <5>3. p - (lastEq - e) = e - base - flow
          BY <4>2, <4>5
        <5> QED
          BY <2>k, <4>6, <5>2, <5>3 DEF e
      <4>8. CASE lastEq <= e
        <5>1. Breached(lastEq, p)
          BY <3>1, <4>2, <4>3, <4>8, BreachedSmaller
        <5> QED
          BY <4>4, <4>6, <5>1
      <4> QED
        BY <4>2, <4>7, <4>8
    <3>2. CASE Filed(A)
      <4>1. A = Dexes /\ mem'.pnl = SeenPnl' /\ seen' = EquityOf(Dexes)
        BY <2>2, <3>2, FiledTruly
      <4> QED
        BY <3>b, <4>1
    <3> QED
      BY <2>2, <3>1, <3>2, BelieveCases
  <2> QED
    BY <1>1, <2>1, <2>2, HeartbeatCases
<1>2. CASE ~Heartbeat /\ AccountNext
  BY <1>2, Zenon DEF AccountNext, Trade, BotOpen, BotClose, ExternalClose, Transfer, Post,
                DayRoll, Restart
<1>3. CASE UNCHANGED accountVars
  <2>1. UNCHANGED <<eq, base, flow, seen, astray, fired>>
    BY <1>3 DEF accountVars, account, truth
  <2>2. Breached(EquityOf(Dexes), TruePnl) \/ Breached(seen, SeenPnl)
    BY <2>1 DEF NoPhantomFlatten
  <2> QED
    BY <2>1, <2>2 DEF Breached, EquityOf, TruePnl, SeenPnl
<1> QED
  BY <1>1, <1>2, <1>3

\* The kill switch flattens only a book that has really lost the day's limit, or
\* had when it last believed a reading and could not close all of it.
THEOREM FlattenIsEarned == ASSUME SeenFaults PROVE AccountSpec => []NoPhantomFlatten
<1>1. AccountInit => NoPhantomFlatten
  BY DEF AccountInit, NoPhantomFlatten
<1>2. AccountInv /\ [AccountNext]_accountVars /\ NoPhantomFlatten => NoPhantomFlatten'
  BY FlattenStep
<1> QED
  BY <1>1, <1>2, AccountInvAlways, PTL DEF AccountSpec
============================================================================
