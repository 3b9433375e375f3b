--------------------------- MODULE TokenBucket ---------------------------
(***************************************************************************)
(* pathiel/client/rate_limit.TokenBucket, shared by every thread of a      *)
(* process that calls the exchange.                                        *)
(*                                                                         *)
(* The bucket is refilled lazily: only acquire() looks at the clock, under *)
(* the lock, and credits the time since the last look.  A caller that must *)
(* wait sleeps outside the lock, at most half a second at a time, and then *)
(* competes again; nothing queues the callers.                             *)
(*                                                                         *)
(* Times are kept relative to now: `lag` is the age of _last, `left` a     *)
(* caller's time to its deadline, `nap` the rest of its sleep.             *)
(***************************************************************************)
EXTENDS BudgetConstants

CONSTANTS
    Threads,
    MaxWait,            \* max_wait, in ticks
    MaxNap,             \* the half second a sleep lasts at most, in ticks
    MaxLag              \* bound: _last is not aged beyond this

ASSUME BucketAssumption ==
    /\ MaxWait \in Nat /\ MaxNap \in Nat \ {0}
    /\ MaxLag \in Nat

\* By MaxLag the bucket has long been full.
ASSUME LagFills == MaxLag * Refill >= Capacity

VARIABLES
    tokens,     \* _tokens, as of _last
    lag,        \* ticks since _last
    pc,         \* thread -> "out", "acquire", "asleep"
    weight, left, nap,
    contended,  \* ghost: thread -> another call was granted during its call
    elapsed, granted    \* ghost: a window of time, and the weight granted in it

calls  == <<pc, weight, left, nap, contended>>
window == <<elapsed, granted>>
vars   == <<tokens, lag, calls, window>>
---------------------------------------------------------------------------
Least(a, b)    == IF a <= b THEN a ELSE b
CountDown(n)   == IF n = 0 THEN 0 ELSE n - 1

\* Mutant: no cap on what has been saved up.
LevelUncapped == tokens + lag * Refill

\* What the refill in acquire() makes of _tokens.
Level == Least(Capacity, tokens + lag * Refill)

Init ==
    /\ tokens = Capacity /\ lag = 0
    /\ pc = [t \in Threads |-> "out"]
    /\ weight = [t \in Threads |-> 0] /\ left = [t \in Threads |-> 0]
    /\ nap = [t \in Threads |-> 0] /\ contended = [t \in Threads |-> FALSE]
    /\ elapsed = 0 /\ granted = 0

\* _http_post asks for the weight of its endpoint.
Call(t) ==
    /\ pc[t] = "out"
    /\ \E w \in Weights : weight' = [weight EXCEPT ![t] = w]
    /\ left' = [left EXCEPT ![t] = MaxWait]
    /\ contended' = [contended EXCEPT ![t] = FALSE]
    /\ pc' = [pc EXCEPT ![t] = "acquire"]
    /\ UNCHANGED <<tokens, lag, nap, window>>

Leave(t) ==
    /\ pc' = [pc EXCEPT ![t] = "out"]
    /\ weight' = [weight EXCEPT ![t] = 0]
    /\ left' = [left EXCEPT ![t] = 0]
    /\ UNCHANGED nap

\* Mutant: the weight is not taken out of the bucket.
GrantFree(t) ==
    /\ pc[t] = "acquire" /\ weight[t] <= Level
    /\ tokens' = Level /\ lag' = 0
    /\ Leave(t)
    /\ contended' = [u \in Threads |-> u # t /\ (contended[u] \/ pc[u] # "out")]
    /\ granted' = granted + weight[t]
    /\ UNCHANGED elapsed

\* The lock section finds enough tokens.
Grant(t) ==
    /\ pc[t] = "acquire" /\ weight[t] <= Level
    /\ tokens' = Level - weight[t] /\ lag' = 0
    /\ Leave(t)
    /\ contended' = [u \in Threads |-> u # t /\ (contended[u] \/ pc[u] # "out")]
    /\ granted' = granted + weight[t]
    /\ UNCHANGED elapsed

\* Mutants: the deadline is compared with the refill of the whole weight, or not
\* at all.
HopelessWhole(t) == weight[t] > left[t] * Refill
HopelessNever(t) == left[t] < 0

\* The deficit is refilled in time, or not; with no refill it never is.
Hopeless(t) == weight[t] - Level > left[t] * Refill

\* Mutant: _last moves on and what it stands for is not credited.
RefuseUncredited(t) ==
    /\ pc[t] = "acquire" /\ weight[t] > Level
    /\ Hopeless(t)
    /\ lag' = 0
    /\ Leave(t)
    /\ contended' = [contended EXCEPT ![t] = FALSE]
    /\ UNCHANGED <<tokens, window>>

\* It does not, and waiting for the deficit would exceed max_wait.
Refuse(t) ==
    /\ pc[t] = "acquire" /\ weight[t] > Level
    /\ Hopeless(t)
    /\ tokens' = Level /\ lag' = 0
    /\ Leave(t)
    /\ contended' = [contended EXCEPT ![t] = FALSE]
    /\ UNCHANGED window

\* Whole ticks until the deficit is refilled, at most MaxNap.
Naps(t) ==
    LET deficit == weight[t] - Level
    IN  {n \in 1..MaxNap : /\ (n - 1) * Refill < deficit
                           /\ n = MaxNap \/ n * Refill >= deficit}

Sleep(t) ==
    /\ pc[t] = "acquire" /\ weight[t] > Level
    /\ ~Hopeless(t)
    /\ tokens' = Level /\ lag' = 0
    /\ \E n \in Naps(t) : nap' = [nap EXCEPT ![t] = n]
    /\ pc' = [pc EXCEPT ![t] = "asleep"]
    /\ UNCHANGED <<weight, left, contended, window>>

Wake(t) ==
    /\ pc[t] = "asleep" /\ nap[t] = 0
    /\ pc' = [pc EXCEPT ![t] = "acquire"]
    /\ UNCHANGED <<tokens, lag, weight, left, nap, contended, window>>

\* The clock; it does not wait for any thread.
Tick ==
    /\ lag' = Least(MaxLag, lag + 1)
    /\ left' = [t \in Threads |-> CountDown(left[t])]
    /\ nap' = [t \in Threads |-> CountDown(nap[t])]
    /\ \/ elapsed < MaxWindow /\ elapsed' = elapsed + 1 /\ granted' = granted
       \/ elapsed = MaxWindow /\ elapsed' = 0 /\ granted' = 0
    /\ UNCHANGED <<tokens, pc, weight, contended>>

\* Ghost: the window may be opened at any moment.
OpenWindow ==
    /\ elapsed' = 0 /\ granted' = 0
    /\ UNCHANGED <<tokens, lag, calls>>

Acquire(t) == Grant(t) \/ Refuse(t) \/ Sleep(t) \/ Wake(t)

Next == Tick \/ OpenWindow \/ \E t \in Threads : Call(t) \/ Acquire(t)

Spec == Init /\ [][Next]_vars

\* Time passes, and a thread that may run is run.
FairSpec == Spec /\ WF_vars(Tick) /\ \A t \in Threads : WF_vars(Acquire(t))
---------------------------------------------------------------------------
TypeOK ==
    /\ tokens \in 0..Capacity /\ lag \in 0..MaxLag
    /\ pc \in [Threads -> {"out", "acquire", "asleep"}]
    /\ weight \in [Threads -> Weights \cup {0}]
    /\ left \in [Threads -> 0..MaxWait] /\ nap \in [Threads -> 0..MaxNap]
    /\ contended \in [Threads -> BOOLEAN]
    /\ elapsed \in 0..MaxWindow /\ granted \in Nat

\* The lazy refill keeps the budget an eager one would: every step of the bucket
\* is a tick of RateBudget, a grant within its level, or nothing to it.
Budget == INSTANCE RateBudget WITH level <- Level

ImplementsBudget == Budget!Spec

\* In any stretch of time the process sends at most a burst and what the stretch
\* refills: what the exchange's weight limit is compared with.
WindowBound == granted <= Capacity + Refill * elapsed

\* A call the bucket could serve in time is refused only if somebody else was
\* served while it waited, however late the scheduler ran its thread.
RefusedOnlyWhenContended ==
    [][\A t \in Threads :
         Refuse(t) /\ weight[t] <= Capacity /\ weight[t] <= Refill * MaxWait
            => contended[t]]_vars

\* Every acquire() returns: it is granted or refused, it does not wait for ever.
EveryCallReturns == \A t \in Threads : pc[t] # "out" ~> pc[t] = "out"
===========================================================================
