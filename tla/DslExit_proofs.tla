-------------------------- MODULE DslExit_proofs --------------------------
(***************************************************************************)
(* Theorems about DslExit, for every policy, price set and leverage set:   *)
(* the tracker keeps its types, its floor never loosens, a position that   *)
(* reached phase 2 has its floor at or above its entry, and it is held at  *)
(* a loss for fewer checks than the breaches its policy wants.             *)
(***************************************************************************)
EXTENDS DslExit, SequenceTheorems, WellFoundedInduction, TLAPS

(* The greater and the smaller of two integers. *)
LEMMA MaxOfTwo ==
    ASSUME NEW a \in Int, NEW b \in Int
    PROVE  Max({a, b}) \in Int /\ Max({a, b}) >= a /\ Max({a, b}) >= b
<1>1. \E x \in {a, b} : \A y \in {a, b} : x >= y
    OBVIOUS
<1>2. Max({a, b}) \in {a, b} /\ \A y \in {a, b} : Max({a, b}) >= y
    BY <1>1 DEF Max
<1> QED  BY <1>2

LEMMA MinOfTwo ==
    ASSUME NEW a \in Int, NEW b \in Int
    PROVE  Min({a, b}) \in {a, b} /\ Min({a, b}) =< a /\ Min({a, b}) =< b
<1>1. \E x \in {a, b} : \A y \in {a, b} : x =< y
    OBVIOUS
<1>2. Min({a, b}) \in {a, b} /\ \A y \in {a, b} : Min({a, b}) =< y
    BY <1>1 DEF Min
<1> QED  BY <1>2

(* A nonempty set of indices of a sequence has a greatest member. *)
LEMMA LastIndex ==
    ASSUME NEW n \in Nat, NEW I \in SUBSET (1..n), I # {}
    PROVE  Max(I) \in I
<1> DEFINE T == {n - i : i \in I}
<1>0. \A i \in I : i \in Int /\ n - i \in Nat
    OBVIOUS
<1>1. T \subseteq Nat /\ T # {}
    BY <1>0, Zenon
<1>2. PICK x \in T : \A y \in T : ~(<<y, x>> \in OpToRel(<, Nat))
    BY <1>1, WFMin, NatLessThanWellFounded
<1>3. \A y \in T : x <= y
  <2> SUFFICES ASSUME NEW y \in T PROVE x <= y
    OBVIOUS
  <2>1. x \in Nat /\ y \in Nat
    BY <1>1
  <2>2. ~(y < x)
    BY <1>2, <2>1 DEF OpToRel
  <2> QED  BY <2>1, <2>2
<1>4. PICK i \in I : x = n - i
    OBVIOUS
<1>5. \A j \in I : i >= j
  <2> SUFFICES ASSUME NEW j \in I PROVE i >= j
    OBVIOUS
  <2>1. n - i <= n - j
    BY <1>3, <1>4
  <2>2. i \in Int /\ j \in Int
    BY <1>0
  <2> QED  BY <2>1, <2>2
<1> QED  BY <1>5 DEF Max

(* The give-back of every profit is a whole number from 0 to 100 percent. *)
LEMMA RetraceType ==
    ASSUME NEW best
    PROVE  Retrace(best) \in 0..100
<1> DEFINE reached == {i \in DOMAIN Tiers : Gain(best) >= Pct(Tiers[i].pct)}
<1>1. CASE reached = {}
    BY <1>1, DslAssumption DEF DslAssumption, Retrace
<1>2. CASE reached # {}
  <2>1. Len(Tiers) \in Nat /\ DOMAIN Tiers = 1..Len(Tiers)
      BY DslAssumption DEF DslAssumption
  <2>2. Max(reached) \in DOMAIN Tiers
      BY <1>2, <2>1, LastIndex
  <2>3. Tiers[Max(reached)].retrace \in 0..100
    <3> HIDE DEF reached
    <3>0. Tiers \in Seq([pct : Nat, retrace : 0..100])
        BY DslAssumption DEF DslAssumption
    <3>1. \A i \in DOMAIN Tiers : Tiers[i] \in [pct : Nat, retrace : 0..100]
        BY <2>1, <3>0, ElementOfSeq
    <3>2. Tiers[Max(reached)] \in [pct : Nat, retrace : 0..100]
        BY <2>2, <3>1, Zenon
    <3> QED  BY <3>2
  <2>4. Retrace(best) = Tiers[Max(reached)].retrace
      BY <1>2, Zenon DEF Retrace
  <2> HIDE DEF reached
  <2> QED  BY <2>3, <2>4
<1> QED  BY <1>1, <1>2

LEMMA MaxLossType ==
    ASSUME TypeOK
    PROVE  EffectiveMaxLoss \in Int
<1>1. SpotCap \in Int
  <2>1. atr * AtrMult \in Int /\ AtrFloor \in Int /\ AtrCeiling \in Int /\ MaxLossPct \in Int
      BY DslAssumption DEF DslAssumption, TypeOK
  <2>2. Max({atr * AtrMult, AtrFloor}) \in Int
      BY <2>1, MaxOfTwo
  <2>3. Min({Max({atr * AtrMult, AtrFloor}), AtrCeiling}) \in Int
      BY <2>1, <2>2, MinOfTwo
  <2> QED  BY <2>1, <2>3 DEF SpotCap
<1>2. MaxLossRoePct \div lev \in Int
    BY DslAssumption DEF DslAssumption, TypeOK
<1> QED  BY <1>1, <1>2, MinOfTwo DEF EffectiveMaxLoss

(* What check() computes for the floor is a number; it is at least the floor *)
(* it had, and at least the trailing floor of this mark.                     *)
LEMMA FloorOfCheck ==
    ASSUME TypeOK, NEW m \in Int, NEW best \in Int
    PROVE  /\ TrailingFloor(m, best) \in Int
           /\ RatchetedFloor(m, best) \in Int
           /\ RatchetedFloor(m, best) >= TrailingFloor(m, best)
           /\ hasFloor => RatchetedFloor(m, best) >= floor
<1>1. \A q \in Int : Pct(q) \in Int
    BY DEF Pct, TypeOK
<1>2. TrailingFloor(m, best) \in Int
  <2>1. 100 * entry + (best - entry) * (100 - Retrace(best)) \in Int
      BY RetraceType DEF TypeOK
  <2>2. 100 * entry - Pct(EffectiveMaxLoss) \in Int
      BY <1>1, MaxLossType DEF TypeOK
  <2> QED  BY <2>1, <2>2 DEF TrailingFloor
<1>3. BreakevenFloor(m, best) \in Int /\ BreakevenFloor(m, best) >= TrailingFloor(m, best)
  <2>1. 100 * entry + Pct(BreakevenLock) \in Int
      BY <1>1, DslAssumption DEF DslAssumption, TypeOK
  <2>2. /\ Max({TrailingFloor(m, best), 100 * entry + Pct(BreakevenLock)}) \in Int
        /\ Max({TrailingFloor(m, best), 100 * entry + Pct(BreakevenLock)})
             >= TrailingFloor(m, best)
      BY <1>2, <2>1, MaxOfTwo
  <2>3. TrailingFloor(m, best) >= TrailingFloor(m, best)
      BY <1>2
  <2> QED  BY <1>2, <2>2, <2>3 DEF BreakevenFloor
<1>4. floor \in Int
    BY DEF TypeOK
<1>5. CASE hasFloor
  <2>1. RatchetedFloor(m, best) = Max({BreakevenFloor(m, best), floor})
      BY <1>5 DEF RatchetedFloor
  <2>2. /\ RatchetedFloor(m, best) \in Int
        /\ RatchetedFloor(m, best) >= BreakevenFloor(m, best)
        /\ RatchetedFloor(m, best) >= floor
      BY <1>3, <1>4, <2>1, MaxOfTwo
  <2> QED  BY <1>2, <1>3, <2>2
<1>6. CASE ~hasFloor
    BY <1>2, <1>3, <1>6 DEF RatchetedFloor
<1> QED  BY <1>5, <1>6

---------------------------------------------------------------------------
LEMMA TypeStep == TypeOK /\ [Next]_vars => TypeOK'
<1> SUFFICES ASSUME TypeOK, [Next]_vars PROVE TypeOK'
    OBVIOUS
<1>1. CASE Register
    BY <1>1, DslAssumption DEF Register, TypeOK, Snapshot, DslAssumption
<1>2. CASE Check
  <2>1. PICK px \in Prices, contended \in BOOLEAN :
           /\ mark' = side * px
           /\ \/ CheckEarly(side * px, contended)
              \/ ~Early(side * px, contended) /\ CheckFloor(side * px)
      BY <1>2 DEF Check
  <2> DEFINE m == side * px
  <2>2. m \in Int
      BY DslAssumption DEF DslAssumption, TypeOK
  <2>3. Best(m) \in Int
      BY <2>2, MaxOfTwo DEF Best, TypeOK
  <2>4. status' \in {"none", "open", "closed"} /\ mark' \in Int
      BY <1>2, <2>1, <2>2 DEF Check
  <2>5. UNCHANGED <<side, lev, atr, policy, age, entry, adds, restarts>> /\ losing' \in Nat
      BY <1>2 DEF Check, TypeOK
  <2>6. CASE CheckEarly(m, contended)
    <3>1. verdict' \in ExitVerdicts
        BY <2>6 DEF CheckEarly, EarlyVerdict, ExitVerdicts
    <3> QED  BY <2>3, <2>4, <2>5, <2>6, <3>1 DEF CheckEarly, TypeOK
  <2>7. CASE CheckFloor(m)
    <3>1. \A n \in Nat : Counted(n) \in Nat
      <4>1. BreachesRequired \in Nat
          BY DEF BreachesRequired, TypeOK
      <4>2. \A n \in Nat : Counted(n) \in {n + 1, BreachesRequired}
          BY <4>1, MinOfTwo DEF Counted
      <4> QED  BY <4>1, <4>2
    <3>2. peak' \in Int /\ hasFloor' \in BOOLEAN /\ floor' \in Int
        BY <2>2, <2>3, <2>7, FloorOfCheck DEF CheckFloor
    <3>3. breaches' \in Nat /\ armed' \in BOOLEAN
        BY <2>7, <3>1 DEF CheckFloor, NextBreaches, TypeOK, Protected
    <3>4. verdict' \in ExitVerdicts \cup {"none", "hold", "noise_band_hold"}
        BY <2>7 DEF CheckFloor, ExitVerdicts
    <3>5. saved' \in [entry : Int, peak : Int, hasFloor : BOOLEAN, floor : Int,
                      breaches : Nat, lev : Nat \ {0}]
        BY <2>7, <3>2 DEF CheckFloor, Snapshot, TypeOK
    <3> QED  BY <2>4, <2>5, <3>2, <3>3, <3>4, <3>5 DEF TypeOK
  <2> QED  BY <2>1, <2>6, <2>7
<1>3. CASE Add
  <2>1. PICK px \in Prices : entry' = side * px /\ peak' = Max({peak, side * px})
      BY <1>3 DEF Add
  <2>2. side * px \in Int /\ peak \in Int
      BY DslAssumption DEF DslAssumption, TypeOK
  <2>3. entry' \in Int /\ peak' \in Int
      BY <2>1, <2>2, MaxOfTwo
  <2>4. hasFloor' \in BOOLEAN /\ armed' \in BOOLEAN
      BY <1>3, Zenon DEF Add, TypeOK
  <2>5. saved' \in [entry : Int, peak : Int, hasFloor : BOOLEAN, floor : Int,
                    breaches : Nat, lev : Nat \ {0}]
      BY <1>3, <2>3, <2>4 DEF Add, TypeOK, Snapshot
  <2> QED  BY <1>3, <2>3, <2>4, <2>5 DEF Add, TypeOK
<1>4. CASE Leverage
    BY <1>4, DslAssumption DEF Leverage, TypeOK, Snapshot, DslAssumption
<1>5. CASE Restart
    BY <1>5 DEF Restart, TypeOK
<1>6. CASE Wait
    BY <1>6 DEF Wait, TypeOK
<1>7. CASE UNCHANGED vars
    BY <1>7 DEF vars, tracker, TypeOK
<1> QED  BY <1>1, <1>2, <1>3, <1>4, <1>5, <1>6, <1>7 DEF Next

(* The tracker keeps its types.  This is what lets the floor be compared at *)
(* all: dsl_exit.check() compares it with the mark on every tick.           *)
THEOREM TypeCorrect == Spec => []TypeOK
<1>1. Init => TypeOK
  <2> SUFFICES ASSUME Init PROVE TypeOK
      OBVIOUS
  <2>1. hasFloor \in BOOLEAN /\ armed \in BOOLEAN
      BY Zenon DEF Init
  <2>2. entry \in Int /\ peak \in Int /\ floor \in Int /\ breaches \in Nat /\ lev \in Nat \ {0}
      BY DEF Init
  <2>3. saved \in [entry : Int, peak : Int, hasFloor : BOOLEAN, floor : Int,
                  breaches : Nat, lev : Nat \ {0}]
      BY <2>1, <2>2 DEF Init, Snapshot
  <2> QED  BY <2>1, <2>2, <2>3 DEF Init, TypeOK
<1> QED  BY <1>1, TypeStep, PTL DEF Spec
---------------------------------------------------------------------------
(* The file agrees with the tracker on everything the floor depends on: every *)
(* write of the floor or the entry is followed by a save in the same step.    *)
Kept ==
    /\ saved.entry = entry
    /\ saved.hasFloor = hasFloor
    /\ saved.floor = floor

LEMMA KeptInvariant == Spec => []Kept
<1>1. Init => Kept
    BY DEF Init, Kept, Snapshot
<1>2. TypeOK /\ Kept /\ [Next]_vars => Kept'
  <2> SUFFICES ASSUME TypeOK, Kept, [Next]_vars PROVE Kept'
      OBVIOUS
  <2>1. CASE Register
      BY <2>1 DEF Register, Kept, Snapshot
  <2>2. CASE Check
    <3>1. PICK px \in Prices, contended \in BOOLEAN :
             CheckEarly(side * px, contended) \/ CheckFloor(side * px)
        BY <2>2 DEF Check
    <3>2. CASE CheckEarly(side * px, contended)
        BY <2>2, <3>2 DEF Check, CheckEarly, Kept
    <3>3. CASE CheckFloor(side * px)
        BY <2>2, <3>3 DEF Check, CheckFloor, Kept, Snapshot, TypeOK
    <3> QED  BY <3>1, <3>2, <3>3
  <2>3. CASE Add
      BY <2>3 DEF Add, Kept, Snapshot
  <2>4. CASE Leverage
      BY <2>4 DEF Leverage, Kept, Snapshot
  <2>5. CASE Restart
      BY <2>5 DEF Restart, Kept
  <2>6. CASE Wait
      BY <2>6 DEF Wait, Kept
  <2>7. CASE UNCHANGED vars
      BY <2>7 DEF vars, tracker, Kept
  <2> QED  BY <2>1, <2>2, <2>3, <2>4, <2>5, <2>6, <2>7 DEF Next
<1> QED  BY <1>1, <1>2, TypeCorrect, PTL DEF Spec

(* DSLTracker's ratchet: whatever marks, adds, leverage changes and restarts *)
(* do, the floor of an open position only ever tightens.                     *)
THEOREM FloorNeverLoosens == Spec => FloorRatchets
<1> DEFINE Tightens == (status = "open" /\ hasFloor) => (hasFloor' /\ floor' >= floor)
<1>1. TypeOK /\ Kept /\ [Next]_vars => [Tightens]_vars
  <2> SUFFICES ASSUME TypeOK, Kept, Next, status = "open", hasFloor
               PROVE  hasFloor' /\ floor' >= floor
      OBVIOUS
  <2>1. floor >= floor
      BY DEF TypeOK
  <2>2. CASE Check
    <3>1. PICK px \in Prices, contended \in BOOLEAN :
             CheckEarly(side * px, contended) \/ CheckFloor(side * px)
        BY <2>2 DEF Check
    <3>2. CASE CheckEarly(side * px, contended)
        BY <2>1, <3>2 DEF CheckEarly
    <3>3. CASE CheckFloor(side * px)
      <4>1. side * px \in Int
          BY DslAssumption DEF DslAssumption, TypeOK
      <4>2. Best(side * px) \in Int
          BY <4>1, MaxOfTwo DEF Best, TypeOK
      <4> QED  BY <3>3, <4>1, <4>2, FloorOfCheck DEF CheckFloor
    <3> QED  BY <3>1, <3>2, <3>3
  <2>3. CASE Restart
      BY <2>1, <2>3 DEF Restart, Kept
  <2> QED  BY <2>1, <2>2, <2>3 DEF Next, Register, Add, Leverage, Wait
<1> QED  BY <1>1, TypeCorrect, KeptInvariant, PTL DEF Spec, FloorRatchets

---------------------------------------------------------------------------
(* Prices are positive, so the entry has the sign of the side; and a position *)
(* that is not open yet has not been checked.                                 *)
Grounded ==
    /\ side * entry >= 0
    /\ status = "none" => ~armed

LEMMA GroundedInvariant == Spec => []Grounded
<1>1. Init => Grounded
    BY DEF Init, Grounded
<1>2. TypeOK /\ Kept /\ Grounded /\ [Next]_vars => Grounded'
  <2> SUFFICES ASSUME TypeOK, Kept, Grounded, [Next]_vars PROVE Grounded'
      OBVIOUS
  <2>1. \A s \in {1, -1}, px \in Prices : s * (s * px) >= 0
      BY DslAssumption DEF DslAssumption
  <2>2. CASE Register
    <3>1. PICK px \in Prices, s \in {1, -1} : side' = s /\ entry' = s * px
        BY <2>2 DEF Register
    <3>2. (side * entry)' >= 0
        BY <2>1, <3>1
    <3>3. status' # "none"
        BY <2>2 DEF Register
    <3> QED  BY <3>2, <3>3 DEF Grounded
  <2>3. CASE Check
    <3>1. status' # "none" /\ UNCHANGED <<side, entry>>
        BY <2>3 DEF Check
    <3> QED  BY <3>1 DEF Grounded
  <2>4. CASE Add
    <3>1. PICK px \in Prices : entry' = side * px
        BY <2>4 DEF Add
    <3>2. side' = side /\ status' = "open" /\ side \in {1, -1}
        BY <2>4 DEF Add, TypeOK
    <3> QED  BY <2>1, <3>1, <3>2 DEF Grounded
  <2>5. CASE Leverage
      BY <2>5 DEF Leverage, Grounded
  <2>6. CASE Restart
      BY <2>6 DEF Restart, Kept, Grounded
  <2>7. CASE Wait
      BY <2>7 DEF Wait, Grounded
  <2>8. CASE UNCHANGED vars
      BY <2>8 DEF vars, tracker, Grounded
  <2> QED  BY <2>2, <2>3, <2>4, <2>5, <2>6, <2>7, <2>8 DEF Next
<1> QED  BY <1>1, <1>2, TypeCorrect, KeptInvariant, PTL DEF Spec

(* A phase-2 floor is at or above the entry: the profit it keeps is a share *)
(* of a profit that is not negative.                                        *)
LEMMA PhaseTwoFloor ==
    ASSUME TypeOK, Grounded, NEW m \in Int, NEW best \in Int,
           best >= m, Protected(m)
    PROVE  TrailingFloor(m, best) >= 100 * entry
<1> DEFINE kept == 100 - Retrace(best)
<1>1. ProtectPct * (entry * side) >= 0
  <2>1. entry * side \in Int /\ entry * side >= 0
      BY DEF TypeOK, Grounded
  <2>2. ProtectPct \in Nat
      BY DslAssumption DEF DslAssumption
  <2> QED  BY <2>1, <2>2
<1>2. m >= entry
    BY <1>1, DslAssumption DEF Protected, Gain, Pct, TypeOK, DslAssumption
<1>3. best - entry \in Nat /\ kept \in Nat
    BY <1>2, RetraceType DEF TypeOK
<1>4. (best - entry) * kept >= 0
  <2> HIDE DEF kept
  <2>1. \A a, b \in Nat : a * b >= 0
      OBVIOUS
  <2> QED  BY <1>3, <2>1
<1>5. TrailingFloor(m, best) = 100 * entry + (best - entry) * kept
    BY DEF TrailingFloor
<1>6. (best - entry) * kept \in Int /\ entry \in Int
    BY <1>3 DEF TypeOK
<1> HIDE DEF kept
<1> QED  BY <1>4, <1>5, <1>6

(* Once a check put the position in phase 2 its floor stays at or above entry, *)
(* over retraces, leverage changes and restarts (an add re-arms from scratch). *)
THEOREM Locked == Spec => []LockedAboveEntry
<1>1. Init => LockedAboveEntry
    BY DEF Init, LockedAboveEntry
<1>2. TypeOK /\ Kept /\ Grounded /\ LockedAboveEntry /\ [Next]_vars => LockedAboveEntry'
  <2> SUFFICES ASSUME TypeOK, Kept, Grounded, LockedAboveEntry, [Next]_vars, armed'
               PROVE  hasFloor' /\ floor' >= 100 * entry'
      BY DEF LockedAboveEntry
  <2>1. CASE Register
      BY <2>1 DEF Register, Grounded
  <2>2. CASE Check
    <3>1. PICK px \in Prices, contended \in BOOLEAN :
             CheckEarly(side * px, contended) \/ CheckFloor(side * px)
        BY <2>2 DEF Check
    <3>2. entry' = entry
        BY <2>2 DEF Check
    <3>3. CASE CheckEarly(side * px, contended)
        BY <3>2, <3>3 DEF CheckEarly, LockedAboveEntry
    <3>4. CASE CheckFloor(side * px)
      <4> DEFINE m == side * px
      <4>1. m \in Int
          BY DslAssumption DEF DslAssumption, TypeOK
      <4>2. Best(m) \in Int /\ Best(m) >= m
          BY <4>1, MaxOfTwo DEF Best, TypeOK
      <4>3. hasFloor' /\ floor' = RatchetedFloor(m, Best(m))
          BY <3>4 DEF CheckFloor
      <4>4. floor \in Int /\ entry \in Int
          BY DEF TypeOK
      <4>5. /\ TrailingFloor(m, Best(m)) \in Int
            /\ RatchetedFloor(m, Best(m)) \in Int
            /\ RatchetedFloor(m, Best(m)) >= TrailingFloor(m, Best(m))
            /\ hasFloor => RatchetedFloor(m, Best(m)) >= floor
          BY <4>1, <4>2, FloorOfCheck
      <4> HIDE DEF m
      <4>6. CASE Protected(m)
        <5>1. TrailingFloor(m, Best(m)) >= 100 * entry
            BY <4>1, <4>2, <4>6, PhaseTwoFloor
        <5>2. floor' >= 100 * entry'
            BY <3>2, <4>3, <4>4, <4>5, <5>1
        <5> QED  BY <4>3, <5>2
      <4>7. CASE ~Protected(m)
        <5>1. armed
            BY <3>4, <4>7 DEF CheckFloor, m
        <5>2. hasFloor /\ floor >= 100 * entry
            BY <5>1 DEF LockedAboveEntry
        <5>3. floor' >= 100 * entry'
            BY <3>2, <4>3, <4>4, <4>5, <5>2
        <5> QED  BY <4>3, <5>3
      <4> QED  BY <4>6, <4>7
    <3> QED  BY <3>1, <3>3, <3>4
  <2>3. CASE Add
      BY <2>3 DEF Add
  <2>4. CASE Leverage
      BY <2>4 DEF Leverage, LockedAboveEntry
  <2>5. CASE Restart
      BY <2>5 DEF Restart, Kept, LockedAboveEntry
  <2>6. CASE Wait
      BY <2>6 DEF Wait, LockedAboveEntry
  <2>7. CASE UNCHANGED vars
      BY <2>7 DEF vars, tracker, LockedAboveEntry
  <2> QED  BY <2>1, <2>2, <2>3, <2>4, <2>5, <2>6, <2>7 DEF Next
<1> QED  BY <1>1, <1>2, TypeCorrect, KeptInvariant, GroundedInvariant, PTL DEF Spec

(* With one breach required and no noise band, the first check that finds a  *)
(* phase-2 position losing tells it to exit.                                 *)
THEOREM WinnerExits == Spec => WinnerNeverHeldAtLoss
<1> DEFINE Exits == (armed /\ BreachesRequired = 1 /\ ~NoiseBand /\ Check /\ mark' < entry)
                      => verdict' \in ExitVerdicts
<1>1. TypeOK /\ LockedAboveEntry /\ [Next]_vars => [Exits]_vars
  <2> SUFFICES ASSUME TypeOK, LockedAboveEntry, armed, BreachesRequired = 1, ~NoiseBand,
                      Check, mark' < entry
               PROVE  verdict' \in ExitVerdicts
      OBVIOUS
  <2>1. PICK px \in Prices, contended \in BOOLEAN :
           /\ mark' = side * px
           /\ CheckEarly(side * px, contended) \/ CheckFloor(side * px)
      BY DEF Check
  <2> DEFINE m == side * px
  <2>2. CASE CheckEarly(m, contended)
      BY <2>2 DEF CheckEarly, EarlyVerdict, ExitVerdicts
  <2>3. CASE CheckFloor(m)
    <3>1. m \in Int /\ entry \in Int /\ floor \in Int /\ m < entry
        BY <2>1, DslAssumption DEF DslAssumption, TypeOK
    <3>2. Best(m) \in Int
        BY <3>1, MaxOfTwo DEF Best, TypeOK
    <3>3. floor' \in Int /\ floor' >= 100 * entry
        BY <2>3, <3>1, <3>2, FloorOfCheck DEF CheckFloor, LockedAboveEntry
    <3>4. 100 * m < floor'
        BY <3>1, <3>3
    <3>5. ~InNoiseBand(m, peak')
        BY DEF InNoiseBand
    <3>6. breaches' >= BreachesRequired
      <4>1. breaches' = Min({breaches + 1, BreachesRequired})
          BY <2>3, <3>4, <3>5 DEF CheckFloor, NextBreaches, Counted
      <4>2. breaches + 1 \in Int /\ breaches + 1 >= 1 /\ BreachesRequired \in Int
          BY DEF TypeOK
      <4>3. Min({breaches + 1, BreachesRequired}) \in {breaches + 1, BreachesRequired}
          BY <4>2, MinOfTwo, Zenon
      <4> QED  BY <4>1, <4>2, <4>3
    <3>7. verdict' = "floor_breach"
        BY <2>3, <3>4, <3>5, <3>6 DEF CheckFloor
    <3> QED  BY <3>7 DEF ExitVerdicts
  <2> QED  BY <2>1, <2>2, <2>3
<1> QED  BY <1>1, TypeCorrect, Locked, PTL DEF Spec, WinnerNeverHeldAtLoss
---------------------------------------------------------------------------
(* A position in phase 2 has a peak that took it there, in memory and in the  *)
(* file: before the hard timeout only a peak short of phase 2 is not saved.   *)
Peaked ==
    /\ peak >= entry /\ saved.peak >= entry
    /\ armed => Gain(peak) >= Pct(ProtectPct) /\ Gain(saved.peak) >= Pct(ProtectPct)
    /\ status = "open" /\ ~TimedOut => saved.peak = peak \/ Gain(peak) < Pct(ProtectPct)

(* A percentage of the entry is an integer, and a greater one is more. *)
LEMMA PctType ==
    ASSUME TypeOK, Grounded, NEW p \in Int, NEW q \in Int, p <= q
    PROVE  Pct(p) \in Int /\ Pct(q) \in Int /\ Pct(p) <= Pct(q) /\ (p >= 0 => Pct(p) >= 0)
<1>1. entry * side \in Nat
    BY DEF TypeOK, Grounded
<1>2. \A n \in Nat : p * n \in Int /\ q * n \in Int /\ p * n <= q * n /\ (p >= 0 => p * n >= 0)
  <2> SUFFICES ASSUME NEW n \in Nat
               PROVE  p * n \in Int /\ q * n \in Int /\ p * n <= q * n /\ (p >= 0 => p * n >= 0)
      OBVIOUS
  <2>1. (q - p) * n >= 0 /\ q * n = p * n + (q - p) * n
    <3>1. \A a, b \in Nat : a * b >= 0
        OBVIOUS
    <3>2. q - p \in Nat
        OBVIOUS
    <3> QED  BY <3>1, <3>2
  <2>2. p >= 0 => p * n >= 0
    <3>1. \A a, b \in Nat : a * b >= 0
        OBVIOUS
    <3>2. p >= 0 => p \in Nat
        OBVIOUS
    <3> QED  BY <3>1, <3>2
  <2> QED  BY <2>1, <2>2
<1> QED  BY <1>1, <1>2 DEF Pct

(* The loss limit is not negative, and a mark beyond it is not above the entry. *)
LEMMA MaxLossIsLoss ==
    ASSUME TypeOK, Grounded, NEW m \in Int, MaxLoss(m)
    PROVE  m <= entry
<1>1. EffectiveMaxLoss >= 0
  <2>1. SpotCap \in Int /\ SpotCap >= 0
    <3>1. atr * AtrMult \in Nat /\ AtrFloor \in Nat /\ AtrCeiling \in Nat /\ MaxLossPct \in Nat
        BY DslAssumption DEF DslAssumption, TypeOK
    <3>2. Max({atr * AtrMult, AtrFloor}) \in Int /\ Max({atr * AtrMult, AtrFloor}) >= AtrFloor
        BY <3>1, MaxOfTwo
    <3>3. Min({Max({atr * AtrMult, AtrFloor}), AtrCeiling})
             \in {Max({atr * AtrMult, AtrFloor}), AtrCeiling}
      <4>1. AtrCeiling \in Int
          BY <3>1
      <4> QED  BY <3>2, <4>1, MinOfTwo, Zenon
    <3> QED  BY <3>1, <3>2, <3>3 DEF SpotCap
  <2>2. MaxLossRoePct \div lev \in Int /\ MaxLossRoePct \div lev >= 0
      BY DslAssumption DEF DslAssumption, TypeOK
  <2>3. Min({SpotCap, MaxLossRoePct \div lev}) \in {SpotCap, MaxLossRoePct \div lev}
      BY <2>1, <2>2, MinOfTwo, Zenon
  <2> QED  BY <2>1, <2>2, <2>3 DEF EffectiveMaxLoss
<1>2. Pct(EffectiveMaxLoss) \in Int /\ Pct(EffectiveMaxLoss) >= 0
    BY <1>1, MaxLossType, PctType
<1> QED  BY <1>2 DEF MaxLoss, Gain, TypeOK

(* What check() makes of the peak. *)
LEMMA PeakedByCheck ==
    ASSUME TypeOK, Kept, Grounded, Peaked, Check
    PROVE  Peaked'
<1>1. PICK px \in Prices, contended \in BOOLEAN :
         \/ CheckEarly(side * px, contended)
         \/ ~Early(side * px, contended) /\ CheckFloor(side * px)
    BY DEF Check
<1>2. status = "open" /\ UNCHANGED <<side, entry, age>>
    BY DEF Check
<1> DEFINE m == side * px
           p == Pct(ProtectPct)
<1>3. m \in Int /\ entry \in Int /\ peak \in Int /\ saved.peak \in Int
    BY DslAssumption DEF DslAssumption, TypeOK
<1>4. peak' = Best(m)
    BY <1>1 DEF CheckEarly, CheckFloor
<1>5. Best(m) \in {peak, m} /\ Best(m) >= peak /\ Best(m) >= m
  <2>1. \E x \in {peak, m} : \A y \in {peak, m} : x >= y
      BY <1>3
  <2> QED  BY <2>1 DEF Best, Max
<1>6. p \in Int
    BY PctType, DslAssumption DEF DslAssumption
<1>7. /\ Pct(ProtectPct)' = p /\ TimedOut' = TimedOut
      /\ \A x \in Int : (x - entry') * 100 = (x - entry) * 100
    BY <1>2 DEF Pct, TimedOut
<1> HIDE DEF m, p
<1>8. /\ peak >= entry /\ saved.peak >= entry
      /\ armed => (peak - entry) * 100 >= p /\ (saved.peak - entry) * 100 >= p
      /\ ~TimedOut => saved.peak = peak \/ (peak - entry) * 100 < p
    BY <1>2 DEF Peaked, Gain, p
<1>9. CASE CheckEarly(m, contended)
  <2>1. UNCHANGED <<saved, armed>>
      BY <1>9 DEF CheckEarly
  <2>2. ~TimedOut => Best(m) = peak \/ (Best(m) - entry) * 100 < p
    <3>1. CASE StaleFlat(m, contended)
        BY <3>1 DEF StaleFlat, Gain, p
    <3>2. CASE MaxLoss(m)
        BY <1>3, <1>5, <1>8, <3>2, MaxLossIsLoss
    <3> QED  BY <1>9, <3>1, <3>2 DEF CheckEarly, Early
  <2>3. peak' >= entry' /\ saved'.peak >= entry'
      BY <1>2, <1>3, <1>4, <1>5, <1>8, <2>1
  <2>4. armed' => (peak' - entry) * 100 >= p /\ (saved'.peak - entry) * 100 >= p
      BY <1>3, <1>4, <1>5, <1>6, <1>8, <2>1
  <2>5. ~TimedOut' => saved'.peak = peak' \/ (peak' - entry) * 100 < p
      BY <1>4, <1>7, <1>8, <2>1, <2>2
  <2> QED  BY <1>2, <1>7, <2>3, <2>4, <2>5 DEF Peaked, Gain
<1>10. CASE ~Early(m, contended) /\ CheckFloor(m)
  <2>1. ~TimedOut
      BY <1>10 DEF Early
  <2>2. saved'.peak = peak' \/ (peak' = peak /\ saved' = saved)
      BY <1>10 DEF CheckFloor, Snapshot
  <2>3. armed' => armed \/ (m - entry) * 100 >= p
      BY <1>10 DEF CheckFloor, Protected, Gain, p
  <2>4. peak' >= entry' /\ saved'.peak >= entry'
      BY <1>2, <1>3, <1>4, <1>5, <1>8, <2>2
  <2>5. armed' => (peak' - entry) * 100 >= p
      BY <1>3, <1>4, <1>5, <1>6, <1>8, <2>3
  <2>6. armed' => (saved'.peak - entry) * 100 >= p
      BY <1>3, <1>4, <1>5, <1>6, <1>8, <2>1, <2>2, <2>5
  <2>7. saved'.peak = peak' \/ (peak' - entry) * 100 < p
      BY <1>8, <2>1, <2>2
  <2> QED  BY <1>2, <1>7, <2>4, <2>5, <2>6, <2>7 DEF Peaked, Gain
<1> QED  BY <1>1, <1>9, <1>10 DEF m

LEMMA PeakedInvariant == Spec => []Peaked
<1>1. Init => Peaked
    BY DEF Init, Snapshot, Peaked
<1>2. TypeOK /\ Kept /\ Grounded /\ Peaked /\ [Next]_vars => Peaked'
  <2> SUFFICES ASSUME TypeOK, Kept, Grounded, Peaked, [Next]_vars PROVE Peaked'
      OBVIOUS
  <2>1. CASE Register
    <3>1. PICK px \in Prices, s \in {1, -1} : entry' = s * px /\ peak' = s * px
        BY <2>1 DEF Register
    <3>2. s * px \in Int
        BY DslAssumption DEF DslAssumption
    <3>3. saved'.peak = peak' /\ ~armed'
        BY <2>1 DEF Register, Snapshot, Grounded
    <3> QED  BY <3>1, <3>2, <3>3 DEF Peaked
  <2>2. CASE Check
      BY <2>2, PeakedByCheck
  <2>3. CASE Add
    <3>1. PICK px \in Prices : entry' = side * px /\ peak' = Max({peak, side * px})
        BY <2>3 DEF Add
    <3>2. side * px \in Int /\ peak \in Int
        BY DslAssumption DEF DslAssumption, TypeOK
    <3>3. peak' >= entry' /\ saved'.peak = peak' /\ ~armed'
        BY <2>3, <3>1, <3>2, MaxOfTwo DEF Add, Snapshot
    <3> QED  BY <3>3 DEF Peaked
  <2>4. CASE Leverage
      BY <2>4 DEF Leverage, Snapshot, Peaked, Gain, Pct, TimedOut
  <2>5. CASE Restart
    <3>1. peak' = saved.peak /\ entry' = entry /\ UNCHANGED <<side, saved, armed>>
        BY <2>5 DEF Restart, Kept
    <3> QED  BY <3>1 DEF Peaked, Gain, Pct
  <2>6. CASE Wait
    <3>1. TimedOut => TimedOut'
        BY <2>6, DslAssumption DEF Wait, TimedOut, TypeOK, DslAssumption
    <3> QED  BY <2>6, <3>1 DEF Wait, Peaked, Gain, Pct
  <2>7. CASE UNCHANGED vars
      BY <2>7 DEF vars, tracker, Peaked, Gain, Pct, TimedOut
  <2> QED  BY <2>1, <2>2, <2>3, <2>4, <2>5, <2>6, <2>7 DEF Next
<1> QED  BY <1>1, <1>2, TypeCorrect, KeptInvariant, GroundedInvariant, PTL DEF Spec

(* A check that finds a phase-2 position losing, and does not tell it to exit, *)
(* counts a breach, and wants more of them.                                    *)
LEMMA LosingIsCounted ==
    ASSUME TypeOK, LockedAboveEntry, Grounded, Peaked, NarrowBand, armed,
           NEW m \in Int, CheckFloor(m), m < entry, verdict' \notin ExitVerdicts
    PROVE  breaches' = breaches + 1 /\ breaches' <= BreachesRequired - 1
<1>1. entry \in Int /\ floor \in Int /\ peak \in Int /\ breaches \in Nat
      /\ BreachesRequired \in Nat
    BY DEF TypeOK, BreachesRequired
<1>2. peak' = Best(m) /\ Best(m) \in Int /\ Best(m) >= peak
    BY <1>1, MaxOfTwo DEF Best, CheckFloor
<1>3. floor' >= 100 * entry
    BY <1>1, <1>2, FloorOfCheck DEF CheckFloor, LockedAboveEntry
<1>4. 100 * m < floor'
  <2>1. floor' \in Int
      BY <1>1, <1>2, FloorOfCheck DEF CheckFloor
  <2> QED  BY <1>1, <1>3, <2>1
<1>5. ~InNoiseBand(m, peak')
  <2> SUFFICES ASSUME NoiseBand, (peak' - m) * 100 <= Pct(NoiseMult * atr) PROVE FALSE
      BY DEF InNoiseBand
  <2>1. NoiseMult * atr \in Int /\ ProtectPct \in Int /\ NoiseMult * atr <= ProtectPct
      BY DslAssumption DEF DslAssumption, TypeOK, NarrowBand
  <2>2. Pct(NoiseMult * atr) \in Int /\ Pct(ProtectPct) \in Int
        /\ Pct(NoiseMult * atr) <= Pct(ProtectPct)
      BY <2>1, PctType
  <2>3. (peak - entry) * 100 >= Pct(ProtectPct)
      BY DEF Peaked, Gain
  <2> QED  BY <1>1, <1>2, <2>2, <2>3
<1>6. breaches' = Min({breaches + 1, BreachesRequired})
    BY <1>4, <1>5 DEF CheckFloor, NextBreaches, Counted
<1>7. ~(breaches' >= BreachesRequired)
  <2>1. breaches' >= BreachesRequired => verdict' = "floor_breach"
      BY <1>4, <1>5 DEF CheckFloor
  <2> QED  BY <2>1 DEF ExitVerdicts
<1>8. breaches' \in {breaches + 1, BreachesRequired}
  <2>1. breaches + 1 \in Int /\ BreachesRequired \in Int
      BY <1>1
  <2>2. Min({breaches + 1, BreachesRequired}) \in {breaches + 1, BreachesRequired}
      BY <2>1, MinOfTwo, Zenon
  <2> QED  BY <1>6, <2>2
<1> QED  BY <1>1, <1>7, <1>8

(* Those checks are counted as breaches, but for what restarts have lost of    *)
(* the count: in each life at most one breach less than the policy wants.      *)
Waited ==
    /\ ~armed => losing = 0
    /\ NarrowBand => /\ losing <= (BreachesRequired - 1) * restarts + breaches
                     /\ losing <= (BreachesRequired - 1) * (restarts + 1)

LEMMA WaitedInvariant == Spec => []Waited
<1>0. \A n, r \in Nat : n * r \in Nat /\ n * (r + 1) = n * r + n
    OBVIOUS
<1>1. Init => Waited
    BY <1>0 DEF Init, Waited, BreachesRequired
<1>2. TypeOK /\ LockedAboveEntry /\ Grounded /\ Peaked /\ Waited /\ [Next]_vars => Waited'
  <2> SUFFICES ASSUME TypeOK, LockedAboveEntry, Grounded, Peaked, Waited, [Next]_vars
               PROVE  Waited'
      OBVIOUS
  <2> DEFINE n == BreachesRequired - 1
             spare == n * restarts
  <2>1. n \in Nat /\ restarts \in Nat /\ breaches \in Nat /\ losing \in Nat
      BY DEF TypeOK, BreachesRequired
  <2>2. spare \in Nat /\ n * (restarts + 1) = spare + n
      BY <1>0, <2>1
  <2>3. NarrowBand => losing <= spare + breaches /\ losing <= spare + n
      BY <2>2 DEF Waited
  <2>4. CASE losing' = 0
    <3>1. TypeOK'
        BY TypeStep
    <3>2. (BreachesRequired - 1)' \in Nat /\ restarts' \in Nat /\ breaches' \in Nat
        BY <3>1 DEF TypeOK, BreachesRequired
    <3>3. ((BreachesRequired - 1) * restarts)' \in Nat
          /\ ((BreachesRequired - 1) * (restarts + 1))' \in Nat
        BY <1>0, <3>2
    <3> QED  BY <2>4, <3>2, <3>3 DEF Waited
  <2>5. CASE Check /\ losing' # 0
    <3>1. PICK px \in Prices, contended \in BOOLEAN :
             /\ mark' = side * px
             /\ CheckEarly(side * px, contended) \/ CheckFloor(side * px)
        BY <2>5 DEF Check
    <3>2. /\ armed /\ mark' < entry /\ verdict' \notin ExitVerdicts /\ losing' = losing + 1
          /\ UNCHANGED <<policy, atr, restarts>>
        BY <2>5 DEF Check
    <3>3. ~CheckEarly(side * px, contended)
        BY <3>2 DEF CheckEarly, EarlyVerdict, ExitVerdicts
    <3>4. side * px \in Int
        BY DslAssumption DEF DslAssumption, TypeOK
    <3>5. NarrowBand' = NarrowBand /\ BreachesRequired' = BreachesRequired
        BY <3>2 DEF NarrowBand, NoiseBand, BreachesRequired
    <3>6. NarrowBand => breaches' = breaches + 1 /\ breaches' <= n
        BY <3>1, <3>2, <3>3, <3>4, LosingIsCounted
    <3>7. armed'
        BY <3>1, <3>2, <3>3 DEF CheckFloor
    <3> HIDE DEF n, spare
    <3>8. NarrowBand => losing' <= spare + breaches' /\ losing' <= spare + n
        BY <2>1, <2>2, <2>3, <3>2, <3>6
    <3>9. NarrowBand => /\ losing' <= (BreachesRequired - 1) * restarts + breaches'
                        /\ losing' <= (BreachesRequired - 1) * (restarts + 1)
        BY <2>2, <3>8 DEF n, spare
    <3> QED  BY <3>2, <3>5, <3>7, <3>9 DEF Waited
  <2>6. CASE Restart
    <3>1. /\ UNCHANGED <<policy, atr, armed, losing>>
          /\ restarts' = restarts + 1 /\ breaches' = saved.breaches
        BY <2>6 DEF Restart
    <3>2. NarrowBand' = NarrowBand /\ BreachesRequired' = BreachesRequired
        BY <3>1 DEF NarrowBand, NoiseBand, BreachesRequired
    <3>3. saved.breaches \in Nat
        BY DEF TypeOK
    <3>4. n * (restarts + 2) = spare + n + n
        BY <1>0, <2>1
    <3> HIDE DEF n, spare
    <3>5. NarrowBand => /\ losing <= n * (restarts + 1) + saved.breaches
                        /\ losing <= n * (restarts + 2)
        BY <2>1, <2>2, <2>3, <3>3, <3>4
    <3>6. restarts + 1 + 1 = restarts + 2
        BY <2>1
    <3> QED  BY <3>1, <3>2, <3>5, <3>6 DEF Waited, n
  <2>7. CASE UNCHANGED <<policy, atr, armed, losing, restarts, breaches>>
      BY <2>7 DEF Waited, NarrowBand, NoiseBand, BreachesRequired
  <2>8. CASE Register
    <3>1. losing' = 0
        BY <2>8 DEF Register, Grounded, Waited
    <3> QED  BY <2>4, <3>1
  <2> QED
      BY <2>4, <2>5, <2>6, <2>7, <2>8 DEF Next, Add, Leverage, Wait, vars, tracker
<1> QED
    BY <1>1, <1>2, TypeCorrect, Locked, GroundedInvariant, PeakedInvariant, PTL DEF Spec

(* check() holds a position that reached phase 2 at a loss for fewer checks in  *)
(* a row than the breaches its policy wants, once for each life of the process, *)
(* for every policy whose noise band is not wider than what phase 2 takes.      *)
THEOREM WinnerLetGo == Spec => []WinnerNotHeldForLong
<1>1. Waited => WinnerNotHeldForLong
    BY DEF Waited, WinnerNotHeldForLong
<1> QED  BY <1>1, WaitedInvariant, PTL

===========================================================================
