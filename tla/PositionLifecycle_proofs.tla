---------------------- MODULE PositionLifecycle_proofs ----------------------
(***************************************************************************)
(* Theorems about PositionLifecycle, for every set of coins, sides and     *)
(* clearinghouses, every number of slots and every bound.                  *)
(***************************************************************************)
EXTENDS PositionLifecycle, TLAPS

(* What the tick does to a registry or a snapshot is a registry or a snapshot. *)
LEMMA WithType ==
    ASSUME NEW reg \in Registry, NEW c, NEW s, NEW p \in Policy
    PROVE  With(reg, c, s, p) \in Registry
<1>1. \A f \in [Sides -> Policy] : [f EXCEPT ![s] = p] \in [Sides -> Policy]
    OBVIOUS
<1>2. c \in Coins => reg[c] \in [Sides -> Policy]
    BY DEF Registry
<1> QED  BY <1>1, <1>2 DEF With, Registry

LEMMA WithoutType ==
    ASSUME NEW reg \in Registry, NEW c
    PROVE  Without(reg, c) \in Registry
<1>1. [s \in Sides |-> "none"] \in [Sides -> Policy]
    BY DEF Policy
<1> QED  BY <1>1 DEF Without, Registry

LEMMA EmptyType == Empty \in Registry
    BY DEF Empty, Registry, Policy

LEMMA ViewType ==
    ASSUME TypeOK, NEW A
    PROVE  View(A) \in [Coins -> Holding]
    BY DEF View, TypeOK, Holding

LEMMA LoadStateType ==
    ASSUME TypeOK
    PROVE  LoadState \in Registry
<1>1. \A c \in Coins, s \in Sides : disk[c][s] \in Policy /\ mem[c][s] \in Policy
    BY DEF TypeOK, Registry
<1>2. [c \in Coins |-> [s \in Sides |->
         IF disk[c][s] # "none" THEN disk[c][s] ELSE mem[c][s]]] \in Registry
    BY <1>1 DEF Registry
<1> QED  BY <1>2 DEF LoadState, TypeOK

LEMMA ReconciledType ==
    ASSUME NEW reg \in Registry
    PROVE  Reconciled(reg) \in Registry
<1>1. \A c \in Coins, s \in Sides : reg[c][s] \in Policy
    BY DEF Registry
<1>2. \A c \in Coins, s \in Sides :
         (CASE snap[c] = s /\ reg[c][s] = "none"   -> "config"
            [] snap[c] # s /\ DexOf[c] \in queried -> "none"
            [] OTHER                               -> reg[c][s]) \in Policy
    BY <1>1 DEF Policy
<1> QED  BY <1>2 DEF Reconciled, Registry

(* A fill leaves the exchange in a state of its type. *)
ExchangeOK ==
    /\ pos \in [Coins -> Holding]
    /\ fills \in [Coins -> Nat] /\ opens \in [Coins -> Nat] /\ closes \in [Coins -> Nat]
    /\ due \in [Coins -> BOOLEAN]

LEMMA CountUp ==
    ASSUME NEW f \in [Coins -> Nat], NEW c
    PROVE  [f EXCEPT ![c] = @ + 1] \in [Coins -> Nat]
<1>1. c \in Coins => f[c] + 1 \in Nat
    OBVIOUS
<1> QED  BY <1>1

LEMMA ClosesType ==
    ASSUME ExchangeOK, NEW c, Closes(c)
    PROVE  ExchangeOK'
<1>1. pos' \in [Coins -> Holding]
    BY DEF ExchangeOK, Closes, Holding
<1>2. fills' \in [Coins -> Nat] /\ opens' \in [Coins -> Nat]
    BY DEF ExchangeOK, Closes
<1>3. closes' \in [Coins -> Nat]
    BY CountUp DEF ExchangeOK, Closes
<1>4. due' \in [Coins -> BOOLEAN]
    BY DEF ExchangeOK, Closes
<1> QED  BY <1>1, <1>2, <1>3, <1>4 DEF ExchangeOK

LEMMA OpensType ==
    ASSUME ExchangeOK, NEW c, NEW s \in Holding, NEW n \in Nat, Opens(c, s, n)
    PROVE  ExchangeOK'
<1>1. pos' \in [Coins -> Holding]
    BY DEF ExchangeOK, Opens
<1>2. fills' \in [Coins -> Nat]
    BY DEF ExchangeOK, Opens
<1>3. opens' \in [Coins -> Nat]
    BY CountUp DEF ExchangeOK, Opens
<1> QED  BY <1>1, <1>2, <1>3 DEF ExchangeOK, Opens

LEMMA FillsEntryType ==
    ASSUME ExchangeOK, NEW c, NEW s \in Holding, FillsEntry(c, s)
    PROVE  ExchangeOK'
<1>1. CASE pos[c] = Flat /\ Opens(c, s, 1)
    BY <1>1, OpensType
<1>2. CASE /\ pos[c] = s
           /\ fills' = [fills EXCEPT ![c] = @ + 1]
           /\ UNCHANGED <<pos, opens, closes, due>>
    BY <1>2, CountUp DEF ExchangeOK
<1>3. CASE /\ pos[c] \notin {Flat, s}
           /\ pos' \in {[pos EXCEPT ![c] = p] : p \in Holding}
           /\ fills' = [fills EXCEPT ![c] = IF pos'[c] = s THEN 1 ELSE 0]
           /\ closes' = [closes EXCEPT ![c] = @ + 1]
           /\ UNCHANGED <<opens, due>>
  <2>1. pos' \in [Coins -> Holding]
      BY <1>3 DEF ExchangeOK
  <2>2. closes' \in [Coins -> Nat]
      BY <1>3, CountUp DEF ExchangeOK
  <2>3. fills' \in [Coins -> Nat]
      BY <1>3 DEF ExchangeOK
  <2> QED  BY <1>3, <2>1, <2>2, <2>3 DEF ExchangeOK
<1> QED  BY <1>1, <1>2, <1>3 DEF FillsEntry
(* The close-check hands on a coin that its read, and the registry, show flat. *)
LEMMA VerdictIs ==
    ASSUME TypeOK, Verdict
    PROVE  /\ pc = "verdict" /\ pc' \in {"exits2", "enter"}
           /\ UNCHANGED <<exchange, view, todo, ret, stale, trackers, crashes, rows, mcp, due>>
           /\ \/ pc' = "exits2" /\ UNCHANGED <<cur, side>>
              \/ /\ pc' = "enter" /\ cur' \in Coins /\ side' \in Sides
                 /\ pos[cur'] = Flat /\ cur' \notin Tracked(mem)
<1>1. ASSUME NEW c \in heldMem \ Tracked(mem), NEW A, DexOf[c] \in A, View(A)[c] = Flat
      PROVE  c \in Coins /\ pos[c] = Flat
    BY <1>1 DEF View, TypeOK
<1> QED  BY <1>1 DEF Verdict
---------------------------------------------------------------------------
(* Every variable of the tick, the exchange and the files keeps its type. *)
THEOREM TypeCorrect == Spec => []TypeOK
<1> USE DEF PCs
<1>1. Init => TypeOK
  <2> SUFFICES ASSUME Init PROVE TypeOK
      OBVIOUS
  <2>1. mem \in Registry /\ disk \in Registry /\ mcp \in Registry
      BY EmptyType DEF Init
  <2>2. loaded \in BOOLEAN /\ due \in [Coins -> BOOLEAN]
      BY DEF Init
  <2>3. pos \in [Coins -> Holding] /\ snap \in [Coins -> Holding] /\ side \in Holding
      BY DEF Init, AllFlat, Holding
  <2>4. /\ fills \in [Coins -> Nat] /\ opens \in [Coins -> Nat]
        /\ closes \in [Coins -> Nat] /\ rows \in [Coins -> Nat]
      BY DEF Init
  <2> QED  BY <2>1, <2>2, <2>3, <2>4 DEF Init, TypeOK
<1>2. TypeOK /\ [Next]_vars => TypeOK'
  <2> SUFFICES ASSUME TypeOK, [Next]_vars PROVE TypeOK'
      OBVIOUS
  <2> USE DEF exchange, work, view, trackers
  <2>0. ExchangeOK /\ (ExchangeOK' /\ UNCHANGED <<pc, view, work, trackers, crashes, rows, mcp>> => TypeOK')
      BY DEF ExchangeOK, TypeOK
  <2>1. CASE Heartbeat
    <3>1. PICK A \in Answers("heartbeat_gap"), accepted \in BOOLEAN :
             /\ snap' = IF accepted THEN View(A) ELSE AllFlat
             /\ queried' = IF accepted THEN Queried(A) ELSE {}
             /\ heldMem' = IF accepted THEN {c \in Coins : View(A)[c] # Flat} ELSE heldMem
        BY <2>1 DEF Heartbeat
    <3>2. snap' \in [Coins -> Holding]
        BY <3>1, ViewType DEF AllFlat, Holding
    <3>3. queried' \subseteq Dexes /\ heldMem' \subseteq Coins
        BY <3>1, LifecycleAssumption DEF Answers, Queried, LifecycleAssumption, TypeOK
    <3> QED  BY <2>1, <3>2, <3>3 DEF Heartbeat, TypeOK
  <2>2. CASE KillSwitch
      BY <2>2 DEF KillSwitch, TypeOK, SnapCoins
  <2>3. CASE Rehydrate
    <3>1. mem' \in Registry /\ disk' \in Registry
        BY <2>3, LoadStateType, ReconciledType DEF Rehydrate, TypeOK
    <3> QED  BY <2>3, <3>1 DEF Rehydrate, TypeOK, Keys
  <2>4. CASE RecordExternal
      BY <2>4 DEF RecordExternal, TypeOK, Keys
  <2>5. CASE MonitorExits
      BY <2>5 DEF MonitorExits, TypeOK, Tracked
  <2>6. CASE Scan
      BY <2>6 DEF Scan, TypeOK
  <2>7. CASE Books
      BY <2>7 DEF Books, TypeOK, Holding
  <2>8. CASE Enter
    <3>1. ExchangeOK'
        BY <2>0, <2>8, FillsEntryType DEF Enter, ExchangeOK, TypeOK
    <3> QED  BY <2>8, <3>1 DEF Enter, AfterEntry, TypeOK, ExchangeOK
  <2>9. CASE Register
    <3>1. mem' \in Registry
        BY <2>9, WithType DEF Register, TypeOK, Policy
    <3>2. due' \in [Coins -> BOOLEAN]
        BY <2>9 DEF Register, TypeOK
    <3> QED  BY <2>9, <3>1, <3>2 DEF Register, AfterEntry, TypeOK
  <2>10. CASE Review
      BY <2>10 DEF Review, TypeOK
  <2>11. CASE CloseRead
    <3>1. \A A : \A c \in Coins : View(A)[c] \in Holding
        BY ViewType
    <3>2. \A c : Without(mem, c) \in Registry
        BY WithoutType DEF TypeOK
    <3> QED  BY <2>11, <3>1, <3>2 DEF CloseRead, TypeOK
  <2>12. CASE CloseOrder
    <3>1. ExchangeOK'
        BY <2>0, <2>12, ClosesType DEF CloseOrder, ExchangeOK
    <3> QED  BY <2>12, <3>1 DEF CloseOrder, TypeOK, ExchangeOK
  <2>13. CASE CloseSettle
    <3>1. mem' \in Registry
        BY <2>13, WithType DEF CloseSettle, TypeOK, Policy
    <3> QED  BY <2>13, <3>1 DEF CloseSettle, TypeOK
  <2>14. CASE CloseRecord
      BY <2>14 DEF CloseRecord, TypeOK
  <2>15. CASE StopFill
      BY <2>0, <2>15, ClosesType DEF StopFill
  <2>16. CASE ManualOpen
      BY <2>0, <2>16, OpensType DEF ManualOpen, Holding
  <2>17. CASE McpExecute
    <3>1. ExchangeOK'
        BY <2>0, <2>17, FillsEntryType DEF McpExecute, Holding
    <3>2. mcp' \in Registry /\ disk' \in Registry
        BY <2>17, WithType DEF McpExecute, Policy, TypeOK
    <3> QED  BY <2>17, <3>1, <3>2 DEF McpExecute, TypeOK, ExchangeOK
  <2>18. CASE McpClose
    <3>1. ExchangeOK'
      <4>1. \A c : closes' = [closes EXCEPT ![c] = @ + 1] => closes' \in [Coins -> Nat]
          BY <2>0, CountUp DEF ExchangeOK
      <4>2. ASSUME NEW c, closes' = [closes EXCEPT ![c] = @ + 1], UNCHANGED <<pos, fills, opens, due>>
            PROVE  ExchangeOK'
          BY <2>0, <4>1, <4>2 DEF ExchangeOK
      <4>3. UNCHANGED <<exchange, due>> => ExchangeOK'
          BY <2>0 DEF ExchangeOK
      <4> QED  BY <2>0, <2>18, <4>2, <4>3, ClosesType DEF McpClose
    <3>2. mcp' \in Registry
        BY <2>18, WithType, WithoutType DEF McpClose, Policy, TypeOK
    <3> QED  BY <2>18, <3>1, <3>2 DEF McpClose, TypeOK, ExchangeOK
  <2>19. CASE Crash
    <3>1. mem' \in Registry /\ snap' \in [Coins -> Holding]
        BY <2>19, EmptyType DEF Crash, AllFlat, Holding
    <3>2. crashes' \in Nat /\ side' \in Holding
        BY <2>19 DEF Crash, TypeOK, Holding
    <3>3. loaded' \in BOOLEAN
        BY <2>19, Zenon DEF Crash
    <3> QED  BY <2>19, <3>1, <3>2, <3>3 DEF Crash, TypeOK
  <2>20. CASE UNCHANGED vars
      BY <2>20 DEF vars, TypeOK
  <2>21. CASE Verdict
      BY <2>21, VerdictIs DEF TypeOK, Holding
  <2> QED
      BY <2>1, <2>2, <2>3, <2>4, <2>5, <2>6, <2>7, <2>8, <2>9, <2>10, <2>11, <2>12,
         <2>13, <2>14, <2>15, <2>16, <2>17, <2>18, <2>19, <2>20, <2>21
      DEF Next, LoopStep, Environment
<1> QED  BY <1>1, <1>2, PTL DEF Spec

---------------------------------------------------------------------------
(* Why the bot cannot stack: a flat coin carries no entry fill, and a coin is *)
(* only in hand for an entry while it carries none.  The executor's own read  *)
(* establishes that, and whatever happens to the account before the order     *)
(* lands can only clear fills or leave them at zero.                          *)
Unstacked ==
    /\ NeverStacksOwnPosition
    /\ \A c \in Coins : pos[c] = Flat => fills[c] = 0
    /\ pc = "enter" => cur \in Coins /\ side \in Sides /\ fills[cur] = 0
    /\ ret # "enter"

LEMMA ClosesUnstacked ==
    ASSUME TypeOK, Unstacked, NEW c, Closes(c)
    PROVE  \A x \in Coins : /\ fills'[x] <= 1
                            /\ pos'[x] = Flat => fills'[x] = 0
                            /\ fills[x] = 0 => fills'[x] = 0
    BY DEF Closes, TypeOK, Unstacked, NeverStacksOwnPosition

LEMMA UnstackedAlways ==
    ASSUME "mcp" \notin Events
    PROVE  Spec => [](TypeOK /\ Unstacked)
<1>1. Init => Unstacked
    BY DEF Init, Unstacked, NeverStacksOwnPosition
<1>2. TypeOK /\ Unstacked /\ [Next]_vars => Unstacked'
  <2> SUFFICES ASSUME TypeOK, Unstacked, [Next]_vars PROVE Unstacked'
      OBVIOUS
  <2> USE DEF exchange, work
  <2>1. ASSUME UNCHANGED <<pos, fills>>, pc' # "enter", ret' # "enter" PROVE Unstacked'
      BY <2>1 DEF Unstacked, NeverStacksOwnPosition
  <2>2. CASE Heartbeat
      BY <2>1, <2>2 DEF Heartbeat, Unstacked
  <2>3. CASE KillSwitch
      BY <2>1, <2>3 DEF KillSwitch, Unstacked
  <2>4. CASE Rehydrate
      BY <2>1, <2>4 DEF Rehydrate, Unstacked
  <2>5. CASE RecordExternal
      BY <2>1, <2>5 DEF RecordExternal, Unstacked
  <2>6. CASE MonitorExits
      BY <2>1, <2>6 DEF MonitorExits, Unstacked
  <2>7. CASE Scan
      BY <2>1, <2>7 DEF Scan, Unstacked
  <2>8. CASE Books
    <3>1. UNCHANGED <<pos, fills, ret>>
        BY <2>8 DEF Books
    <3>2. pc' = "enter" => cur' \in Coins /\ side' \in Sides /\ pos[cur'] = Flat
      <4> SUFFICES ASSUME pc' = "enter"
                   PROVE  cur' \in Coins /\ side' \in Sides /\ pos[cur'] = Flat
          OBVIOUS
      <4>1. PICK c \in todo, A \in Answers("close_gap") :
               MayEnter(c, A) /\ side' \in Sides /\ cur' = c
          BY <2>8 DEF Books
      <4>2. c \in Coins
          BY DEF TypeOK
      <4> QED  BY <4>1, <4>2 DEF MayEnter, View
    <3> QED  BY <3>1, <3>2 DEF Unstacked, NeverStacksOwnPosition
  <2>9. CASE Enter
    <3>1. pc' # "enter" /\ ret' # "enter" /\ cur \in Coins /\ side \in Sides /\ fills[cur] = 0
        BY <2>9 DEF Enter, AfterEntry, Unstacked
    <3>2. CASE UNCHANGED <<pos, fills>>
        BY <2>1, <3>1, <3>2
    <3>3. CASE FillsEntry(cur, side)
      <4>1. side # Flat
          BY <3>1, LifecycleAssumption DEF LifecycleAssumption
      <4>2. \A x \in Coins \ {cur} : pos'[x] = pos[x] /\ fills'[x] = fills[x]
          BY <3>1, <3>3 DEF FillsEntry, Opens, TypeOK
      <4>3. fills'[cur] <= 1 /\ (pos'[cur] = Flat => fills'[cur] = 0)
        <5>1. CASE pos[cur] = Flat /\ Opens(cur, side, 1)
            BY <3>1, <4>1, <5>1 DEF Opens, TypeOK
        <5>2. CASE pos[cur] = side /\ fills' = [fills EXCEPT ![cur] = @ + 1] /\ pos' = pos
            BY <3>1, <4>1, <5>2 DEF TypeOK
        <5>3. CASE fills' = [fills EXCEPT ![cur] = IF pos'[cur] = side THEN 1 ELSE 0]
            BY <3>1, <4>1, <5>3 DEF TypeOK
        <5> QED  BY <3>3, <5>1, <5>2, <5>3 DEF FillsEntry
      <4> QED  BY <3>1, <4>2, <4>3 DEF Unstacked, NeverStacksOwnPosition
    <3> QED  BY <2>9, <3>2, <3>3 DEF Enter
  <2>10. CASE Register
      BY <2>1, <2>10 DEF Register, AfterEntry, Unstacked
  <2>11. CASE Review
      BY <2>1, <2>11 DEF Review, Unstacked
  <2>12. CASE CloseRead
    <3>1. pc' # "enter" /\ ret' # "enter"
        BY <2>12 DEF CloseRead, Unstacked
    <3> QED  BY <2>1, <2>12, <3>1 DEF CloseRead
  <2>13. CASE CloseOrder
    <3>1. pc' # "enter" /\ ret' # "enter"
        BY <2>13 DEF CloseOrder, Unstacked
    <3>2. CASE UNCHANGED <<pos, fills>>
        BY <2>1, <3>1, <3>2
    <3>3. CASE pos[cur] = side /\ Closes(cur)
        BY <3>1, <3>3, ClosesUnstacked DEF Unstacked, NeverStacksOwnPosition
    <3> QED  BY <2>13, <3>2, <3>3 DEF CloseOrder
  <2>14. CASE CloseSettle
      BY <2>1, <2>14 DEF CloseSettle, Unstacked
  <2>15. CASE CloseRecord
      BY <2>1, <2>15 DEF CloseRecord, Unstacked
  <2>16. CASE StopFill
      BY <2>16, ClosesUnstacked DEF StopFill, Unstacked, NeverStacksOwnPosition
  <2>17. CASE ManualOpen
      BY <2>17 DEF ManualOpen, Opens, Unstacked, NeverStacksOwnPosition, TypeOK
  <2>18. ~McpExecute /\ ~McpClose
      BY DEF McpExecute, McpClose
  <2>19. CASE Crash
      BY <2>1, <2>19 DEF Crash, Unstacked
  <2>20. CASE UNCHANGED vars
      BY <2>20 DEF vars, Unstacked, NeverStacksOwnPosition
  <2>21. CASE Verdict
      BY <2>21, VerdictIs DEF Unstacked, NeverStacksOwnPosition
  <2> QED
      BY <2>2, <2>3, <2>4, <2>5, <2>6, <2>7, <2>8, <2>9, <2>10, <2>11, <2>12,
         <2>13, <2>14, <2>15, <2>16, <2>17, <2>18, <2>19, <2>20, <2>21
      DEF Next, LoopStep, Environment
<1> QED  BY <1>1, <1>2, TypeCorrect, PTL DEF Spec

(* With no second process trading the account, no interleaving of stops,      *)
(* manual trades, partial reads, lost answers and crashes makes the executor  *)
(* add to a position its own entry opened.                                    *)
THEOREM NeverStacks ==
    ASSUME "mcp" \notin Events
    PROVE  Spec => []NeverStacksOwnPosition
<1>1. Unstacked => NeverStacksOwnPosition
    BY DEF Unstacked
<1> QED  BY <1>1, UnstackedAlways, PTL

---------------------------------------------------------------------------
(* The abstract account.  The refinement mapping shows the held coins and the *)
(* bot's fills; Unstacked says that an entry finds none.                      *)

LEMMA BookSame ==
    ASSUME UNCHANGED <<pos, fills>>
    PROVE  UNCHANGED Book!vars
    BY DEF Book!vars

LEMMA BookInit == Init => Book!Init
    BY LifecycleAssumption DEF Init, AllFlat, Book!Init, Book!None

\* A coin whose fills are set to n, in terms of the mapping.
LEMMA BookEntries ==
    ASSUME TypeOK, NEW c \in Coins, NEW n, fills' = [fills EXCEPT ![c] = n]
    PROVE  [x \in Coins |-> [t \in {"bot"} |-> fills[x]]]' =
              [[x \in Coins |-> [t \in {"bot"} |-> fills[x]]]
                  EXCEPT ![c] = [t \in {"bot"} |-> n]]
    BY DEF TypeOK

LEMMA BookEndsOne ==
    ASSUME TypeOK, NEW c \in Coins, pos[c] # Flat,
           pos' = [pos EXCEPT ![c] = Flat], fills' = [fills EXCEPT ![c] = 0]
    PROVE  [Book!Next]_(Book!vars)
<1>1. {x \in Coins : pos[x] # Flat}' = {x \in Coins : pos[x] # Flat} \ {c}
    BY DEF TypeOK
<1>2. Book!End(c)
    BY <1>1, BookEntries DEF Book!End, Book!None
<1> QED  BY <1>2 DEF Book!Next

LEMMA BookEnds ==
    ASSUME TypeOK, Unstacked, NEW c, Closes(c)
    PROVE  [Book!Next]_(Book!vars)
<1>1. CASE c \in Coins /\ pos[c] # Flat
    BY <1>1, BookEndsOne DEF Closes
<1>2. CASE c \notin Coins \/ pos[c] = Flat
  <2>1. UNCHANGED <<pos, fills>>
      BY <1>2 DEF Closes, TypeOK, Unstacked
  <2> QED  BY <2>1, BookSame
<1> QED  BY <1>1, <1>2

LEMMA BookEnters ==
    ASSUME TypeOK, NEW c \in Coins, NEW s \in Sides, fills[c] = 0,
           pos' = [pos EXCEPT ![c] = s], fills' = [fills EXCEPT ![c] = 1]
    PROVE  [Book!Next]_(Book!vars)
<1>1. s # Flat
    BY LifecycleAssumption
<1>2. {x \in Coins : pos[x] # Flat}' = {x \in Coins : pos[x] # Flat} \cup {c}
    BY <1>1 DEF TypeOK
<1>3. [[t \in {"bot"} |-> 0] EXCEPT !["bot"] = 1] = [t \in {"bot"} |-> 1]
    OBVIOUS
<1>4. Book!Bare(c)
    BY DEF Book!Bare, Book!None
<1>5. [x \in Coins |-> [t \in {"bot"} |-> fills[x]]]' =
         [[x \in Coins |-> [t \in {"bot"} |-> fills[x]]]
             EXCEPT ![c] = [t \in {"bot"} |-> 1]]
    BY BookEntries
<1>6. [Book!None EXCEPT !["bot"] = 1] = [t \in {"bot"} |-> 1]
    BY <1>3 DEF Book!None
<1>7. Book!Enter(c, "bot")
    BY <1>2, <1>4, <1>5, <1>6, Zenon DEF Book!Enter
<1> QED  BY <1>7 DEF Book!Next

LEMMA BookOpens ==
    ASSUME TypeOK, Unstacked, NEW c \in Coins, NEW s \in Sides, pos[c] = Flat, Opens(c, s, 0)
    PROVE  [Book!Next]_(Book!vars)
<1>1. s # Flat
    BY LifecycleAssumption
<1>2. fills' = fills /\ pos' = [pos EXCEPT ![c] = s]
    BY DEF Opens, TypeOK, Unstacked
<1>3. {x \in Coins : pos[x] # Flat}' = {x \in Coins : pos[x] # Flat} \cup {c}
    BY <1>1, <1>2 DEF TypeOK
<1>4. Book!OpenByHand(c)
    BY <1>2, <1>3 DEF Book!OpenByHand
<1> QED  BY <1>4 DEF Book!Next

LEMMA BookFills ==
    ASSUME TypeOK, Unstacked, pc = "enter", FillsEntry(cur, side)
    PROVE  [Book!Next]_(Book!vars)
<1>1. cur \in Coins /\ side \in Sides /\ fills[cur] = 0 /\ side # Flat
    BY LifecycleAssumption DEF Unstacked
<1>2. CASE pos[cur] = Flat /\ Opens(cur, side, 1)
    BY <1>1, <1>2, BookEnters DEF Opens
<1>3. CASE pos[cur] = side /\ fills' = [fills EXCEPT ![cur] = @ + 1] /\ pos' = pos
  <2>1. pos' = [pos EXCEPT ![cur] = side] /\ fills' = [fills EXCEPT ![cur] = 1]
      BY <1>1, <1>3 DEF TypeOK
  <2> QED  BY <1>1, <2>1, BookEnters
<1>4. CASE /\ pos[cur] \notin {Flat, side}
           /\ pos' \in {[pos EXCEPT ![cur] = p] : p \in Holding}
           /\ fills' = [fills EXCEPT ![cur] = IF pos'[cur] = side THEN 1 ELSE 0]
  <2>1. PICK p \in Holding : pos' = [pos EXCEPT ![cur] = p]
      BY <1>4
  <2>2. pos'[cur] = p
      BY <1>1, <2>1 DEF TypeOK
  <2>3. CASE p = side
    <3>1. pos' = [pos EXCEPT ![cur] = side] /\ fills' = [fills EXCEPT ![cur] = 1]
        BY <1>4, <2>1, <2>2, <2>3
    <3> QED  BY <1>1, <3>1, BookEnters
  <2>4. CASE p = Flat
    <3>1. fills' = [fills EXCEPT ![cur] = 0]
        BY <1>1, <1>4, <2>2, <2>4
    <3>2. pos' = [pos EXCEPT ![cur] = Flat] /\ pos[cur] # Flat
        BY <1>4, <2>1, <2>4
    <3> QED  BY <1>1, <3>1, <3>2, BookEndsOne
  <2>5. CASE p # side /\ p # Flat
    <3>1. fills' = fills
      <4>1. fills' = [fills EXCEPT ![cur] = 0]
          BY <1>4, <2>2, <2>5
      <4> QED  BY <1>1, <4>1 DEF TypeOK
    <3>2. {x \in Coins : pos[x] # Flat}' = {x \in Coins : pos[x] # Flat}
        BY <1>1, <1>4, <2>1, <2>5 DEF TypeOK
    <3> QED  BY <3>1, <3>2 DEF Book!vars
  <2> QED  BY <2>3, <2>4, <2>5
<1> QED  BY <1>2, <1>3, <1>4 DEF FillsEntry

LEMMA BookStep ==
    ASSUME "mcp" \notin Events, TypeOK, Unstacked, [Next]_vars
    PROVE  [Book!Next]_(Book!vars)
<1>1. CASE UNCHANGED <<pos, fills>>
    BY <1>1, BookSame
<1>2. CASE Enter
    BY <1>1, <1>2, BookFills DEF Enter, exchange
<1>3. CASE CloseOrder
    BY <1>1, <1>3, BookEnds DEF CloseOrder, exchange
<1>4. CASE StopFill
    BY <1>4, BookEnds DEF StopFill
<1>5. CASE ManualOpen
    BY <1>5, BookOpens DEF ManualOpen
<1>6. ~McpExecute /\ ~McpClose
    BY DEF McpExecute, McpClose
<1>7. CASE Heartbeat \/ KillSwitch \/ Rehydrate \/ RecordExternal \/ MonitorExits
    BY <1>1, <1>7 DEF Heartbeat, KillSwitch, Rehydrate, RecordExternal, MonitorExits, exchange
<1>8. CASE Scan \/ Books \/ Register \/ Review \/ Verdict \/ CloseRead
    BY <1>1, <1>8 DEF Scan, Books, Register, Review, Verdict, CloseRead, exchange
<1>9. CASE CloseSettle \/ CloseRecord \/ Crash
    BY <1>1, <1>9 DEF CloseSettle, CloseRecord, Crash, exchange
<1>10. CASE UNCHANGED vars
    BY <1>1, <1>10 DEF vars
<1> QED
    BY <1>2, <1>3, <1>4, <1>5, <1>6, <1>7, <1>8, <1>9, <1>10 DEF Next, LoopStep, Environment

(* The tick with everything that can come between its calls implements the     *)
(* abstract account, as long as no second process trades it.                   *)
THEOREM KeepsBook == ASSUME "mcp" \notin Events PROVE Spec => ImplementsBook
<1>1. TypeOK /\ Unstacked /\ [Next]_vars => [Book!Next]_(Book!vars)
    BY BookStep
<1> QED  BY <1>1, BookInit, UnstackedAlways, PTL DEF Spec, ImplementsBook, Book!Spec

---------------------------------------------------------------------------
(* What the tick knows of its own registry.  While no second process writes   *)
(* .dsl-state.json the file is the registry: every change of the registry is  *)
(* saved in the same step, and a process that has not loaded the file has no  *)
(* trackers of its own.                                                       *)
Held(c, s) == disk[c][s] # "none"

\* The part of a tick that still works towards reconciling with its snapshot.
Reconciling ==
    \/ pc \in {"kill", "rehydrate"}
    \/ ret = "rehydrate" /\ pc \in {"close", "order", "settle", "record"}

Mirrored ==
    /\ loaded => mem = disk
    /\ ~loaded => mem = Empty /\ (pc = "heartbeat" \/ Reconciling)

\* The coin in hand: an entry is of a coin without tracker, a close has a side.
InHand ==
    /\ pc \in {"enter", "register"} =>
          cur \in Coins /\ side \in Sides /\ \A s \in Sides : ~Held(cur, s)
    /\ pc \in {"order", "settle", "record"} => cur \in Coins /\ side \in Sides
    /\ ret \in {"heartbeat", "rehydrate", "scan", "verdict"}

\* What the snapshot shows was queried; dropped trackers wait for their row only
\* between reconciling and the first exits.
SnapKnown ==
    /\ \A c \in Coins : snap[c] # Flat => DexOf[c] \in queried
    /\ pc # "external" => stale = {}

\* A coin has one tracker at most, and at most one of its trackers was dropped.
OneEach ==
    /\ \A c \in Coins : \A s, t \in Sides : Held(c, s) /\ Held(c, t) => s = t
    /\ \A k, l \in stale : k[1] = l[1] => k = l

Steady == Mirrored /\ InHand /\ SnapKnown /\ OneEach

(* What the two writers of a registry do to each of its entries. *)
LEMMA WithIs ==
    ASSUME NEW reg \in Registry, NEW c \in Coins, NEW s \in Sides, NEW p
    PROVE  \A x \in Coins, t \in Sides :
              With(reg, c, s, p)[x][t] = IF x = c /\ t = s THEN p ELSE reg[x][t]
    BY DEF With, Registry

LEMMA WithoutIs ==
    ASSUME NEW reg \in Registry, NEW c \in Coins
    PROVE  \A x \in Coins, t \in Sides :
              Without(reg, c)[x][t] = IF x = c THEN "none" ELSE reg[x][t]
    BY DEF Without, Registry

(* Two registries with the same entries are the same. *)
LEMMA SameEntries ==
    ASSUME NEW reg \in Registry, NEW other \in Registry,
           \A c \in Coins, s \in Sides : reg[c][s] = other[c][s]
    PROVE  reg = other
<1>1. ASSUME NEW c \in Coins PROVE reg[c] = other[c]
  <2>1. reg[c] \in [Sides -> Policy] /\ other[c] \in [Sides -> Policy]
      BY DEF Registry
  <2>2. \A s \in Sides : reg[c][s] = other[c][s]
      OBVIOUS
  <2> QED  BY <2>1, <2>2
<1> QED  BY <1>1 DEF Registry

(* Removing from an empty registry leaves it empty. *)
LEMMA EmptyStays ==
    ASSUME NEW c \in Coins
    PROVE  /\ \A s \in Sides : With(Empty, c, s, "none") = Empty
           /\ Without(Empty, c) = Empty
<1>1. \A x \in Coins, t \in Sides : Empty[x][t] = "none"
    BY DEF Empty
<1>2. Empty \in Registry
    BY EmptyType
<1>3. ASSUME NEW s \in Sides PROVE With(Empty, c, s, "none") = Empty
  <2>1. With(Empty, c, s, "none") \in Registry
      BY <1>2, WithType DEF Policy
  <2>2. \A x \in Coins, t \in Sides : With(Empty, c, s, "none")[x][t] = Empty[x][t]
      BY <1>1, <1>2, WithIs
  <2> QED  BY <1>2, <2>1, <2>2, SameEntries
<1>4. Without(Empty, c) = Empty
  <2>1. Without(Empty, c) \in Registry
      BY <1>2, WithoutType
  <2>2. \A x \in Coins, t \in Sides : Without(Empty, c)[x][t] = Empty[x][t]
      BY <1>1, <1>2, WithoutIs
  <2> QED  BY <1>2, <2>1, <2>2, SameEntries
<1> QED  BY <1>3, <1>4

(* What load_state leaves in memory is what the file says. *)
LEMMA LoadStateIs ==
    ASSUME TypeOK, Mirrored
    PROVE  LoadState = disk
<1>1. CASE loaded
    BY <1>1 DEF LoadState, Mirrored
<1>2. CASE ~loaded
  <2>1. mem = Empty /\ disk \in Registry
      BY <1>2 DEF Mirrored, TypeOK
  <2>2. LoadState \in Registry
      BY LoadStateType
  <2>3. \A c \in Coins, s \in Sides : LoadState[c][s] = disk[c][s]
      BY <1>2, <2>1 DEF LoadState, Empty
  <2> QED  BY <2>1, <2>2, <2>3, SameEntries
<1> QED  BY <1>1, <1>2

(* After rehydrate_from_exchange a coin is tracked on the side the snapshot *)
(* shows, or as before where the snapshot says nothing.                     *)
LEMMA RehydrateIs ==
    ASSUME TypeOK, Mirrored, Rehydrate
    PROVE  /\ mem' = disk' /\ loaded'
           /\ \A c \in Coins, s \in Sides :
                 /\ Held(c, s)' <=> (snap[c] = s \/ (Held(c, s) /\ DexOf[c] \notin queried))
                 /\ Held(c, s) /\ (snap[c] = s \/ DexOf[c] \notin queried)
                       => disk'[c][s] = disk[c][s]
           /\ stale' = {k \in Keys : Held(k[1], k[2]) /\ ~Held(k[1], k[2])'}
<1>1. mem' = Reconciled(disk) /\ loaded' = TRUE
    BY LoadStateIs DEF Rehydrate
<1>2. disk' = mem'
    BY LoadStateIs DEF Rehydrate
<1>3. \A c \in Coins, s \in Sides :
         disk'[c][s] = CASE snap[c] = s /\ disk[c][s] = "none"  -> "config"
                         [] snap[c] # s /\ DexOf[c] \in queried -> "none"
                         [] OTHER                               -> disk[c][s]
    BY <1>1, <1>2 DEF Reconciled
<1>4. \A c \in Coins, s \in Sides :
         /\ Held(c, s)' <=> (snap[c] = s \/ (Held(c, s) /\ DexOf[c] \notin queried))
         /\ Held(c, s) /\ (snap[c] = s \/ DexOf[c] \notin queried)
               => disk'[c][s] = disk[c][s]
    BY <1>3 DEF Held
<1>5. stale' = {k \in Keys : Held(k[1], k[2]) /\ ~Held(k[1], k[2])'}
    BY <1>2, LoadStateIs DEF Rehydrate, Held
<1> QED  BY <1>1, <1>2, <1>4, <1>5

(* A close that finds the coin flat, or that filled, takes trackers of that coin *)
(* away and nothing else, in memory and on disk alike.                           *)
Untracks(c, S) ==
    /\ loaded' = loaded
    /\ loaded => mem' = disk'
    /\ ~loaded => mem' = Empty /\ disk' = disk
    /\ \A x \in Coins, s \in Sides :
          disk'[x][s] = IF loaded /\ x = c /\ s \in S THEN "none" ELSE disk[x][s]

LEMMA WithoutUntracks ==
    ASSUME TypeOK, Mirrored, NEW c \in Coins, mem' = Without(mem, c),
           disk' = IF mem' # mem THEN mem' ELSE disk, loaded' = loaded
    PROVE  Untracks(c, Sides)
<1>1. CASE loaded
  <2>1. mem = disk /\ disk' = mem' /\ disk' = Without(disk, c)
      BY <1>1 DEF Mirrored
  <2>2. disk \in Registry
      BY DEF TypeOK
  <2>3. \A x \in Coins, s \in Sides :
           disk'[x][s] = IF x = c /\ s \in Sides THEN "none" ELSE disk[x][s]
      BY <2>1, <2>2, WithoutIs
  <2> QED  BY <1>1, <2>1, <2>3 DEF Untracks
<1>2. CASE ~loaded
  <2>1. mem = Empty /\ mem' = Empty
      BY <1>2, EmptyStays DEF Mirrored
  <2> QED  BY <1>2, <2>1 DEF Untracks
<1> QED  BY <1>1, <1>2

LEMMA WithUntracks ==
    ASSUME TypeOK, Mirrored, NEW c \in Coins, NEW s \in Sides,
           mem' = With(mem, c, s, "none"),
           disk' = IF mem' # mem THEN mem' ELSE disk, loaded' = loaded
    PROVE  Untracks(c, {s})
<1>1. CASE loaded
  <2>1. mem = disk /\ disk' = mem' /\ disk' = With(disk, c, s, "none")
      BY <1>1 DEF Mirrored
  <2>2. disk \in Registry
      BY DEF TypeOK
  <2>3. \A x \in Coins, t \in Sides :
           disk'[x][t] = IF x = c /\ t \in {s} THEN "none" ELSE disk[x][t]
      BY <2>1, <2>2, WithIs
  <2> QED  BY <1>1, <2>1, <2>3 DEF Untracks
<1>2. CASE ~loaded
  <2>1. mem = Empty /\ mem' = Empty
      BY <1>2, EmptyStays DEF Mirrored
  <2> QED  BY <1>2, <2>1 DEF Untracks
<1> QED  BY <1>1, <1>2

LEMMA CloseReadIs ==
    ASSUME TypeOK, Mirrored, CloseRead
    PROVE  \/ todo = {} /\ pc' = ret /\ UNCHANGED <<todo, cur, side, mem, disk, loaded>>
           \/ \E c \in todo, A \in Answers("close_gap") :
                 /\ View(A)[c] = Flat /\ pc' = pc /\ Untracks(c, Sides)
                 /\ UNCHANGED <<cur, side>>
           \/ \E c \in todo, A \in Answers("close_gap") :
                 /\ View(A)[c] # Flat /\ pc' = "order"
                 /\ cur' = c /\ side' = View(A)[c]
                 /\ UNCHANGED <<mem, disk, loaded>>
<1>1. loaded' = loaded
    BY DEF CloseRead
<1>2. CASE todo = {} /\ pc' = ret /\ UNCHANGED <<todo, cur, side, mem, disk>>
    BY <1>1, <1>2
<1>3. ASSUME NEW c \in todo, NEW A \in Answers("close_gap"),
             IF View(A)[c] = Flat
             THEN /\ mem' = Without(mem, c)
                  /\ disk' = IF mem' # mem THEN mem' ELSE disk
                  /\ todo' = todo \ {c}
                  /\ UNCHANGED <<pc, cur, side>>
             ELSE /\ cur' = c /\ side' = View(A)[c] /\ pc' = "order"
                  /\ UNCHANGED <<todo, mem, disk>>
      PROVE  \/ /\ View(A)[c] = Flat /\ pc' = pc /\ Untracks(c, Sides)
                /\ UNCHANGED <<cur, side>>
             \/ /\ View(A)[c] # Flat /\ pc' = "order"
                /\ cur' = c /\ side' = View(A)[c]
                /\ UNCHANGED <<mem, disk, loaded>>
  <2>1. c \in Coins
      BY DEF TypeOK
  <2>2. CASE View(A)[c] = Flat
      BY <1>1, <1>3, <2>1, <2>2, WithoutUntracks
  <2>3. CASE View(A)[c] # Flat
      BY <1>1, <1>3, <2>3
  <2> QED  BY <2>2, <2>3
<1> QED  BY <1>2, <1>3 DEF CloseRead

(* A step that leaves the registry, the snapshot and the dropped trackers alone *)
(* and does not take a coin in hand keeps what the tick knows.                  *)
LEMMA SteadyKept ==
    ASSUME Steady, UNCHANGED <<mem, loaded, disk, snap, queried, stale>>,
           pc' \notin {"enter", "register", "order", "settle", "record"},
           stale # {} => pc' = "external",
           loaded \/ pc' = "heartbeat" \/ Reconciling',
           ret' \in {"heartbeat", "rehydrate", "scan", "verdict"}
    PROVE  Steady'
<1>1. Mirrored'
    BY DEF Steady, Mirrored
<1>2. InHand'
    BY DEF InHand
<1>3. SnapKnown' /\ OneEach'
    BY DEF Steady, SnapKnown, OneEach, Held
<1> QED  BY <1>1, <1>2, <1>3 DEF Steady

LEMMA SteadyRegister ==
    ASSUME TypeOK, Steady, Register
    PROVE  Steady'
<1>1. cur \in Coins /\ side \in Sides /\ (\A s \in Sides : ~Held(cur, s)) /\ loaded /\ mem = disk
    BY DEF Register, Steady, InHand, Mirrored, Reconciling
<1>2. disk' = With(disk, cur, side, "own") /\ mem' = disk' /\ loaded'
    BY <1>1 DEF Register
<1>3. \A c \in Coins, s \in Sides :
         disk'[c][s] = IF c = cur /\ s = side THEN "own" ELSE disk[c][s]
    BY <1>1, <1>2, WithIs DEF TypeOK
<1>4. Mirrored'
    BY <1>2 DEF Mirrored
<1>5. InHand' /\ SnapKnown'
    BY DEF Register, AfterEntry, Steady, InHand, SnapKnown, work, view
<1>6. OneEach'
    BY <1>1, <1>3 DEF Register, Steady, OneEach, Held, work
<1> QED  BY <1>4, <1>5, <1>6 DEF Steady

(* Taking trackers away keeps what the tick knows. *)
LEMMA SteadyUntracks ==
    ASSUME TypeOK, Steady, NEW c \in Coins, NEW S, Untracks(c, S),
           UNCHANGED <<snap, queried, stale, ret>>,
           pc' \notin {"enter", "register", "order", "settle"},
           pc' = "record" => cur' \in Coins /\ side' \in Sides,
           pc # "external" /\ pc' # "external",
           loaded \/ pc' = "heartbeat" \/ Reconciling'
    PROVE  Steady'
<1>1. Mirrored'
    BY DEF Steady, Mirrored, Untracks
<1>2. InHand'
    BY DEF Steady, InHand
<1>3. SnapKnown'
    BY DEF Steady, SnapKnown
<1>4. \A x \in Coins, s \in Sides : Held(x, s)' => Held(x, s)
    BY DEF Untracks, Held
<1>5. OneEach'
    BY <1>4 DEF Steady, OneEach
<1> QED  BY <1>1, <1>2, <1>3, <1>5 DEF Steady

LEMMA SteadyRehydrate ==
    ASSUME TypeOK, Steady, Rehydrate
    PROVE  Steady'
<1>1. /\ mem' = disk' /\ loaded'
      /\ \A c \in Coins, s \in Sides :
            Held(c, s)' <=> (snap[c] = s \/ (Held(c, s) /\ DexOf[c] \notin queried))
      /\ stale' = {k \in Keys : Held(k[1], k[2]) /\ ~Held(k[1], k[2])'}
    BY RehydrateIs DEF Steady
<1>2. Mirrored'
    BY <1>1 DEF Mirrored
<1>3. InHand' /\ SnapKnown'
    BY DEF Rehydrate, Steady, InHand, SnapKnown, view
<1>4. \A c \in Coins, s \in Sides : snap[c] = s => DexOf[c] \in queried
    BY LifecycleAssumption DEF LifecycleAssumption, Steady, SnapKnown
<1>5. \A c \in Coins : \A s, t \in Sides : Held(c, s)' /\ Held(c, t)' => s = t
    BY <1>1, <1>4 DEF Steady, OneEach
<1>6. \A k, l \in stale' : k[1] = l[1] => k = l
    BY <1>1 DEF Steady, OneEach, Keys
<1>7. OneEach'
    BY <1>5, <1>6 DEF OneEach
<1> QED  BY <1>2, <1>3, <1>7 DEF Steady

LEMMA SteadyHeartbeat ==
    ASSUME TypeOK, Steady, Heartbeat
    PROVE  Steady'
<1> USE DEF work, trackers
<1>1. PICK A \in Answers("heartbeat_gap"), accepted \in BOOLEAN :
         /\ snap' = IF accepted THEN View(A) ELSE AllFlat
         /\ queried' = IF accepted THEN Queried(A) ELSE {}
    BY DEF Heartbeat
<1>2. \A c \in Coins : snap'[c] # Flat => DexOf[c] \in queried'
    BY <1>1 DEF View, Queried, AllFlat
<1>3. pc' = "kill" /\ UNCHANGED <<mem, loaded, disk, stale, ret, cur, side>> /\ pc = "heartbeat"
    BY DEF Heartbeat
<1>4. Mirrored'
    BY <1>3 DEF Steady, Mirrored, Reconciling
<1>5. InHand' /\ SnapKnown'
    BY <1>2, <1>3 DEF Steady, InHand, SnapKnown
<1>6. OneEach'
    BY <1>3 DEF Steady, OneEach, Held
<1> QED  BY <1>4, <1>5, <1>6 DEF Steady

(* A tick of the loop keeps what it knows, one case per step. *)
LEMMA SteadyLoop ==
    ASSUME TypeOK, Steady, LoopStep
    PROVE  Steady'
<1> USE DEF exchange, work, view, trackers
<1>0. /\ loaded \/ pc = "heartbeat" \/ Reconciling
      /\ pc # "external" => stale = {}
      /\ ret \in {"heartbeat", "rehydrate", "scan", "verdict"}
    BY DEF Steady, Mirrored, SnapKnown, InHand
<1>1. CASE Heartbeat
    BY <1>1, SteadyHeartbeat
<1>2. CASE KillSwitch
    BY <1>0, <1>2, SteadyKept DEF KillSwitch, Reconciling
<1>3. CASE Rehydrate
    BY <1>3, SteadyRehydrate
<1>4. CASE RecordExternal
  <2>1. loaded /\ UNCHANGED <<mem, loaded, disk, snap, queried, cur, side, ret>>
      BY <1>0, <1>4 DEF RecordExternal, Reconciling
  <2>2. stale' \subseteq stale /\ (pc' # "external" => stale' = {}) /\ pc' \in {"external", "exits"}
      BY <1>4 DEF RecordExternal
  <2>3. Mirrored' /\ InHand' /\ SnapKnown' /\ OneEach'
      BY <2>1, <2>2 DEF Steady, Mirrored, InHand, SnapKnown, OneEach, Held
  <2> QED  BY <2>3 DEF Steady
<1>5. CASE MonitorExits
    BY <1>0, <1>5, SteadyKept DEF MonitorExits, Reconciling
<1>6. CASE Scan
    BY <1>0, <1>6, SteadyKept DEF Scan, Reconciling
<1>7. CASE Books
  <2>1. loaded /\ mem = disk /\ UNCHANGED <<mem, loaded, disk, snap, queried, stale, ret>>
      BY <1>0, <1>7 DEF Books, Reconciling, Steady, Mirrored
  <2>2. CASE pc' = "enter" /\ \E c \in todo, A \in Answers("close_gap") :
                 MayEnter(c, A) /\ cur' = c /\ side' \in Sides
    <3>1. cur' \in Coins /\ side' \in Sides /\ \A s \in Sides : ~Held(cur', s)
        BY <2>1, <2>2 DEF MayEnter, Tracked, Held, TypeOK
    <3>2. Mirrored' /\ InHand'
        BY <1>0, <2>1, <2>2, <3>1 DEF Mirrored, InHand, Held
    <3>3. SnapKnown' /\ OneEach'
        BY <1>0, <1>7, <2>1, <2>2 DEF Books, Steady, SnapKnown, OneEach, Held
    <3> QED  BY <3>2, <3>3 DEF Steady
  <2>3. CASE pc' # "enter"
      BY <1>0, <1>7, <2>1, <2>3, SteadyKept DEF Books
  <2> QED  BY <1>7, <2>2, <2>3 DEF Books
<1>8. CASE Enter
  <2>1. loaded /\ UNCHANGED <<mem, loaded, disk, snap, queried, stale, ret, cur, side>>
      BY <1>0, <1>8 DEF Enter, Reconciling
  <2>2. pc = "enter" /\ pc' \in {"register", "books", "exits2"}
      BY <1>8 DEF Enter, AfterEntry
  <2>3. Mirrored' /\ InHand' /\ SnapKnown' /\ OneEach'
      BY <2>1, <2>2 DEF Steady, Mirrored, InHand, SnapKnown, OneEach, Held
  <2> QED  BY <2>3 DEF Steady
<1>9. CASE Register
    BY <1>9, SteadyRegister
<1>10. CASE Review
    BY <1>0, <1>10, SteadyKept DEF Review, Reconciling
<1>11. CASE CloseRead
  <2>1. pc = "close" /\ UNCHANGED <<snap, queried, stale, ret>>
      BY <1>11 DEF CloseRead
  <2>2. CASE todo = {} /\ pc' = ret /\ UNCHANGED <<todo, cur, side, mem, disk, loaded>>
      BY <1>0, <2>1, <2>2, SteadyKept DEF Reconciling
  <2>3. ASSUME NEW c \in todo, Untracks(c, Sides), pc' = pc
        PROVE  Steady'
    <3>1. c \in Coins
        BY DEF TypeOK
    <3>2. loaded \/ Reconciling'
        BY <1>0, <2>1, <2>3 DEF Reconciling
    <3> QED  BY <2>1, <2>3, <3>1, <3>2, SteadyUntracks
  <2>4. ASSUME NEW c \in todo, NEW A, View(A)[c] # Flat, pc' = "order",
               cur' = c, side' = View(A)[c], UNCHANGED <<mem, disk, loaded>>
        PROVE  Steady'
    <3>1. cur' \in Coins /\ side' \in Sides
        BY <2>4 DEF View, TypeOK, Holding
    <3>2. Mirrored' /\ InHand'
        BY <1>0, <2>1, <2>4, <3>1 DEF Steady, Mirrored, InHand, Reconciling
    <3>3. SnapKnown' /\ OneEach'
        BY <2>1, <2>4 DEF Steady, SnapKnown, OneEach, Held
    <3> QED  BY <3>2, <3>3 DEF Steady
  <2>5. Mirrored
      BY DEF Steady
  <2> QED  BY <1>11, <2>2, <2>3, <2>4, <2>5, CloseReadIs
<1>12. CASE CloseOrder
  <2>1. pc = "order" /\ pc' \in {"settle", "close"}
        /\ UNCHANGED <<mem, loaded, disk, snap, queried, stale, ret, cur, side>>
      BY <1>12 DEF CloseOrder
  <2>2. Mirrored' /\ InHand' /\ SnapKnown' /\ OneEach'
      BY <2>1 DEF Steady, Mirrored, InHand, SnapKnown, OneEach, Held, Reconciling
  <2> QED  BY <2>2 DEF Steady
<1>13. CASE CloseSettle
  <2>1. cur \in Coins /\ side \in Sides
      BY <1>13 DEF CloseSettle, Steady, InHand
  <2>2. Untracks(cur, {side})
      BY <1>13, <2>1, WithUntracks DEF CloseSettle, Steady
  <2>3. loaded \/ Reconciling'
      BY <1>0, <1>13 DEF CloseSettle, Reconciling
  <2> QED  BY <1>13, <2>1, <2>2, <2>3, SteadyUntracks DEF CloseSettle
<1>14. CASE CloseRecord
    BY <1>0, <1>14, SteadyKept DEF CloseRecord, Reconciling
<1>15. CASE Verdict
  <2>1. pc = "verdict" /\ UNCHANGED <<mem, loaded, disk, snap, queried, stale, ret>>
      BY <1>15, VerdictIs
  <2>2. loaded /\ mem = disk
      BY <1>0, <2>1 DEF Reconciling, Steady, Mirrored
  <2>3. CASE pc' = "exits2"
      BY <1>0, <2>1, <2>2, <2>3, SteadyKept
  <2>4. CASE pc' = "enter" /\ cur' \in Coins /\ side' \in Sides /\ cur' \notin Tracked(mem)
    <3>1. \A s \in Sides : ~Held(cur', s)
        BY <2>2, <2>4 DEF Tracked, Held
    <3>2. Mirrored' /\ InHand'
        BY <1>0, <2>1, <2>2, <2>4, <3>1 DEF Mirrored, InHand, Held
    <3>3. SnapKnown' /\ OneEach'
        BY <1>0, <2>1, <2>2, <2>4 DEF Steady, SnapKnown, OneEach, Held
    <3> QED  BY <3>2, <3>3 DEF Steady
  <2> QED  BY <1>15, <2>3, <2>4, VerdictIs
<1> QED
    BY <1>1, <1>2, <1>3, <1>4, <1>5, <1>6, <1>7, <1>8, <1>9, <1>10, <1>11, <1>12,
       <1>13, <1>14, <1>15 DEF LoopStep

(* Nobody but a second process touches what the tick knows, and a crash leaves *)
(* a process that knows nothing.                                               *)
LEMMA SteadyEnvironment ==
    ASSUME Steady, Environment, "mcp" \notin Events
    PROVE  Steady'
<1>1. CASE StopFill \/ ManualOpen
  <2>1. UNCHANGED <<pc, snap, queried, ret, cur, side, stale, mem, loaded, disk>>
      BY <1>1 DEF StopFill, ManualOpen, work, view, trackers
  <2> QED
      BY <2>1 DEF Steady, Mirrored, InHand, SnapKnown, OneEach, Held, Reconciling
<1>2. CASE Crash
  <2>1. /\ mem' = Empty /\ ~loaded' /\ pc' = "heartbeat" /\ ret' = "heartbeat"
        /\ stale' = {} /\ disk' = disk /\ \A c \in Coins : snap'[c] = Flat
      BY <1>2 DEF Crash, AllFlat
  <2>2. Mirrored' /\ InHand' /\ SnapKnown' /\ OneEach'
      BY <2>1 DEF Steady, Mirrored, InHand, SnapKnown, OneEach, Held
  <2> QED  BY <2>2 DEF Steady
<1> QED  BY <1>1, <1>2 DEF Environment, McpExecute, McpClose

LEMMA SteadyInvariant ==
    ASSUME "mcp" \notin Events
    PROVE  Spec => []Steady
<1>1. Init => Steady
    BY DEF Init, Steady, Mirrored, InHand, SnapKnown, OneEach, Held, AllFlat, Empty
<1>2. TypeOK /\ Steady /\ [Next]_vars => Steady'
  <2> SUFFICES ASSUME TypeOK, Steady, [Next]_vars PROVE Steady'
      OBVIOUS
  <2>1. CASE UNCHANGED vars
      BY <2>1 DEF vars, Steady, Mirrored, InHand, SnapKnown, OneEach, Held, Reconciling
  <2> QED  BY <2>1, SteadyLoop, SteadyEnvironment DEF Next
<1> QED  BY <1>1, <1>2, TypeCorrect, PTL DEF Spec

---------------------------------------------------------------------------
(* Why an exit policy stays: a position that is due is held, and on disk under  *)
(* its own policy; the snapshot the tick reconciles with either shows it or     *)
(* says nothing of its clearinghouse; and a coin being entered, registered or   *)
(* settled has no due position, since the account showed it flat or it was just *)
(* closed.                                                                      *)
DueInv ==
    /\ \A c \in Coins : due[c] => pos[c] # Flat /\ disk[c][pos[c]] = "own"
    /\ \A c \in Coins : Reconciling /\ due[c] /\ DexOf[c] \in queried => snap[c] = pos[c]
    /\ pc \in {"enter", "register", "settle"} => ~due[cur]

\* Without read gaps of the close-time read or of the main clearinghouse, and
\* with orders that fill at once, a coin found flat is flat.
WholeReads == {"mcp", "close_gap", "main_gap", "partial_fill"} \cap Events = {}

LEMMA WholeView ==
    ASSUME TypeOK, WholeReads, NEW A \in Answers("close_gap"), NEW c \in Coins
    PROVE  View(A)[c] = pos[c]
<1>1. Dexes \subseteq A
    BY DEF WholeReads, Answers
<1> QED  BY <1>1, LifecycleAssumption DEF View, LifecycleAssumption

(* A step that leaves positions, due flags, file and snapshot alone. *)
LEMMA DueKept ==
    ASSUME DueInv, UNCHANGED <<pos, due, disk, snap, queried>>,
           Reconciling' => Reconciling,
           pc' \notin {"enter", "register", "settle"}
    PROVE  DueInv'
<1>1. \A c \in Coins : due'[c] => pos'[c] # Flat /\ disk'[c][pos'[c]] = "own"
    BY DEF DueInv
<1>2. \A c \in Coins : Reconciling' /\ due'[c] /\ DexOf[c] \in queried' => snap'[c] = pos'[c]
    BY DEF DueInv
<1> QED  BY <1>1, <1>2 DEF DueInv

(* A fill that closes a position ends its due; nobody else's. *)
LEMMA DueCloses ==
    ASSUME TypeOK, Steady, DueInv, NEW c \in Coins, Closes(c),
           UNCHANGED <<disk, snap, queried, cur>>,
           Reconciling' => Reconciling,
           pc' = pc \/ (pc' \in {"settle", "close"} /\ cur = c)
    PROVE  DueInv'
<1>1. /\ \A x \in Coins \ {c} : pos'[x] = pos[x] /\ due'[x] = due[x]
      /\ ~due'[c]
    BY DEF Closes, TypeOK
<1>2. \A x \in Coins : due'[x] => due[x] /\ pos'[x] = pos[x]
    BY <1>1, Zenon
<1>3. \A x \in Coins : due'[x] => pos'[x] # Flat /\ disk'[x][pos'[x]] = "own"
    BY <1>2 DEF DueInv
<1>4. \A x \in Coins : Reconciling' /\ due'[x] /\ DexOf[x] \in queried' => snap'[x] = pos'[x]
    BY <1>2 DEF DueInv
<1>5. pc' \in {"enter", "register", "settle"} => ~due'[cur']
  <2>1. CASE pc' = pc
    <3>1. pc \in {"enter", "register", "settle"} => cur \in Coins /\ ~due[cur]
        BY DEF DueInv, Steady, InHand
    <3> QED  BY <1>2, <2>1, <3>1
  <2>2. CASE pc' \in {"settle", "close"} /\ cur = c
      BY <1>1, <2>2
  <2> QED  BY <2>1, <2>2
<1> QED  BY <1>3, <1>4, <1>5 DEF DueInv

LEMMA DueHeartbeat ==
    ASSUME TypeOK, DueInv, WholeReads, Heartbeat
    PROVE  DueInv'
<1>1. PICK A \in Answers("heartbeat_gap"), accepted \in BOOLEAN :
         /\ snap' = IF accepted THEN View(A) ELSE AllFlat
         /\ queried' = IF accepted THEN Queried(A) ELSE {}
    BY DEF Heartbeat
<1>2. Main \in A
    BY DEF WholeReads, Answers
<1>3. \A c \in Coins : DexOf[c] \in queried' => snap'[c] = pos[c]
    BY <1>1, <1>2 DEF View, Queried
<1>4. pc' = "kill" /\ UNCHANGED <<pos, due, disk>>
    BY DEF Heartbeat, exchange, trackers
<1> QED  BY <1>3, <1>4 DEF DueInv

LEMMA DueRehydrate ==
    ASSUME TypeOK, Steady, DueInv, Rehydrate
    PROVE  DueInv'
<1>1. UNCHANGED <<pos, due>> /\ pc' = "external" /\ Reconciling
    BY DEF Rehydrate, exchange, Reconciling
<1>2. ASSUME NEW c \in Coins, due[c]
      PROVE  pos[c] # Flat /\ disk'[c][pos[c]] = "own"
  <2>1. pos[c] \in Sides /\ disk[c][pos[c]] = "own" /\ Held(c, pos[c])
      BY <1>2 DEF DueInv, TypeOK, Holding, Held
  <2>2. snap[c] = pos[c] \/ DexOf[c] \notin queried
      BY <1>1, <1>2 DEF DueInv
  <2>3. disk'[c][pos[c]] = disk[c][pos[c]]
      BY <2>1, <2>2, RehydrateIs DEF Steady
  <2> QED  BY <1>2, <2>1, <2>3 DEF DueInv
<1>3. \A c \in Coins : due'[c] => pos'[c] # Flat /\ disk'[c][pos'[c]] = "own"
    BY <1>1, <1>2
<1>4. ~Reconciling'
    BY <1>1 DEF Reconciling
<1> QED  BY <1>1, <1>3, <1>4 DEF DueInv

LEMMA DueEnter ==
    ASSUME TypeOK, Steady, DueInv, Enter
    PROVE  DueInv'
<1>1. /\ pc = "enter" /\ pc' \in {"register", "books", "exits2"} /\ ~due[cur] /\ cur \in Coins
      /\ UNCHANGED <<disk, snap, queried, cur, due>>
    BY DEF Enter, AfterEntry, FillsEntry, Opens, DueInv, Steady, InHand, work, view, trackers
<1>2. \A x \in Coins \ {cur} : pos'[x] = pos[x]
    BY <1>1 DEF Enter, FillsEntry, Opens, exchange, TypeOK
<1>3. \A x \in Coins : due'[x] => pos'[x] = pos[x]
    BY <1>1, <1>2
<1>4. \A x \in Coins : due'[x] => pos'[x] # Flat /\ disk'[x][pos'[x]] = "own"
    BY <1>1, <1>3 DEF DueInv
<1>5. ~Reconciling'
    BY <1>1 DEF Reconciling
<1> QED  BY <1>1, <1>4, <1>5 DEF DueInv

LEMMA DueRegister ==
    ASSUME TypeOK, Steady, DueInv, Register
    PROVE  DueInv'
<1>1. /\ cur \in Coins /\ side \in Sides /\ disk \in Registry
      /\ loaded /\ mem = disk /\ pos' = pos /\ pc' \in {"books", "exits2"}
    BY DEF Register, AfterEntry, Steady, InHand, Mirrored, Reconciling, exchange, TypeOK
<1>2. \A c \in Coins, s \in Sides :
         disk'[c][s] = IF c = cur /\ s = side THEN "own" ELSE disk[c][s]
    BY <1>1, WithIs DEF Register
<1>3. due' = [due EXCEPT ![cur] = pos[cur] = side]
    BY DEF Register
<1>4. ASSUME NEW c \in Coins, due'[c]
      PROVE  pos'[c] # Flat /\ disk'[c][pos'[c]] = "own"
  <2>1. CASE c = cur
    <3>1. pos[cur] = side
        BY <1>3, <1>4, <2>1, Zenon DEF TypeOK
    <3>2. side # Flat
        BY <1>1, LifecycleAssumption DEF LifecycleAssumption
    <3> QED  BY <1>1, <1>2, <2>1, <3>1, <3>2
  <2>2. CASE c # cur
    <3>1. due[c]
        BY <1>3, <1>4, <2>2, Zenon DEF TypeOK
    <3>2. pos[c] \in Sides /\ disk[c][pos[c]] = "own" /\ pos[c] # Flat
        BY <3>1 DEF DueInv, TypeOK, Holding
    <3> QED  BY <1>1, <1>2, <2>2, <3>2
  <2> QED  BY <2>1, <2>2
<1>5. ~Reconciling'
    BY <1>1 DEF Reconciling
<1> QED  BY <1>1, <1>4, <1>5 DEF DueInv

(* Taking the trackers of a coin without due position disturbs no other one. *)
LEMMA DueUntracks ==
    ASSUME TypeOK, DueInv, NEW c \in Coins, NEW S, Untracks(c, S), ~due[c],
           UNCHANGED <<pos, due, snap, queried>>,
           Reconciling' => Reconciling,
           pc' \notin {"enter", "register", "settle"}
    PROVE  DueInv'
<1>1. ASSUME NEW x \in Coins, due[x]
      PROVE  pos[x] # Flat /\ disk'[x][pos[x]] = "own"
  <2>1. x # c /\ pos[x] \in Sides /\ disk[x][pos[x]] = "own" /\ pos[x] # Flat
      BY <1>1 DEF DueInv, TypeOK, Holding
  <2> QED  BY <2>1 DEF Untracks
<1>2. \A x \in Coins : Reconciling' /\ due'[x] /\ DexOf[x] \in queried' => snap'[x] = pos'[x]
    BY DEF DueInv
<1> QED  BY <1>1, <1>2 DEF DueInv

(* The exit policy of a position the loop opened and registered survives        *)
(* heartbeat gaps, the kill switch, stops, manual trades, rejected orders, lost *)
(* answers and crashes, as long as the executor's reads are whole, orders fill  *)
(* at once and no second process writes the file.                               *)
THEOREM PolicyStays ==
    ASSUME WholeReads
    PROVE  Spec => []PolicyKept
<1>1. Init => DueInv
    BY DEF Init, DueInv, Reconciling
<1>2. TypeOK /\ Steady /\ DueInv /\ [Next]_vars => DueInv'
  <2> SUFFICES ASSUME TypeOK, Steady, DueInv, [Next]_vars PROVE DueInv'
      OBVIOUS
  <2> USE DEF exchange, work, view, trackers
  <2>1. CASE Heartbeat
      BY <2>1, DueHeartbeat
  <2>2. CASE KillSwitch
      BY <2>2, DueKept DEF KillSwitch, Reconciling
  <2>3. CASE Rehydrate
      BY <2>3, DueRehydrate
  <2>4. CASE RecordExternal
      BY <2>4, DueKept DEF RecordExternal, Reconciling
  <2>5. CASE MonitorExits
      BY <2>5, DueKept DEF MonitorExits, Reconciling
  <2>6. CASE Scan
      BY <2>6, DueKept DEF Scan, Reconciling
  <2>7. CASE Books
    <3>1. UNCHANGED <<pos, due, disk, snap, queried>> /\ pc' \in {"books", "exits2", "review", "enter"}
        BY <2>7 DEF Books
    <3>2. ~Reconciling'
        BY <3>1 DEF Reconciling
    <3>3. CASE pc' = "enter"
      <4>1. PICK c \in todo, A \in Answers("close_gap") : MayEnter(c, A) /\ cur' = c
          BY <2>7, <3>3 DEF Books
      <4>2. c \in Coins
          BY DEF TypeOK
      <4>3. pos[c] = Flat
          BY <4>1, <4>2, WholeView DEF MayEnter
      <4>4. ~due'[cur']
          BY <3>1, <4>1, <4>2, <4>3 DEF DueInv
      <4> QED  BY <3>1, <3>2, <4>4 DEF DueInv
    <3> QED  BY <3>1, <3>2, <3>3, DueKept
  <2>8. CASE Enter
      BY <2>8, DueEnter
  <2>9. CASE Register
      BY <2>9, DueRegister
  <2>10. CASE Review
      BY <2>10, DueKept DEF Review, Reconciling
  <2>11. CASE CloseRead
    <3>1. UNCHANGED <<pos, due, snap, queried, ret>> /\ pc = "close"
        BY <2>11 DEF CloseRead
    <3>2. ASSUME pc' \in {"close", "order"} \/ pc' = ret
          PROVE  (Reconciling' => Reconciling) /\ pc' \notin {"enter", "register", "settle"}
        BY <3>1, <3>2 DEF Reconciling, Steady, InHand
    <3>3. ASSUME NEW c \in todo, NEW A \in Answers("close_gap"),
                 View(A)[c] = Flat, Untracks(c, Sides), pc' = pc
          PROVE  DueInv'
      <4>1. c \in Coins
          BY DEF TypeOK
      <4>2. ~due[c]
          BY <3>3, <4>1, WholeView DEF DueInv
      <4> QED  BY <3>1, <3>2, <3>3, <4>1, <4>2, DueUntracks
    <3>4. ASSUME disk' = disk, pc' = "order" \/ pc' = ret PROVE DueInv'
        BY <3>1, <3>2, <3>4, DueKept
    <3>5. Mirrored
        BY DEF Steady
    <3> QED  BY <2>11, <3>3, <3>4, <3>5, CloseReadIs
  <2>12. CASE CloseOrder
    <3>1. /\ UNCHANGED <<disk, snap, queried, cur, ret>> /\ cur \in Coins
          /\ pc = "order" /\ pc' \in {"settle", "close"}
        BY <2>12 DEF CloseOrder, Steady, InHand
    <3>2. Reconciling' => Reconciling
        BY <3>1 DEF Reconciling
    <3>3. CASE Closes(cur)
        BY <3>1, <3>2, <3>3, DueCloses
    <3>4. CASE UNCHANGED <<pos, due>> /\ pc' = "close"
        BY <3>1, <3>2, <3>4, DueKept
    <3> QED  BY <2>12, <3>3, <3>4 DEF CloseOrder, WholeReads
  <2>13. CASE CloseSettle
    <3>1. cur \in Coins /\ side \in Sides /\ ~due[cur]
        BY <2>13 DEF CloseSettle, Steady, InHand, DueInv
    <3>2. Untracks(cur, {side})
        BY <2>13, <3>1, WithUntracks DEF CloseSettle, Steady
    <3> QED  BY <2>13, <3>1, <3>2, DueUntracks DEF CloseSettle, Reconciling
  <2>14. CASE CloseRecord
      BY <2>14, DueKept DEF CloseRecord, Reconciling
  <2>15. CASE StopFill
    <3>1. UNCHANGED <<disk, snap, queried, cur, pc, ret>>
        BY <2>15 DEF StopFill
    <3> QED  BY <2>15, <3>1, DueCloses DEF StopFill, Reconciling
  <2>16. CASE ManualOpen
    <3>1. UNCHANGED <<due, disk, snap, queried, cur, pc, ret>>
        BY <2>16 DEF ManualOpen, Opens
    <3>2. \A x \in Coins : pos[x] # Flat => pos'[x] = pos[x]
        BY <2>16 DEF ManualOpen, Opens, TypeOK
    <3> QED  BY <3>1, <3>2 DEF DueInv, Reconciling
  <2>17. ~McpExecute /\ ~McpClose
      BY DEF McpExecute, McpClose, WholeReads
  <2>18. CASE Crash
    <3>1. pc' = "heartbeat" /\ UNCHANGED <<pos, due, disk>> /\ ~Reconciling'
        BY <2>18 DEF Crash, Reconciling
    <3> QED  BY <3>1 DEF DueInv
  <2>19. CASE UNCHANGED vars
      BY <2>19 DEF vars, DueInv, Reconciling
  <2>20. CASE Verdict
    <3>1. UNCHANGED <<pos, due, disk, snap, queried>> /\ ~Reconciling'
        BY <2>20, VerdictIs DEF Reconciling
    <3>2. /\ pc' \in {"exits2", "enter"}
          /\ pc' = "enter" => cur' \in Coins /\ pos[cur'] = Flat
        BY <2>20, VerdictIs
    <3>3. \A x \in Coins : due[x] => pos[x] # Flat
        BY DEF DueInv
    <3>4. pc' = "enter" => ~due'[cur']
        BY <3>1, <3>2, <3>3
    <3>5. pc' \notin {"register", "settle"}
        BY <3>2
    <3> QED  BY <3>1, <3>4, <3>5 DEF DueInv
  <2> QED
      BY <2>1, <2>2, <2>3, <2>4, <2>5, <2>6, <2>7, <2>8, <2>9, <2>10, <2>11, <2>12,
         <2>13, <2>14, <2>15, <2>16, <2>17, <2>18, <2>19, <2>20
      DEF Next, LoopStep, Environment
<1>3. Steady /\ DueInv => PolicyKept
    BY DEF Steady, Mirrored, DueInv, PolicyKept
<1>4. Spec => []Steady
    BY SteadyInvariant DEF WholeReads
<1> QED  BY <1>1, <1>2, <1>3, <1>4, TypeCorrect, PTL DEF Spec

---------------------------------------------------------------------------
(* What the outcome store still owes the exchange: rows that the state of the *)
(* tick is bound to lead to.  A row of a coin comes from a tracker whose      *)
(* position is gone (or will be, once reconciled with the snapshot), from a   *)
(* tracker already dropped, or from a close order that filled; each of these  *)
(* arose from a close the exchange saw.                                       *)
One(b) == IF b THEN 1 ELSE 0

\* The trackers that will be left once the step in hand is through.
Watches(c, s) ==
    CASE pc \in {"kill", "rehydrate"}   -> snap[c] = s \/ (Held(c, s) /\ DexOf[c] \notin queried)
      [] pc = "settle" /\ cur = c       -> Held(c, s) /\ s # side
      [] pc = "register" /\ cur = c     -> s = side
      [] OTHER                          -> Held(c, s)

Orphan(c) == \E s \in Sides : pos[c] # s /\ Watches(c, s)

Dropped(c) ==
    \/ \E k \in stale : k[1] = c
    \/ /\ pc \in {"kill", "rehydrate"} /\ DexOf[c] \in queried
       /\ \E s \in Sides : Held(c, s) /\ snap[c] # s

Filled(c) == pc \in {"settle", "record"} /\ cur = c

Owed(c) == One(Dropped(c)) + One(Orphan(c)) + One(Filled(c))

Paid ==
    /\ ret # "rehydrate"
    /\ \A c \in Coins : rows[c] + Owed(c) <= closes[c]

\* No second process, no kill switch between read and reconciling, and the main
\* clearinghouse answers.
OneReader == {"mcp", "kill", "main_gap"} \cap Events = {}

LEMMA OwedType == \A c : Owed(c) \in Nat
    BY DEF Owed, One

(* Nothing new is owed for coin c: the step kept its account, or paid. *)
NoDebt(c) ==
    \/ rows'[c] = rows[c] /\ closes'[c] = closes[c] /\ Owed(c)' <= Owed(c)
    \/ rows'[c] = rows[c] /\ closes'[c] = closes[c] + 1 /\ Owed(c)' <= Owed(c) + 1
    \/ rows'[c] = rows[c] + 1 /\ closes'[c] = closes[c] /\ Owed(c)' + 1 <= Owed(c)

LEMMA NoDebtPaid ==
    ASSUME TypeOK, TypeOK', Paid, ret' # "rehydrate", \A c \in Coins : NoDebt(c)
    PROVE  Paid'
<1>1. ASSUME NEW c \in Coins PROVE rows'[c] + Owed(c)' <= closes'[c]
  <2>1. rows[c] \in Nat /\ closes[c] \in Nat /\ rows'[c] \in Nat /\ closes'[c] \in Nat
      BY DEF TypeOK
  <2>2. Owed(c) \in Nat /\ Owed(c)' \in Nat
      BY DEF Owed, One
  <2>3. rows[c] + Owed(c) <= closes[c] /\ NoDebt(c)
      BY DEF Paid
  <2> QED  BY <2>1, <2>2, <2>3 DEF NoDebt
<1> QED  BY <1>1 DEF Paid

(* The same trackers, the same coin in hand: nothing owed changes. *)
LEMMA SameOwed ==
    ASSUME NEW c \in Coins, rows'[c] = rows[c], closes'[c] = closes[c],
           Dropped(c)' => Dropped(c), Orphan(c)' => Orphan(c), Filled(c)' => Filled(c)
    PROVE  NoDebt(c)
    BY DEF NoDebt, Owed, One

\* The parts of the tick where the trackers left are simply those there are.
Plain == {"heartbeat", "external", "exits", "scan", "books", "enter", "review", "verdict",
          "exits2", "close", "order", "record"}

LEMMA PlainOwed ==
    ASSUME NEW c \in Coins, pc \in Plain, pc' \in Plain,
           UNCHANGED <<pos, stale, rows, closes>>,
           \A s \in Sides : Held(c, s)' => Held(c, s),
           pc' = "record" => pc = "record" /\ cur' = cur
    PROVE  NoDebt(c)
<1>1. Orphan(c)' => Orphan(c)
    BY DEF Plain, Orphan, Watches
<1>2. Dropped(c)' => Dropped(c)
    BY DEF Plain, Dropped
<1>3. Filled(c)' => Filled(c)
    BY DEF Plain, Filled
<1> QED  BY <1>1, <1>2, <1>3, SameOwed

(* The heartbeat: a tracker the snapshot contradicts has lost its position. *)
LEMMA PaidHeartbeat ==
    ASSUME TypeOK, Steady, OneReader, Heartbeat, NEW c \in Coins
    PROVE  NoDebt(c)
<1>1. PICK A \in Answers("heartbeat_gap"), accepted \in BOOLEAN :
         /\ snap' = IF accepted THEN View(A) ELSE AllFlat
         /\ queried' = IF accepted THEN Queried(A) ELSE {}
    BY DEF Heartbeat
<1>2. Main \in A
    BY DEF OneReader, Answers
<1>3. /\ pc = "heartbeat" /\ pc' = "kill" /\ stale = {}
      /\ UNCHANGED <<pos, closes, rows, disk, stale, cur>>
    BY DEF Heartbeat, exchange, trackers, work, Steady, SnapKnown
<1>4. DexOf[c] \in queried' => snap'[c] = pos[c]
    BY <1>1, <1>2 DEF View, Queried
<1>5. DexOf[c] \notin queried' => snap'[c] = Flat
    BY <1>1, <1>2 DEF View, Queried, AllFlat
<1>6. \A s \in Sides : s # Flat /\ (Held(c, s)' <=> Held(c, s))
    BY <1>3, LifecycleAssumption DEF LifecycleAssumption, Held
<1>7. Dropped(c)' <=> DexOf[c] \in queried' /\ \E s \in Sides : Held(c, s) /\ pos[c] # s
    BY <1>3, <1>4, <1>6 DEF Dropped
<1>8. Orphan(c)' <=> DexOf[c] \notin queried' /\ \E s \in Sides : Held(c, s) /\ pos[c] # s
    BY <1>3, <1>4, <1>5, <1>6 DEF Orphan, Watches
<1>9. Orphan(c) <=> \E s \in Sides : Held(c, s) /\ pos[c] # s
    BY <1>3 DEF Orphan, Watches
<1>10. ~Dropped(c) /\ ~Filled(c) /\ ~Filled(c)'
    BY <1>3 DEF Dropped, Filled
<1>11. Owed(c)' <= Owed(c)
    BY <1>7, <1>8, <1>9, <1>10 DEF Owed, One
<1> QED  BY <1>3, <1>11 DEF NoDebt

LEMMA PaidRehydrate ==
    ASSUME TypeOK, Steady, Rehydrate, NEW c \in Coins
    PROVE  NoDebt(c)
<1>1. /\ \A s \in Sides :
            Held(c, s)' <=> (snap[c] = s \/ (Held(c, s) /\ DexOf[c] \notin queried))
      /\ stale' = {k \in Keys : Held(k[1], k[2]) /\ ~Held(k[1], k[2])'}
    BY RehydrateIs DEF Steady
<1>2. pc = "rehydrate" /\ pc' = "external" /\ UNCHANGED <<pos, rows, closes>>
    BY DEF Rehydrate, exchange
<1>3. Orphan(c)' => Orphan(c)
    BY <1>1, <1>2 DEF Orphan, Watches
<1>4. Dropped(c)' => Dropped(c)
    BY <1>1, <1>2 DEF Dropped, Keys
<1>5. ~Filled(c)'
    BY <1>2 DEF Filled
<1> QED  BY <1>2, <1>3, <1>4, <1>5, SameOwed

(* A row for a dropped tracker: no other dropped tracker of that coin is left. *)
LEMMA PaidExternal ==
    ASSUME TypeOK, Steady, RecordExternal, NEW c \in Coins
    PROVE  NoDebt(c)
<1>1. UNCHANGED <<pos, closes, disk, cur>> /\ pc = "external" /\ pc' \in {"external", "exits"}
    BY DEF RecordExternal, exchange, trackers
<1>2. (Orphan(c)' <=> Orphan(c)) /\ ~Filled(c) /\ ~Filled(c)'
    BY <1>1 DEF Orphan, Watches, Held, Filled
<1>3. (Dropped(c) <=> \E k \in stale : k[1] = c) /\ (Dropped(c)' <=> \E k \in stale' : k[1] = c)
    BY <1>1 DEF Dropped
<1>4. CASE stale = {} /\ UNCHANGED <<stale, rows>>
    BY <1>1, <1>2, <1>3, <1>4, SameOwed
<1>5. ASSUME NEW k \in stale, stale' = stale \ {k}, rows' = [rows EXCEPT ![k[1]] = @ + 1]
      PROVE  NoDebt(c)
  <2>1. CASE k[1] = c
    <3>1. Dropped(c) /\ ~Dropped(c)'
        BY <1>3, <1>5, <2>1 DEF Steady, OneEach
    <3>2. rows'[c] = rows[c] + 1
        BY <1>5, <2>1 DEF TypeOK
    <3>3. Owed(c)' + 1 <= Owed(c)
        BY <1>2, <3>1 DEF Owed, One
    <3> QED  BY <1>1, <3>2, <3>3 DEF NoDebt
  <2>2. CASE k[1] # c
    <3>1. rows'[c] = rows[c]
        BY <1>5, <2>2 DEF TypeOK
    <3> QED  BY <1>1, <1>2, <1>3, <1>5, <3>1, SameOwed
  <2> QED  BY <2>1, <2>2
<1> QED  BY <1>4, <1>5 DEF RecordExternal

(* An entry is of a coin without trackers: the one it leads to is owed only *)
(* if the fill netted against a position, which is a close.                 *)
LEMMA PaidEnter ==
    ASSUME TypeOK, Steady, Enter, NEW c \in Coins
    PROVE  NoDebt(c)
<1>1. /\ pc = "enter" /\ pc' \in {"register", "books", "exits2"} /\ cur \in Coins /\ side \in Sides
      /\ stale = {} /\ UNCHANGED <<rows, disk, cur, side, stale>>
      /\ \A s \in Sides : ~Held(cur, s)
    BY DEF Enter, AfterEntry, Steady, InHand, SnapKnown, trackers, work
<1>2. ~Dropped(c) /\ ~Dropped(c)' /\ ~Filled(c) /\ ~Filled(c)'
    BY <1>1 DEF Dropped, Filled
<1>3. CASE c # cur
  <2>1. pos'[c] = pos[c] /\ closes'[c] = closes[c]
      BY <1>3 DEF Enter, FillsEntry, Opens, exchange, TypeOK
  <2>2. Orphan(c)' <=> Orphan(c)
      BY <1>1, <1>3, <2>1 DEF Orphan, Watches, Held
  <2> QED  BY <1>1, <1>2, <2>1, <2>2, SameOwed
<1>4. CASE c = cur
  <2>1. ~Orphan(c)
      BY <1>1, <1>4 DEF Orphan, Watches
  <2>2. CASE closes' = closes /\ (pc' = "register" => pos'[cur] = side)
    <3>1. ~Orphan(c)'
        BY <1>1, <1>4, <2>2 DEF Orphan, Watches, Held
    <3> QED  BY <1>1, <1>2, <2>2, <3>1, SameOwed
  <2>3. CASE closes' = [closes EXCEPT ![cur] = @ + 1]
    <3>1. closes'[c] = closes[c] + 1
        BY <1>4, <2>3 DEF TypeOK
    <3>2. Owed(c)' <= Owed(c) + 1
        BY <1>2, <2>1 DEF Owed, One
    <3> QED  BY <1>1, <3>1, <3>2 DEF NoDebt
  <2>4. FillsEntry(cur, side) \/ (UNCHANGED exchange /\ pc' = AfterEntry)
      BY DEF Enter
  <2>5. CASE FillsEntry(cur, side)
    <3>1. CASE UNCHANGED closes
      <4>1. pos'[cur] = side
          BY <2>5, <1>1, <3>1 DEF FillsEntry, Opens, TypeOK
      <4> QED  BY <3>1, <4>1, <2>2
    <3>2. CASE closes' = [closes EXCEPT ![cur] = @ + 1]
        BY <3>2, <2>3
    <3> QED  BY <2>5, <3>1, <3>2 DEF FillsEntry, Opens
  <2>6. CASE UNCHANGED exchange /\ pc' = AfterEntry
    <3>1. closes' = closes /\ pc' # "register"
        BY <2>6 DEF AfterEntry, exchange
    <3> QED  BY <3>1, <2>2
  <2> QED  BY <2>4, <2>5, <2>6
<1> QED  BY <1>3, <1>4

LEMMA PaidRegister ==
    ASSUME TypeOK, Steady, Register, NEW c \in Coins
    PROVE  NoDebt(c)
<1>1. /\ pc = "register" /\ pc' \in {"books", "exits2"} /\ cur \in Coins /\ side \in Sides
      /\ loaded /\ mem = disk /\ disk \in Registry /\ stale = {}
      /\ UNCHANGED <<pos, closes, rows, cur, side, stale>>
      /\ \A s \in Sides : ~Held(cur, s)
    BY DEF Register, AfterEntry, Steady, InHand, Mirrored, SnapKnown, Reconciling, exchange, work, TypeOK
<1>2. \A s \in Sides : disk'[c][s] = IF c = cur /\ s = side THEN "own" ELSE disk[c][s]
    BY <1>1, WithIs DEF Register
<1>3. Orphan(c)' => Orphan(c)
  <2>1. \A s \in Sides : Watches(c, s)' => Watches(c, s)
      BY <1>1, <1>2 DEF Watches, Held
  <2> QED  BY <1>1, <2>1 DEF Orphan
<1>4. ~Dropped(c)' /\ ~Filled(c)'
    BY <1>1 DEF Dropped, Filled
<1> QED  BY <1>1, <1>3, <1>4, SameOwed

(* A close that the exchange sees is at most one more debt of that coin. *)
LEMMA PaidCloses ==
    ASSUME TypeOK, NEW x \in Coins, Closes(x), NEW c \in Coins,
           UNCHANGED <<rows, stale, disk, snap, queried, cur, side, pc>>
    PROVE  NoDebt(c)
<1>1. (Dropped(c)' <=> Dropped(c)) /\ (Filled(c)' <=> Filled(c))
    BY DEF Dropped, Filled, Held
<1>2. CASE c = x
  <2>1. closes'[c] = closes[c] + 1
      BY <1>2 DEF Closes, TypeOK
  <2>2. Owed(c)' <= Owed(c) + 1
      BY <1>1 DEF Owed, One
  <2> QED  BY <2>1, <2>2 DEF NoDebt
<1>3. CASE c # x
  <2>1. pos'[c] = pos[c] /\ closes'[c] = closes[c]
      BY <1>3 DEF Closes, TypeOK
  <2>2. Orphan(c)' <=> Orphan(c)
      BY <2>1 DEF Orphan, Watches, Held
  <2> QED  BY <1>1, <2>1, <2>2, SameOwed
<1> QED  BY <1>2, <1>3

(* A close order: if it reduced the position, the exchange saw one more close *)
(* and the row to come is the one more debt; the tracker is as good as gone.  *)
LEMMA PaidOrder ==
    ASSUME TypeOK, Steady, CloseOrder, NEW c \in Coins
    PROVE  NoDebt(c)
<1>1. /\ pc = "order" /\ pc' \in {"settle", "close"} /\ cur \in Coins /\ side \in Sides
      /\ stale = {} /\ UNCHANGED <<rows, disk, cur, side, stale>>
    BY DEF CloseOrder, Steady, InHand, SnapKnown, trackers
<1>2. ~Dropped(c) /\ ~Dropped(c)' /\ ~Filled(c)
    BY <1>1 DEF Dropped, Filled
<1>3. CASE c # cur
  <2>1. pos'[c] = pos[c] /\ closes'[c] = closes[c]
      BY <1>3 DEF CloseOrder, Closes, exchange, TypeOK
  <2>2. (Orphan(c)' <=> Orphan(c)) /\ ~Filled(c)'
      BY <1>1, <1>3, <2>1 DEF Orphan, Watches, Held, Filled
  <2> QED  BY <1>1, <1>2, <2>1, <2>2, SameOwed
<1>4. CASE c = cur
  <2>1. CASE UNCHANGED <<pos, closes>> /\ pc' = "close"
    <3>1. (Orphan(c)' <=> Orphan(c)) /\ ~Filled(c)'
        BY <1>1, <2>1 DEF Orphan, Watches, Held, Filled
    <3> QED  BY <1>1, <1>2, <2>1, <3>1, SameOwed
  <2>2. CASE /\ closes' = [closes EXCEPT ![cur] = @ + 1] /\ pos[cur] = side
             /\ pc' = "settle"
    <3>1. Orphan(c)' => Orphan(c)
        BY <1>1, <1>4, <2>2 DEF Orphan, Watches, Held
    <3>2. closes'[c] = closes[c] + 1
        BY <1>4, <2>2 DEF TypeOK
    <3>3. Owed(c)' <= Owed(c) + 1
        BY <1>2, <3>1 DEF Owed, One
    <3> QED  BY <1>1, <3>2, <3>3 DEF NoDebt
  <2>3. CASE closes' = [closes EXCEPT ![cur] = @ + 1] /\ pc' = "close"
    <3>1. ~Filled(c)'
        BY <2>3 DEF Filled
    <3>2. closes'[c] = closes[c] + 1
        BY <1>4, <2>3 DEF TypeOK
    <3>3. Owed(c)' <= Owed(c) + 1
        BY <1>2, <3>1 DEF Owed, One
    <3> QED  BY <1>1, <3>2, <3>3 DEF NoDebt
  <2> QED  BY <2>1, <2>2, <2>3 DEF CloseOrder, Closes, exchange
<1> QED  BY <1>3, <1>4

LEMMA PaidSettle ==
    ASSUME TypeOK, Steady, ret # "rehydrate", CloseSettle, NEW c \in Coins
    PROVE  NoDebt(c)
<1>1. /\ pc = "settle" /\ pc' = "record" /\ cur \in Coins /\ side \in Sides
      /\ loaded /\ stale = {} /\ UNCHANGED <<pos, closes, rows, cur, side, stale>>
    BY DEF CloseSettle, Steady, InHand, Mirrored, SnapKnown, Reconciling, exchange, work
<1>2. Untracks(cur, {side})
    BY <1>1, WithUntracks DEF CloseSettle, Steady
<1>3. \A s \in Sides : Held(c, s)' <=> Held(c, s) /\ ~(c = cur /\ s = side)
    BY <1>1, <1>2 DEF Untracks, Held
<1>4. Orphan(c)' <=> Orphan(c)
    BY <1>1, <1>3 DEF Orphan, Watches
<1>5. ~Dropped(c)' /\ (Filled(c)' <=> Filled(c))
    BY <1>1 DEF Dropped, Filled
<1> QED  BY <1>1, <1>4, <1>5, SameOwed

LEMMA PaidRecord ==
    ASSUME TypeOK, Steady, CloseRecord, NEW c \in Coins
    PROVE  NoDebt(c)
<1>1. /\ pc = "record" /\ pc' = "close" /\ cur \in Coins
      /\ stale = {} /\ UNCHANGED <<pos, closes, disk, cur, stale>>
    BY DEF CloseRecord, Steady, InHand, SnapKnown, exchange, trackers
<1>2. /\ ~Dropped(c) /\ ~Dropped(c)' /\ ~Filled(c)' /\ (Orphan(c)' <=> Orphan(c))
      /\ (Filled(c) <=> c = cur)
    BY <1>1 DEF Dropped, Filled, Orphan, Watches, Held
<1>3. CASE rows'[c] = rows[c]
    BY <1>1, <1>2, <1>3, SameOwed
<1>4. CASE c = cur /\ rows'[c] = rows[c] + 1
  <2>1. Owed(c)' + 1 <= Owed(c)
      BY <1>2, <1>4 DEF Owed, One
  <2> QED  BY <1>1, <1>4, <2>1 DEF NoDebt
<1> QED  BY <1>3, <1>4 DEF CloseRecord, TypeOK

(* A crash forgets debts: a tracker on disk whose position is gone was an    *)
(* orphan, or about to be dropped, or of the close just filled.              *)
LEMMA PaidCrash ==
    ASSUME TypeOK, Steady, Crash, NEW c \in Coins
    PROVE  NoDebt(c)
<1>1. /\ pc' = "heartbeat" /\ stale' = {} /\ UNCHANGED <<pos, closes, rows, disk>>
    BY DEF Crash, exchange
<1>2. ~Dropped(c)' /\ ~Filled(c)'
    BY <1>1 DEF Dropped, Filled
<1>3. ASSUME Orphan(c)'
      PROVE  Dropped(c) \/ Orphan(c) \/ Filled(c)
  <2>1. PICK s \in Sides : pos[c] # s /\ Held(c, s)
      BY <1>1, <1>3 DEF Orphan, Watches, Held
  <2>2. CASE pc \in {"kill", "rehydrate"}
      BY <2>1, <2>2 DEF Dropped, Orphan, Watches
  <2>3. CASE pc = "settle" /\ cur = c
      BY <2>1, <2>3 DEF Filled, Orphan, Watches
  <2>4. ~(pc = "register" /\ cur = c)
      BY <2>1 DEF Steady, InHand
  <2>5. CASE pc \notin {"kill", "rehydrate"} /\ ~(pc = "settle" /\ cur = c)
      BY <2>1, <2>4, <2>5 DEF Orphan, Watches
  <2> QED  BY <2>2, <2>3, <2>5
<1>4. Owed(c)' <= Owed(c)
    BY <1>2, <1>3 DEF Owed, One
<1> QED  BY <1>1, <1>4 DEF NoDebt

LEMMA PaidManualOpen ==
    ASSUME TypeOK, ManualOpen, NEW c \in Coins
    PROVE  NoDebt(c)
<1>1. UNCHANGED <<rows, closes, stale, disk, snap, queried, cur, side, pc>>
    BY DEF ManualOpen, Opens, work, view, trackers
<1>2. pos'[c] = pos[c] \/ pos[c] = Flat
    BY DEF ManualOpen, Opens, TypeOK
<1>3. \A s \in Sides : pos'[c] # s => pos[c] # s
    BY <1>2, LifecycleAssumption DEF LifecycleAssumption
<1>4. (Dropped(c)' => Dropped(c)) /\ (Filled(c)' => Filled(c)) /\ (Orphan(c)' => Orphan(c))
    BY <1>1, <1>3 DEF Dropped, Filled, Held, Orphan, Watches
<1> QED  BY <1>1, <1>4, SameOwed

LEMMA PaidInvariant ==
    ASSUME OneReader
    PROVE  Spec => []Paid
<1>1. Init => Paid
    BY DEF Init, Paid, Owed, One, Dropped, Orphan, Filled, Watches, Held, Empty
<1>2. TypeOK /\ TypeOK' /\ Steady /\ Paid /\ [Next]_vars => Paid'
  <2> SUFFICES ASSUME TypeOK, TypeOK', Steady, Paid, [Next]_vars PROVE Paid'
      OBVIOUS
  <2> USE DEF exchange, work, view, trackers
  <2>0. ret \in {"heartbeat", "scan", "verdict"}
      BY DEF Steady, InHand, Paid
  <2>1. CASE Heartbeat
      BY <2>0, <2>1, PaidHeartbeat, NoDebtPaid DEF Heartbeat
  <2>2. CASE KillSwitch
    <3>1. /\ pc = "kill" /\ pc' = "rehydrate" /\ UNCHANGED <<todo, ret>>
          /\ UNCHANGED <<exchange, view, cur, side, stale, trackers, crashes, rows, mcp, due>>
        BY <2>2 DEF KillSwitch, OneReader
    <3>2. ASSUME NEW c \in Coins PROVE NoDebt(c)
      <4>1. /\ Dropped(c)' <=> Dropped(c)
            /\ Filled(c)' <=> Filled(c)
            /\ Orphan(c)' <=> Orphan(c)
          BY <3>1 DEF Dropped, Filled, Held, Orphan, Watches
      <4> QED  BY <3>1, <4>1, SameOwed
    <3> QED  BY <2>0, <3>1, <3>2, NoDebtPaid
  <2>3. CASE Rehydrate
      BY <2>0, <2>3, PaidRehydrate, NoDebtPaid DEF Rehydrate
  <2>4. CASE RecordExternal
      BY <2>0, <2>4, PaidExternal, NoDebtPaid DEF RecordExternal
  <2>5. ASSUME pc \in Plain, pc' \in Plain \ {"record"}, ret' # "rehydrate",
               UNCHANGED <<pos, stale, rows, closes>>,
               \A c \in Coins : \A s \in Sides : Held(c, s)' => Held(c, s)
        PROVE  Paid'
      BY <2>5, PlainOwed, NoDebtPaid
  <2>6. CASE MonitorExits
      BY <2>5, <2>6 DEF MonitorExits, Plain, Held
  <2>7. CASE Scan
      BY <2>0, <2>5, <2>7 DEF Scan, Plain, Held
  <2>8. CASE Books
      BY <2>0, <2>5, <2>8 DEF Books, Plain, Held
  <2>9. CASE Enter
      BY <2>0, <2>9, PaidEnter, NoDebtPaid DEF Enter
  <2>10. CASE Register
      BY <2>0, <2>10, PaidRegister, NoDebtPaid DEF Register
  <2>11. CASE Review
      BY <2>5, <2>11 DEF Review, Plain, Held
  <2>12. CASE CloseRead
    <3>1. \A c \in Coins : \A s \in Sides : Held(c, s)' => Held(c, s)
      <4>1. ASSUME NEW c \in Coins, Untracks(c, Sides)
            PROVE  \A x \in Coins : \A s \in Sides : Held(x, s)' => Held(x, s)
          BY <4>1 DEF Untracks, Held
      <4>2. ASSUME disk' = disk
            PROVE  \A x \in Coins : \A s \in Sides : Held(x, s)' => Held(x, s)
          BY <4>2 DEF Held
      <4>3. Mirrored /\ todo \subseteq Coins
          BY DEF Steady, TypeOK
      <4> QED  BY <2>12, <4>1, <4>2, <4>3, CloseReadIs
    <3>2. pc = "close" /\ pc' \in {"close", "order", ret} /\ ret' = ret
          /\ UNCHANGED <<pos, stale, rows, closes>>
        BY <2>12 DEF CloseRead
    <3> QED  BY <2>0, <2>5, <3>1, <3>2 DEF Plain
  <2>13. CASE CloseOrder
      BY <2>0, <2>13, PaidOrder, NoDebtPaid DEF CloseOrder
  <2>14. CASE CloseSettle
      BY <2>0, <2>14, PaidSettle, NoDebtPaid DEF CloseSettle
  <2>15. CASE CloseRecord
      BY <2>0, <2>15, PaidRecord, NoDebtPaid DEF CloseRecord
  <2>16. CASE StopFill
      BY <2>0, <2>16, PaidCloses, NoDebtPaid DEF StopFill
  <2>17. CASE ManualOpen
      BY <2>0, <2>17, PaidManualOpen, NoDebtPaid DEF ManualOpen
  <2>18. ~McpExecute /\ ~McpClose
      BY DEF McpExecute, McpClose, OneReader
  <2>19. CASE Crash
      BY <2>19, PaidCrash, NoDebtPaid DEF Crash
  <2>20. CASE UNCHANGED vars
    <3>1. ASSUME NEW c \in Coins PROVE Owed(c)' = Owed(c)
        BY <2>20 DEF vars, Owed, Dropped, Filled, Held, Orphan, Watches
    <3> QED  BY <2>20, <3>1 DEF vars, Paid
  <2>21. CASE Verdict
      BY <2>0, <2>5, <2>21, VerdictIs DEF Plain, Held
  <2> QED
      BY <2>1, <2>2, <2>3, <2>4, <2>6, <2>7, <2>8, <2>9, <2>10, <2>11, <2>12,
         <2>13, <2>14, <2>15, <2>16, <2>17, <2>18, <2>19, <2>20, <2>21
      DEF Next, LoopStep, Environment
<1>3. Spec => []Steady
    BY SteadyInvariant DEF OneReader
<1> QED  BY <1>1, <1>2, <1>3, TypeCorrect, PTL DEF Spec

(* The outcome store never holds more closes of a coin than the exchange saw: *)
(* over stops, manual trades, gaps of the HIP-3 reads and of the close-time   *)
(* read, rejected, lost and partial fills and crashes, no row is without its  *)
(* close.                                                                     *)
THEOREM RowsAreCloses ==
    ASSUME OneReader
    PROVE  Spec => []NoPhantomClose
<1>1. TypeOK /\ Paid => NoPhantomClose
  <2> SUFFICES ASSUME TypeOK, Paid, NEW c \in Coins PROVE rows[c] <= closes[c]
      BY DEF NoPhantomClose
  <2>1. rows[c] \in Nat /\ closes[c] \in Nat /\ Owed(c) \in Nat
      BY OwedType DEF TypeOK
  <2> QED  BY <2>1 DEF Paid
<1>2. Spec => []Paid
    BY PaidInvariant
<1> QED  BY <1>1, <1>2, TypeCorrect, PTL

---------------------------------------------------------------------------
(* The faults under which every close finds its way into the outcome store:   *)
(* nobody but the loop closes positions, answers arrive and carry a price, and *)
(* the process lives.  Manual positions do no harm while they cannot be on the *)
(* other side of an entry: the entry that nets against one closes it unseen.   *)
LoopCloses ==
    /\ Events \subseteq {"heartbeat_gap", "close_gap", "reject", "partial_fill", "manual_open"}
    /\ "manual_open" \in Events => \E s : Sides = {s}

(* The other half of the account: a close lacks its row only while the loop is *)
(* on its way from the answer to record_close.                                 *)
Credited ==
    /\ pc = "enter" => pos[cur] \in {Flat, side}
    /\ \A c \in Coins : closes[c] <= rows[c] + One(Filled(c))

(* A step that closes nothing, takes no row away and ends no settlement. *)
LEMMA CreditedKept ==
    ASSUME TypeOK, Credited, UNCHANGED <<rows, closes>>, pc' # "enter",
           \A c \in Coins : Filled(c) => Filled(c)'
    PROVE  Credited'
<1>1. ASSUME NEW c \in Coins PROVE closes'[c] <= rows'[c] + One(Filled(c)')
  <2>1. closes[c] <= rows[c] + One(Filled(c)) /\ closes[c] \in Nat /\ rows[c] \in Nat
      BY DEF Credited, TypeOK
  <2> QED  BY <2>1 DEF One
<1> QED  BY <1>1 DEF Credited

LEMMA CreditedOrder ==
    ASSUME TypeOK, LoopCloses, Steady, Credited, CloseOrder
    PROVE  Credited'
<1>1. /\ pc = "order" /\ pc' \in {"settle", "close"} /\ cur \in Coins
      /\ UNCHANGED <<rows, cur>>
    BY DEF CloseOrder, Steady, InHand
<1>2. \A c \in Coins : ~Filled(c)
    BY <1>1 DEF Filled
<1>3. CASE closes' = closes
    BY <1>1, <1>2, <1>3, CreditedKept
<1>4. CASE pc' = "settle" /\ closes' = [closes EXCEPT ![cur] = @ + 1]
  <2>1. ASSUME NEW c \in Coins PROVE closes'[c] <= rows'[c] + One(Filled(c)')
    <3>1. closes[c] <= rows[c] /\ closes[c] \in Nat /\ rows[c] \in Nat
        BY <1>2 DEF Credited, One, TypeOK
    <3>2. CASE c = cur
        BY <1>1, <1>4, <3>1, <3>2 DEF Filled, One, TypeOK
    <3>3. CASE c # cur
        BY <1>1, <1>4, <3>1, <3>3 DEF Filled, One, TypeOK
    <3> QED  BY <3>2, <3>3
  <2> QED  BY <1>4, <2>1 DEF Credited
<1> QED  BY <1>3, <1>4 DEF CloseOrder, Closes, LoopCloses, exchange

LEMMA CreditedRecord ==
    ASSUME TypeOK, LoopCloses, Credited, CloseRecord
    PROVE  Credited'
<1>1. /\ pc = "record" /\ pc' = "close" /\ UNCHANGED <<closes, cur>>
      /\ rows' = [rows EXCEPT ![cur] = @ + 1]
    BY DEF CloseRecord, LoopCloses, exchange
<1>2. ASSUME NEW c \in Coins PROVE closes'[c] <= rows'[c] + One(Filled(c)')
  <2>1. closes[c] <= rows[c] + One(Filled(c)) /\ closes[c] \in Nat /\ rows[c] \in Nat
      BY DEF Credited, TypeOK
  <2>2. CASE c = cur
      BY <1>1, <2>1, <2>2 DEF Filled, One, TypeOK
  <2>3. CASE c # cur
      BY <1>1, <2>1, <2>3 DEF Filled, One, TypeOK
  <2> QED  BY <2>2, <2>3
<1> QED  BY <1>1, <1>2 DEF Credited

(* Once a coin is flat and untracked, with no settlement of it under way, the *)
(* outcome store has a row for every close of it: win rate and daily loss are *)
(* computed from all of them.                                                 *)
THEOREM ClosesAreRows ==
    ASSUME LoopCloses
    PROVE  Spec => []EveryCloseRecorded
<1>1. Init => Credited
    BY DEF Init, Credited, One, Filled
<1>2. TypeOK /\ Steady /\ Credited /\ [Next]_vars => Credited'
  <2> SUFFICES ASSUME TypeOK, Steady, Credited, [Next]_vars PROVE Credited'
      OBVIOUS
  <2> USE DEF exchange, work, view, trackers
  <2>0. ret \in {"heartbeat", "rehydrate", "scan", "verdict"}
      BY DEF Steady, InHand
  <2>1. ASSUME UNCHANGED <<rows, closes>>, pc' # "enter", pc \notin {"settle", "record"}
        PROVE  Credited'
      BY <2>1, CreditedKept DEF Filled
  <2>2. CASE Heartbeat
      BY <2>1, <2>2 DEF Heartbeat
  <2>3. CASE KillSwitch
      BY <2>1, <2>3 DEF KillSwitch
  <2>4. CASE Rehydrate
      BY <2>1, <2>4 DEF Rehydrate
  <2>5. CASE RecordExternal
    <3>1. UNCHANGED closes /\ pc' # "enter" /\ \A c \in Coins : rows'[c] >= rows[c]
        BY <2>5 DEF RecordExternal, TypeOK
    <3>2. \A c \in Coins : ~Filled(c) /\ ~Filled(c)'
        BY <2>5 DEF RecordExternal, Filled
    <3>3. \A c \in Coins : rows[c] \in Nat /\ closes[c] \in Nat /\ rows'[c] \in Nat
        BY <2>5 DEF RecordExternal, TypeOK
    <3> QED  BY <3>1, <3>2, <3>3 DEF Credited, One
  <2>6. CASE MonitorExits
      BY <2>1, <2>6 DEF MonitorExits
  <2>7. CASE Scan
      BY <2>1, <2>7 DEF Scan
  <2>8. CASE Books
    <3>1. UNCHANGED <<pos, rows, closes>> /\ pc = "books"
        BY <2>8 DEF Books
    <3>2. CASE pc' = "enter"
      <4>1. PICK c \in todo, A \in Answers("close_gap") : MayEnter(c, A) /\ cur' = c
          BY <2>8, <3>2 DEF Books
      <4>2. pos'[cur'] = Flat
          BY <3>1, <4>1 DEF MayEnter, View, TypeOK
      <4>3. \A x \in Coins : ~Filled(x) /\ ~Filled(x)'
          BY <3>1, <3>2 DEF Filled
      <4> QED  BY <3>1, <4>2, <4>3 DEF Credited, One
    <3> QED  BY <2>1, <3>1, <3>2
  <2>9. CASE Enter
    <3>1. pos[cur] \in {Flat, side} /\ pc = "enter" /\ pc' # "enter" /\ rows' = rows
        BY <2>9 DEF Enter, AfterEntry, Credited
    <3>2. closes' = closes
        BY <2>9, <3>1 DEF Enter, FillsEntry, Opens
    <3> QED  BY <2>1, <3>1, <3>2
  <2>10. CASE Register
      BY <2>1, <2>10 DEF Register, AfterEntry
  <2>11. CASE Review
      BY <2>1, <2>11 DEF Review
  <2>12. CASE CloseRead
      BY <2>0, <2>1, <2>12 DEF CloseRead
  <2>13. CASE CloseOrder
      BY <2>13, CreditedOrder
  <2>14. CASE CloseSettle
      BY <2>14, CreditedKept DEF CloseSettle, Filled
  <2>15. CASE CloseRecord
      BY <2>15, CreditedRecord
  <2>16. CASE ManualOpen
    <3>1. UNCHANGED <<pc, cur, side, rows, closes>>
        BY <2>16 DEF ManualOpen, Opens
    <3>2. PICK c \in Coins, s \in Sides : pos' = [pos EXCEPT ![c] = s]
        BY <2>16 DEF ManualOpen, Opens
    <3>3. PICK t : Sides = {t}
        BY <2>16 DEF ManualOpen, LoopCloses
    <3>4. pc = "enter" => cur \in Coins /\ side = s
        BY <3>3 DEF Steady, InHand
    <3>5. pc' = "enter" => pos'[cur'] \in {Flat, side'}
        BY <3>1, <3>2, <3>4 DEF Credited, TypeOK
    <3> QED  BY <3>1, <3>5 DEF Credited, Filled
  <2>17. ~StopFill /\ ~McpExecute /\ ~McpClose /\ ~Crash
      BY DEF StopFill, McpExecute, McpClose, Crash, LoopCloses
  <2>18. CASE UNCHANGED vars
      BY <2>18 DEF vars, Credited, Filled
  <2>19. CASE Verdict
    <3>1. UNCHANGED <<pos, rows, closes>> /\ pc = "verdict"
        BY <2>19, VerdictIs
    <3>2. CASE pc' = "enter"
      <4>1. pos'[cur'] = Flat
          BY <2>19, <3>1, <3>2, VerdictIs
      <4>2. \A x \in Coins : ~Filled(x) /\ ~Filled(x)'
          BY <3>1, <3>2 DEF Filled
      <4> QED  BY <3>1, <4>1, <4>2 DEF Credited, One
    <3> QED  BY <2>1, <3>1, <3>2
  <2> QED
      BY <2>2, <2>3, <2>4, <2>5, <2>6, <2>7, <2>8, <2>9, <2>10, <2>11, <2>12,
         <2>13, <2>14, <2>15, <2>16, <2>17, <2>18, <2>19
      DEF Next, LoopStep, Environment
<1>3. TypeOK /\ NoPhantomClose /\ Credited => EveryCloseRecorded
  <2> SUFFICES ASSUME TypeOK, NoPhantomClose, Credited, NEW c \in Coins, Settled(c)
               PROVE  rows[c] = closes[c]
      BY DEF EveryCloseRecorded
  <2>1. ~Filled(c)
      BY DEF Settled, Filled
  <2>2. rows[c] \in Nat /\ closes[c] \in Nat
      BY DEF TypeOK
  <2> QED  BY <2>1, <2>2 DEF Credited, NoPhantomClose, One
<1>4. Spec => []NoPhantomClose
    BY RowsAreCloses DEF LoopCloses, OneReader
<1>5. Spec => []Steady
    BY SteadyInvariant DEF LoopCloses
<1> QED  BY <1>1, <1>2, <1>3, <1>4, <1>5, TypeCorrect, PTL DEF Spec
=============================================================================
