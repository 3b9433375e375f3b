------------------------- MODULE EntryMemory_proofs -------------------------
(***************************************************************************)
(* Theorems about EntryMemory, for any analyses and coins, any cooldowns   *)
(* and caps, and any bound on the clock, the entries and the deaths.       *)
(***************************************************************************)
EXTENDS EntryMemory, FiniteSetTheorems, SequenceTheorems, TLAPS

\* What a process has in hand is there to be had.
InHand ==
    /\ \A p \in Procs : pc[p] \in {"order", "note", "context"} => cur[p] \in Analyses
    /\ pc[Server] \notin {"pop", "row", "arm"}
    /\ pc[Loop] \in {"pop", "row", "arm"} => ending.coin \in Coins

\* Entries are numbered as they fill, and an order under way still fits the bound.
Numbered ==
    /\ IsFiniteSet(fills)
    /\ \A f \in fills : f.n <= Cardinality(fills) /\ f.at <= now
    /\ \A f, g \in fills : f.n = g.n => f = g
    /\ Cardinality(fills) <= MaxEntries + 1
    /\ \A p \in Procs : pc[p] = "order" => Cardinality(fills) <= MaxEntries
    /\ (\A p \in Procs : pc[p] = "order") => Cardinality(fills) < MaxEntries
\* An entry is in a list of trades: its analysis, and no earlier than it filled.
Listed(f, s) == \E i \in DOMAIN s : s[i].a = f.a /\ s[i].at >= f.at

\* An analysis is in a list of trades once.
Single(s) == \A i, j \in DOMAIN s : s[i].a = s[j].a => i = j

\* A memory holds no more trades than n, and has room for the one to be noted.
Fits(m, where, n) == Len(m.trades) <= n /\ (where = "note" => Len(m.trades) < n)

\* A process that has an order under way, or just filled, has not traded the analysis
\* yet; no list names an analysis twice; and there are no more trades than entries.
ListsInv ==
    /\ \A p \in Procs : pc[p] \in {"order", "note"} => ~Executed(p, cur[p])
    /\ \A p \in Procs : Single(mem[p].trades)
    /\ Single(disk.trades)
    /\ Len(disk.trades) <= Cardinality(fills)
    /\ \A p \in Procs : Fits(mem[p], pc[p], Cardinality(fills))

\* The running loop knows every trade that is in its file.
FileIsKnown ==
    pc[Loop] # "down" =>
        \A i \in DOMAIN disk.trades : \E j \in DOMAIN mem[Loop].trades :
            mem[Loop].trades[j] = disk.trades[i]

\* An entry that is not lost is among the trades of its process, or about to be
\* noted there; while the loop is down it is in the file.
KnownInv ==
    \A f \in fills : ~f.lost =>
        IF pc[f.by] = "down"
        THEN f.by = Loop /\ Listed(f, disk.trades)
        ELSE \/ Listed(f, mem[f.by].trades)
             \/ pc[f.by] = "note" /\ cur[f.by] = f.a

\* When the loop orders there is room under the cap, for every later time too.
Within(c, t) == {f \in fills : f.by = Loop /\ CoinOf[f.a] = c /\ ~f.lost /\ f.at <= t /\ f.at >= t - Window}
RoomInv ==
    Cap > 0 /\ pc[Loop] = "order" => Cardinality(Within(CoinOf[cur[Loop]], now)) < Cap

\* The block of a recorded loss is in the memory and in the file, unless it is over
\* or about to be set; the loop orders once it is over.
OverAt(c)  == now >= lossAt[c] + LossCooldown
InForce(c) == /\ disk.until[c] >= lossAt[c] + LossCooldown
              /\ pc[Loop] # "down" => mem[Loop].until[c] >= lossAt[c] + LossCooldown
LossPast   == \A c \in Coins : lossAt[c] <= now
Stands     == \A c \in Coins : lossAt[c] # Never =>
                 OverAt(c) \/ InForce(c) \/ (pc[Loop] = "arm" /\ ending.coin = c)
OrderFree  == pc[Loop] = "order" /\ lossAt[CoinOf[cur[Loop]]] # Never => OverAt(CoinOf[cur[Loop]])
BlockInv   == LossPast /\ Stands /\ OrderFree

\* The context in the memory is the one in the file, and that of a position that is
\* still to be closed, or of the one being closed, unless a row was skipped.
SameInFile   == pc[Loop] # "down" => mem[Loop].ctx = disk.ctx
HeldOrGone   == \A c \in Coins : pos[c] = {} \/ gone[c] = {}
Closing(c)   == pc[Loop] = "pop" /\ ending.coin = c
OfPosition   == \A c \in Coins : ~skipped[c] =>
                   disk.ctx[c] \in {None} \cup IF Closing(c) THEN ending.was ELSE pos[c] \cup gone[c]
EnteredIsSeen == pc[Loop] \in {"note", "context"} =>
                    LET c == CoinOf[cur[Loop]] IN skipped[c] \/ cur[Loop] \in pos[c] \cup gone[c]
RowIsRight   == pc[Loop] = "row" /\ ~skipped[ending.coin] => ending.ctx \in {None} \cup ending.was
ContextInv   == SameInFile /\ HeldOrGone /\ OfPosition /\ EnteredIsSeen /\ RowIsRight
---------------------------------------------------------------------------
(* Constants, and what a write makes of a memory.                          *)

LEMMA Constants ==
    /\ None \notin Analyses /\ None \notin Procs
    /\ \A a \in Analyses : CoinOf[a] \in Coins
    /\ Cooldown \in Nat /\ LossCooldown \in Nat /\ Window \in Nat /\ Cap \in Nat
    /\ MaxTime \in Nat /\ MaxEntries \in Nat /\ MaxCrashes \in Nat
    /\ MaxTrades \in Nat \ {0} /\ Recent \in Nat \ {0}
    /\ Loop \in Procs /\ Server \in Procs /\ Loop # Server
    /\ \A p \in Procs : p = Loop \/ p = Server
<1>1. None \notin Procs /\ Loop # Server
    BY DEF None, Procs, Loop, Server
<1>2. \A a \in Analyses : CoinOf[a] \in Coins
    BY DEF Coins
<1> QED  BY <1>1, <1>2, EntryAssumption DEF EntryAssumption, Procs

Trade  == [a : Analyses, at : Times]
Untils == [Coins -> 0 .. MaxTime + LossCooldown]

\* A memory by its three fields.
LEMMA MemoryParts ==
    ASSUME NEW m \in Memory
    PROVE  /\ m.trades \in Seq(Trade) /\ Len(m.trades) \in Nat
           /\ DOMAIN m.trades = 1 .. Len(m.trades)
           /\ \A i \in DOMAIN m.trades : m.trades[i] \in Trade /\ m.trades[i].a \in Analyses
                                                              /\ m.trades[i].at \in Times
           /\ m.ctx \in [Coins -> Analyses \cup {None}]
           /\ m.until \in Untils
<1>1. m.trades \in Seq(Trade)
    BY DEF Memory, Trade
<1>2. Len(m.trades) \in Nat /\ DOMAIN m.trades = 1 .. Len(m.trades)
    BY <1>1
<1>3. \A i \in DOMAIN m.trades : m.trades[i] \in Trade
    BY <1>1, <1>2
<1>4. m.ctx \in [Coins -> Analyses \cup {None}] /\ m.until \in Untils
    BY DEF Memory, Untils
<1> QED  BY <1>1, <1>2, <1>3, <1>4 DEF Trade

LEMMA MemoryMade ==
    ASSUME NEW t \in Seq(Trade), NEW x \in [Coins -> Analyses \cup {None}], NEW u \in Untils
    PROVE  [trades |-> t, ctx |-> x, until |-> u] \in Memory
    BY DEF Memory, Trade, Untils

LEMMA FreshIs ==
    /\ Fresh \in Memory /\ Fresh.trades = <<>>
    /\ \A c \in Coins : Fresh.ctx[c] = None /\ Fresh.until[c] = 0
<1>1. [c \in Coins |-> 0] \in Untils
    BY Constants DEF Untils
<1>2. <<>> \in Seq(Trade) /\ [c \in Coins |-> None] \in [Coins -> Analyses \cup {None}]
    OBVIOUS
<1>3. Fresh \in Memory
    BY <1>1, <1>2, MemoryMade DEF Fresh
<1> QED  BY <1>3 DEF Fresh

LEMMA NotedIs ==
    ASSUME NEW m \in Memory, NEW a \in Analyses, now \in Times, Len(m.trades) <= MaxTrades
    PROVE  /\ Noted(m, a) \in Memory
           /\ Len(Noted(m, a).trades) <= MaxTrades
           /\ Noted(m, a).ctx = m.ctx /\ Noted(m, a).until = m.until
           /\ Len(m.trades) < MaxTrades =>
                 Noted(m, a).trades = Append(m.trades, [a |-> a, at |-> now])
<1> DEFINE e == [a |-> a, at |-> now]
           t == Append(m.trades, e)
           s == IF Len(t) > MaxTrades THEN Tail(t) ELSE t
<1>1. m.trades \in Seq(Trade) /\ e \in Trade /\ m.ctx \in [Coins -> Analyses \cup {None}] /\ m.until \in Untils
    BY MemoryParts DEF Trade
<1>2. t \in Seq(Trade) /\ Len(t) = Len(m.trades) + 1
    BY <1>1
<1>3. s \in Seq(Trade) /\ Len(s) <= MaxTrades /\ (Len(m.trades) < MaxTrades => s = t)
  <2>1. CASE Len(t) > MaxTrades
    <3>1. Tail(t) \in Seq(Trade) /\ Len(Tail(t)) = Len(t) - 1
        BY <1>2, <2>1, Constants, HeadTailProperties
    <3> QED  BY <1>1, <1>2, <2>1, <3>1, Constants
  <2>2. CASE ~(Len(t) > MaxTrades)
      BY <1>1, <1>2, <2>2, Constants
  <2> QED  BY <2>1, <2>2
<1>4. Noted(m, a) = [m EXCEPT !.trades = s]
    BY DEF Noted
<1>5. Noted(m, a) = [trades |-> s, ctx |-> m.ctx, until |-> m.until]
  <2> HIDE DEF s
  <2> QED  BY <1>4 DEF Memory
<1> HIDE DEF s
<1>6. Noted(m, a) \in Memory
    BY <1>1, <1>3, <1>5, MemoryMade
<1> QED  BY <1>3, <1>5, <1>6

\* A memory with one block changed, and with one context changed.
LEMMA UntilIs ==
    ASSUME NEW m \in Memory, NEW c \in Coins, NEW u \in 0 .. MaxTime + LossCooldown
    PROVE  /\ [m EXCEPT !.until[c] = u] \in Memory
           /\ [m EXCEPT !.until[c] = u].trades = m.trades
           /\ [m EXCEPT !.until[c] = u].ctx = m.ctx
           /\ [m EXCEPT !.until[c] = u].until = [m.until EXCEPT ![c] = u]
<1>1. PICK n : n = [m EXCEPT !.until[c] = u]
    OBVIOUS
<1>2. n = [trades |-> m.trades, ctx |-> m.ctx, until |-> [m.until EXCEPT ![c] = u]]
    BY <1>1 DEF Memory
<1>3. [m.until EXCEPT ![c] = u] \in Untils
    BY MemoryParts DEF Untils
<1>4. n \in Memory
    BY <1>2, <1>3, MemoryParts DEF Memory, Trade, Untils
<1> QED  BY <1>1, <1>2, <1>4

LEMMA CtxIs ==
    ASSUME NEW m \in Memory, NEW c \in Coins, NEW a \in Analyses \cup {None}
    PROVE  /\ [m EXCEPT !.ctx[c] = a] \in Memory
           /\ [m EXCEPT !.ctx[c] = a].trades = m.trades
           /\ [m EXCEPT !.ctx[c] = a].until = m.until
           /\ [m EXCEPT !.ctx[c] = a].ctx = [m.ctx EXCEPT ![c] = a]
<1>1. PICK n : n = [m EXCEPT !.ctx[c] = a]
    OBVIOUS
<1>2. n = [trades |-> m.trades, ctx |-> [m.ctx EXCEPT ![c] = a], until |-> m.until]
    BY <1>1 DEF Memory
<1>3. [m.ctx EXCEPT ![c] = a] \in [Coins -> Analyses \cup {None}]
    BY MemoryParts
<1>4. n \in Memory
    BY <1>2, <1>3, MemoryParts DEF Memory, Trade, Untils
<1> QED  BY <1>1, <1>2, <1>4

LEMMA UnblockedIs ==
    ASSUME NEW m \in Memory, NEW c \in Coins
    PROVE  /\ Unblocked(m, c) \in Memory
           /\ Unblocked(m, c).trades = m.trades /\ Unblocked(m, c).ctx = m.ctx
           /\ \A d \in Coins : Unblocked(m, c).until[d] = m.until[d] \/ m.until[d] <= now
<1>1. CASE m.until[c] <= now
  <2>1. Unblocked(m, c) = [m EXCEPT !.until[c] = 0] /\ 0 \in 0 .. MaxTime + LossCooldown
      BY <1>1, Constants DEF Unblocked
  <2>2. /\ Unblocked(m, c) \in Memory
        /\ Unblocked(m, c).trades = m.trades /\ Unblocked(m, c).ctx = m.ctx
        /\ Unblocked(m, c).until = [m.until EXCEPT ![c] = 0]
      BY <2>1, UntilIs
  <2>3. m.until \in Untils
      BY MemoryParts
  <2> QED  BY <1>1, <2>2, <2>3 DEF Untils
<1>2. CASE ~(m.until[c] <= now)
    BY <1>2 DEF Unblocked
<1> QED  BY <1>1, <1>2

LEMMA BlockedIs ==
    ASSUME NEW m \in Memory, NEW c \in Coins, now \in Times
    PROVE  /\ Blocked(m, c) \in Memory
           /\ Blocked(m, c).trades = m.trades /\ Blocked(m, c).ctx = m.ctx
           /\ Blocked(m, c).until = [m.until EXCEPT ![c] = now + LossCooldown]
<1>1. now + LossCooldown \in 0 .. MaxTime + LossCooldown
    BY Constants DEF Times
<1>2. Blocked(m, c) = [m EXCEPT !.until[c] = now + LossCooldown]
    BY DEF Blocked
<1> QED  BY <1>1, <1>2, UntilIs

LEMMA LoadedIs ==
    ASSUME disk \in Memory, now \in Times
    PROVE  /\ Loaded \in Memory
           /\ Loaded.trades = disk.trades /\ Loaded.ctx = disk.ctx
           /\ \A d \in Coins : Loaded.until[d] = disk.until[d] \/ disk.until[d] <= now
<1> DEFINE u == [c \in Coins |-> IF disk.until[c] > now THEN disk.until[c] ELSE 0]
<1>1. disk.until \in Untils /\ now \in Nat
    BY MemoryParts, Constants DEF Times
<1>2. u \in Untils
    BY <1>1, Constants DEF Untils
<1>3. \A d \in Coins : u[d] = disk.until[d] \/ disk.until[d] <= now
    BY <1>1, Constants DEF Untils
<1>4. Loaded = [disk EXCEPT !.until = u]
    BY DEF Loaded
<1> HIDE DEF u
<1>5. Loaded = [trades |-> disk.trades, ctx |-> disk.ctx, until |-> u]
    BY <1>4 DEF Memory
<1>6. Loaded \in Memory
    BY <1>2, <1>5, MemoryParts, MemoryMade
<1> QED  BY <1>3, <1>5, <1>6
---------------------------------------------------------------------------
(* Types.                                                                  *)

MemOK ==
    /\ mem \in [Procs -> Memory] /\ disk \in Memory
    /\ \A p \in Procs : Len(mem[p].trades) <= MaxTrades
    /\ Len(disk.trades) <= MaxTrades

LEMMA WriteType ==
    ASSUME MemOK, NEW p \in Procs, NEW m \in Memory, Len(m.trades) <= MaxTrades,
           NEW flush \in BOOLEAN, Write(p, m, flush)
    PROVE  MemOK'
    BY DEF MemOK, Write

LEMMA MemStep ==
    ASSUME TypeOK, InHand, Next
    PROVE  MemOK'
<1> USE Constants
<1>0. MemOK /\ now \in Times
    BY DEF TypeOK, MemOK
<1>a. /\ \A p \in Procs : pc[p] \in {"order", "note", "context"} => cur[p] \in Analyses
      /\ pc[Loop] \in {"pop", "row", "arm"} => ending.coin \in Coins
    BY DEF InHand
<1>b. \A p \in Procs : mem[p] \in Memory /\ Len(mem[p].trades) <= MaxTrades
    BY <1>0 DEF MemOK
<1>1. ASSUME NEW p \in Procs, NEW a \in Analyses, Attempt(p, a) PROVE MemOK'
    BY <1>0, <1>b, <1>1, UnblockedIs, WriteType DEF Attempt
<1>2. ASSUME NEW p \in Procs, Note(p) PROVE MemOK'
    BY <1>0, <1>a, <1>b, <1>2, NotedIs, WriteType DEF Note
<1>3. ASSUME NEW p \in Procs, Context(p) PROVE MemOK'
  <2> DEFINE m == [mem[p] EXCEPT !.ctx[CoinOf[cur[p]]] = cur[p]]
  <2>1. cur[p] \in Analyses /\ mem[p] \in Memory
      BY <1>a, <1>b, <1>3 DEF Context
  <2>2. m \in Memory /\ m.trades = mem[p].trades
      BY <2>1, CtxIs
  <2>3. Write(p, m, TRUE)
      BY <1>3 DEF Context
  <2> HIDE DEF m
  <2> QED  BY <1>0, <1>b, <2>2, <2>3, WriteType
<1>4. CASE Pop
  <2>1. Popped(mem[Loop], ending.coin) \in Memory /\ Len(Popped(mem[Loop], ending.coin).trades) <= MaxTrades
      BY <1>a, <1>b, <1>4, CtxIs DEF Pop, Popped
  <2>2. (mem[Loop].ctx[ending.coin] # None) \in BOOLEAN
      OBVIOUS
  <2> QED  BY <1>0, <1>4, <2>1, <2>2, WriteType DEF Pop
<1>5. CASE RecordClose
    BY <1>0, <1>b, <1>5, WriteType DEF RecordClose
<1>6. CASE Arm
  <2> DEFINE m == Blocked(mem[Loop], ending.coin)
  <2>1. m \in Memory /\ m.trades = mem[Loop].trades
      BY <1>0, <1>a, <1>b, <1>6, BlockedIs DEF Arm
  <2>2. Write(Loop, m, TRUE)
      BY <1>6 DEF Arm
  <2> HIDE DEF m
  <2> QED  BY <1>0, <1>b, <2>1, <2>2, WriteType
<1>7. CASE Heartbeat
    BY <1>0, <1>b, <1>7, WriteType DEF Heartbeat
<1>8. ASSUME NEW p \in Procs, Crash(p) PROVE MemOK'
  <2>1. Len(Fresh.trades) <= MaxTrades
      BY FreshIs
  <2> QED  BY <1>0, <1>8, <2>1, FreshIs DEF Crash, MemOK
<1>9. ASSUME NEW p \in Procs, Boot(p) PROVE MemOK'
    BY <1>0, <1>9, LoadedIs DEF Boot, MemOK
<1>10. ASSUME UNCHANGED <<mem, disk>> PROVE MemOK'
    BY <1>0, <1>10 DEF MemOK
<1>11. CASE Tick
    BY <1>10, <1>11 DEF Tick
<1>12. ASSUME NEW c \in Coins, Close(c) \/ ExternalClose(c) \/ AlreadyFlat(c) \/ Vanish(c) PROVE MemOK'
    BY <1>10, <1>12 DEF Close, ExternalClose, AlreadyFlat, Vanish
<1>13. ASSUME NEW p \in Procs, Order(p) \/ Rejected(p) PROVE MemOK'
    BY <1>10, <1>13 DEF Order, Rejected
<1> QED  BY <1>1, <1>2, <1>3, <1>4, <1>5, <1>6, <1>7, <1>8, <1>9, <1>11, <1>12, <1>13 DEF Next

\* A death only marks entries lost.
LEMMA CrashKeeps ==
    ASSUME TypeOK, Numbered, NEW p \in Procs, Crash(p)
    PROVE  /\ IsFiniteSet(fills') /\ Cardinality(fills') = Cardinality(fills)
           /\ fills' \subseteq Entries
           /\ \A g \in fills' : \E f \in fills :
                 /\ g.n = f.n /\ g.a = f.a /\ g.by = f.by /\ g.at = f.at
                 /\ ~g.lost => /\ g = f /\ ~f.lost
                               /\ f.by = p => /\ p = Loop
                                              /\ \E i \in DOMAIN disk.trades : disk.trades[i].a = f.a
<1> DEFINE kept == {disk.trades[i].a : i \in DOMAIN disk.trades}
           L(f) == f.by = p /\ (p = Server \/ f.a \notin kept)
           G(f) == [f EXCEPT !.lost = @ \/ L(f)]
           h == [f \in fills |-> G(f)]
<1>1. fills' = {G(f) : f \in fills}
    BY DEF Crash
<1>2. \A f \in fills : /\ f \in Entries /\ G(f) \in Entries
                       /\ G(f).n = f.n /\ G(f).a = f.a /\ G(f).by = f.by /\ G(f).at = f.at
                       /\ ~G(f).lost => G(f) = f /\ ~f.lost /\ ~L(f)
  <2> SUFFICES ASSUME NEW f \in fills
               PROVE  /\ f \in Entries /\ G(f) \in Entries
                      /\ G(f).n = f.n /\ G(f).a = f.a /\ G(f).by = f.by /\ G(f).at = f.at
                      /\ ~G(f).lost => G(f) = f /\ ~f.lost /\ ~L(f)
      OBVIOUS
  <2>1. f \in Entries
      BY DEF TypeOK
  <2>2. CASE f.lost \/ L(f)
    <3>1. G(f) = [f EXCEPT !.lost = TRUE]
        BY <2>1, <2>2 DEF Entries
    <3> QED  BY <2>1, <3>1 DEF Entries
  <2>3. CASE ~(f.lost \/ L(f))
    <3>1. G(f) = f
        BY <2>1, <2>3 DEF Entries
    <3> QED  BY <2>1, <2>3, <3>1
  <2> QED  BY <2>2, <2>3
<1>3. h \in Bijection(fills, fills')
  <2>1. h \in [fills -> fills'] /\ \A g \in fills' : \E f \in fills : h[f] = g
      BY <1>1
  <2>2. \A f, g \in fills : G(f) = G(g) => f = g
    <3>1. \A f, g \in fills : G(f) = G(g) => f.n = g.n
      <4> HIDE DEF G
      <4> QED  BY <1>2
    <3> QED  BY <3>1 DEF Numbered
  <2>3. \A f \in fills : h[f] = G(f)
      OBVIOUS
  <2> HIDE DEF G, h
  <2>4. \A f, g \in fills : h[f] = h[g] => f = g
      BY <2>2, <2>3
  <2> QED  BY <2>1, <2>4 DEF Bijection, Injection, Surjection, IsInjective
<1>4. IsFiniteSet(fills') /\ Cardinality(fills') = Cardinality(fills)
  <2> HIDE DEF h
  <2> QED  BY <1>3, FS_Bijection DEF Numbered, ExistsBijection
<1>5. \A f \in fills : ~L(f) /\ f.by = p => /\ p = Loop
                                            /\ \E i \in DOMAIN disk.trades : disk.trades[i].a = f.a
    BY Constants
<1> HIDE DEF G, L
<1>6. fills' \subseteq Entries
    BY <1>1, <1>2
<1>7. ASSUME NEW g \in fills'
      PROVE  \E f \in fills :
                 /\ g.n = f.n /\ g.a = f.a /\ g.by = f.by /\ g.at = f.at
                 /\ ~g.lost => /\ g = f /\ ~f.lost
                               /\ f.by = p => /\ p = Loop
                                              /\ \E i \in DOMAIN disk.trades : disk.trades[i].a = f.a
  <2>1. PICK f \in fills : g = G(f)
      BY <1>1
  <2> QED  BY <1>2, <1>5, <2>1
<1> QED  BY <1>4, <1>6, <1>7

\* A fill takes the next number.
LEMMA FillIs ==
    ASSUME TypeOK, InHand, Numbered, NEW p \in Procs, pc[p] = "order", NEW lost \in BOOLEAN
    PROVE  /\ Cardinality(fills) \in Nat
           /\ Fill(p, lost) \in Entries /\ Fill(p, lost) \notin fills
           /\ Fill(p, lost).n = Cardinality(fills) + 1 /\ Fill(p, lost).a = cur[p]
           /\ Fill(p, lost).by = p /\ Fill(p, lost).at = now /\ Fill(p, lost).lost = lost
           /\ IsFiniteSet(fills \cup {Fill(p, lost)})
           /\ Cardinality(fills \cup {Fill(p, lost)}) = Cardinality(fills) + 1
<1>1. Cardinality(fills) \in Nat
    BY FS_CardinalityType DEF Numbered
<1>2. cur[p] \in Analyses /\ now \in Times /\ Cardinality(fills) <= MaxEntries
    BY DEF InHand, TypeOK, Numbered
<1>3. Fill(p, lost) \in Entries
    BY <1>1, <1>2, Constants DEF Fill, Entries
<1>4. Fill(p, lost) \notin fills
  <2>1. Fill(p, lost).n = Cardinality(fills) + 1
      BY DEF Fill
  <2> QED  BY <1>1, <2>1 DEF Numbered
<1> QED  BY <1>1, <1>3, <1>4, FS_AddElement DEF Fill, Numbered

RestOK ==
    /\ now \in Times
    /\ pos \in [Coins -> SUBSET Analyses] /\ gone \in [Coins -> SUBSET Analyses]
    /\ pc \in [Procs -> {"down", "idle", "order", "note", "context", "pop", "row", "arm"}]
    /\ cur \in [Procs -> Analyses \cup {None}]
    /\ ending \in [coin : Coins \cup {None}, was : SUBSET Analyses,
                   ctx : Analyses \cup {None}, loss : BOOLEAN]
    /\ crashes \in 0 .. MaxCrashes
    /\ lossAt \in [Coins -> Times \cup {Never}]
    /\ skipped \in [Coins -> BOOLEAN]

LEMMA RestStep ==
    ASSUME TypeOK, InHand, Next
    PROVE  RestOK'
<1> USE Constants DEF Goto
<1>0. RestOK /\ \A p \in Procs : mem[p].ctx \in [Coins -> Analyses \cup {None}]
    BY MemoryParts DEF TypeOK, RestOK
<1>a. /\ \A p \in Procs : pc[p] \in {"order", "note", "context"} => cur[p] \in Analyses
      /\ pc[Loop] \in {"pop", "row", "arm"} => ending.coin \in Coins
    BY DEF InHand
<1>1. CASE Tick
    BY <1>0, <1>1 DEF Tick, RestOK, Times
<1>2. ASSUME NEW p \in Procs, NEW a \in Analyses, Attempt(p, a) PROVE RestOK'
    BY <1>0, <1>2 DEF Attempt, RestOK
<1>3. ASSUME NEW p \in Procs, Order(p) PROVE RestOK'
  <2>1. skipped' \in [Coins -> BOOLEAN]
      BY <1>0, <1>3 DEF Order, RestOK
  <2>2. pos' \in [Coins -> SUBSET Analyses] /\ gone' \in [Coins -> SUBSET Analyses]
      BY <1>0, <1>a, <1>3 DEF Order, RestOK
  <2>3. /\ pc' \in [Procs -> {"down", "idle", "order", "note", "context", "pop", "row", "arm"}]
        /\ cur' \in [Procs -> Analyses \cup {None}]
      BY <1>0, <1>3 DEF Order, RestOK
  <2> QED  BY <1>0, <1>3, <2>1, <2>2, <2>3 DEF Order, RestOK
<1>4. ASSUME NEW p \in Procs, Rejected(p) \/ Note(p) PROVE RestOK'
    BY <1>0, <1>4 DEF Rejected, Note, RestOK
<1>5. ASSUME NEW p \in Procs, Context(p) PROVE RestOK'
  <2>1. skipped' \in [Coins -> BOOLEAN]
      BY <1>0, <1>5 DEF Context, RestOK
  <2> QED  BY <1>0, <1>5, <2>1 DEF Context, RestOK
<1>6. ASSUME NEW c \in Coins, Close(c) PROVE RestOK'
  <2>1. \A loss \in BOOLEAN :
           [coin |-> c, was |-> pos[c], ctx |-> None, loss |-> loss]
              \in [coin : Coins \cup {None}, was : SUBSET Analyses,
                   ctx : Analyses \cup {None}, loss : BOOLEAN]
      BY <1>0 DEF RestOK
  <2>2. ending' \in [coin : Coins \cup {None}, was : SUBSET Analyses,
                     ctx : Analyses \cup {None}, loss : BOOLEAN]
      BY <1>0, <1>6, <2>1 DEF Close, RestOK
  <2>3. skipped' \in [Coins -> BOOLEAN]
      BY <1>0, <1>6 DEF Close, RestOK
  <2> QED  BY <1>0, <1>6, <2>2, <2>3 DEF Close, RestOK
<1>7. ASSUME NEW c \in Coins, ExternalClose(c) PROVE RestOK'
    BY <1>0, <1>7 DEF ExternalClose, RestOK
<1>8. ASSUME NEW c \in Coins, AlreadyFlat(c) \/ Vanish(c) PROVE RestOK'
    BY <1>0, <1>8 DEF AlreadyFlat, Vanish, RestOK
<1>9. CASE Pop
    BY <1>0, <1>a, <1>9 DEF Pop, RestOK
<1>10. NoEnd \in [coin : Coins \cup {None}, was : SUBSET Analyses,
                  ctx : Analyses \cup {None}, loss : BOOLEAN]
    BY DEF NoEnd
<1>11. CASE RecordClose
    BY <1>0, <1>10, <1>11 DEF RecordClose, RestOK
<1>12. CASE Arm \/ Heartbeat
    BY <1>0, <1>10, <1>12 DEF Arm, Heartbeat, RestOK
<1>13. ASSUME NEW p \in Procs, Crash(p) PROVE RestOK'
  <2>1. skipped' \in [Coins -> BOOLEAN]
      BY <1>0, <1>13 DEF Crash, RestOK
  <2>2. crashes' \in 0 .. MaxCrashes
      BY <1>0, <1>13 DEF Crash, RestOK
  <2>3. lossAt' \in [Coins -> Times \cup {Never}]
      BY <1>0, <1>13 DEF Crash, RestOK
  <2> QED  BY <1>0, <1>10, <1>13, <2>1, <2>2, <2>3 DEF Crash, RestOK
<1>14. ASSUME NEW p \in Procs, Boot(p) PROVE RestOK'
    BY <1>0, <1>14 DEF Boot, RestOK
<1> QED  BY <1>1, <1>2, <1>3, <1>4, <1>5, <1>6, <1>7, <1>8, <1>9, <1>11, <1>12, <1>13, <1>14 DEF Next

LEMMA InHandStep ==
    ASSUME TypeOK, InHand, Next
    PROVE  InHand'
<1> USE Constants DEF Goto, InHand
<1>0. pc \in [Procs -> {"down", "idle", "order", "note", "context", "pop", "row", "arm"}]
      /\ cur \in [Procs -> Analyses \cup {None}]
    BY DEF TypeOK
<1>1. CASE Tick
    BY <1>1 DEF Tick
<1>2. ASSUME NEW p \in Procs, NEW a \in Analyses, Attempt(p, a) PROVE InHand'
    BY <1>0, <1>2 DEF Attempt
<1>3. ASSUME NEW p \in Procs, Order(p) \/ Rejected(p) \/ Note(p) \/ Context(p) PROVE InHand'
    BY <1>0, <1>3 DEF Order, Rejected, Note, Context
<1>4. ASSUME NEW c \in Coins, Close(c) \/ ExternalClose(c) \/ AlreadyFlat(c) \/ Vanish(c) PROVE InHand'
    BY <1>0, <1>4 DEF Close, ExternalClose, AlreadyFlat, Vanish
<1>5. CASE Pop
  <2>1. ending'.coin = ending.coin
      BY <1>5 DEF Pop, TypeOK
  <2> QED  BY <1>0, <1>5, <2>1 DEF Pop
<1>6. CASE RecordClose \/ Arm \/ Heartbeat
    BY <1>0, <1>6 DEF RecordClose, Arm, Heartbeat
<1>7. ASSUME NEW p \in Procs, Crash(p) \/ Boot(p) PROVE InHand'
    BY <1>0, <1>7 DEF Crash, Boot
<1> QED  BY <1>1, <1>2, <1>3, <1>4, <1>5, <1>6, <1>7 DEF Next

LEMMA NumberedStep ==
    ASSUME TypeOK, InHand, Numbered, Next
    PROVE  Numbered' /\ fills' \subseteq Entries
<1> USE Constants DEF Goto
<1>0. /\ pc \in [Procs -> {"down", "idle", "order", "note", "context", "pop", "row", "arm"}]
      /\ fills \subseteq Entries /\ now \in Nat /\ Cardinality(fills) \in Nat
      /\ \A f \in fills : f.n \in Nat /\ f.at \in Nat
  <2>1. \A f \in Entries : f.n \in Nat /\ f.at \in Nat
      BY DEF Entries, Times
  <2> QED  BY <2>1, FS_CardinalityType DEF TypeOK, Numbered, Times
<1>1. CASE Tick
    BY <1>0, <1>1 DEF Tick, Numbered
<1>2. ASSUME NEW p \in Procs, NEW a \in Analyses, Attempt(p, a) PROVE Numbered' /\ fills' \subseteq Entries
    BY <1>0, <1>2 DEF Attempt, Numbered
<1>3. ASSUME NEW p \in Procs, Order(p) PROVE Numbered' /\ fills' \subseteq Entries
  <2>1. PICK lost \in BOOLEAN : fills' = fills \cup {Fill(p, lost)}
      BY <1>3 DEF Order
  <2> DEFINE g == Fill(p, lost)
  <2>2. /\ g \in Entries /\ g.n = Cardinality(fills) + 1 /\ g.at = now
        /\ IsFiniteSet(fills') /\ Cardinality(fills') = Cardinality(fills) + 1
      BY <1>3, <2>1, FillIs DEF Order
  <2> HIDE DEF g
  <2>3. \A q \in Procs : pc'[q] = "order" => pc[q] = "order" /\ q # p
      BY <1>0, <1>3 DEF Order
  <2>4. now' = now /\ pc[p] = "order"
      BY <1>3 DEF Order
  <2>5. fills' = fills \cup {g}
      BY <2>1 DEF g
  <2>6. \A f \in fills' : f.n <= Cardinality(fills') /\ f.at <= now'
      BY <1>0, <2>2, <2>4, <2>5 DEF Numbered
  <2>7. \A f, h \in fills' : f.n = h.n => f = h
      BY <1>0, <2>2, <2>5 DEF Numbered
  <2>8. /\ Cardinality(fills') <= MaxEntries + 1
        /\ \A q \in Procs : pc'[q] = "order" => Cardinality(fills') <= MaxEntries
        /\ (\A q \in Procs : pc'[q] = "order") => Cardinality(fills') < MaxEntries
    <3>1. ASSUME NEW q \in Procs, pc'[q] = "order" PROVE Cardinality(fills) < MaxEntries
      <4>1. \A r \in Procs : pc[r] = "order"
          BY <2>3, <2>4, <3>1
      <4> QED  BY <4>1 DEF Numbered
    <3> QED  BY <1>0, <2>2, <2>3, <2>4, <3>1 DEF Numbered
  <2> QED  BY <1>0, <2>2, <2>5, <2>6, <2>7, <2>8 DEF Numbered
<1>4. ASSUME NEW p \in Procs, Crash(p) PROVE Numbered' /\ fills' \subseteq Entries
  <2>1. /\ IsFiniteSet(fills') /\ Cardinality(fills') = Cardinality(fills) /\ fills' \subseteq Entries
      BY <1>4, CrashKeeps
  <2>2. now' = now /\ \A q \in Procs : pc'[q] = "order" => pc[q] = "order"
      BY <1>0, <1>4 DEF Crash
  <2>3. \A g \in fills' : \E f \in fills : g.n = f.n /\ g.at = f.at
      BY <1>4, CrashKeeps
  <2>4. \A g \in fills' : g.n <= Cardinality(fills') /\ g.at <= now'
      BY <2>1, <2>2, <2>3 DEF Numbered
  <2>5. \A g, h \in fills' : g.n = h.n => g = h
    <3> DEFINE kept == {disk.trades[i].a : i \in DOMAIN disk.trades}
               G(f) == [f EXCEPT !.lost = @ \/ (f.by = p /\ (p = Server \/ f.a \notin kept))]
    <3>1. fills' = {G(f) : f \in fills}
        BY <1>4 DEF Crash
    <3>2. \A f \in fills : G(f).n = f.n
        BY <1>0 DEF Entries
    <3> HIDE DEF G
    <3> QED  BY <3>1, <3>2 DEF Numbered
  <2> QED  BY <1>0, <2>1, <2>2, <2>4, <2>5 DEF Numbered
<1>5. ASSUME UNCHANGED <<fills, now>>, \A q \in Procs : pc'[q] = "order" => pc[q] = "order"
      PROVE  Numbered' /\ fills' \subseteq Entries
    BY <1>0, <1>5 DEF Numbered
<1>6. ASSUME NEW p \in Procs, Rejected(p) \/ Note(p) \/ Context(p) \/ Boot(p)
      PROVE  UNCHANGED <<fills, now>> /\ \A q \in Procs : pc'[q] = "order" => pc[q] = "order"
    BY <1>0, <1>6 DEF Rejected, Note, Context, Boot
<1>7. ASSUME NEW c \in Coins, Close(c) \/ ExternalClose(c) \/ AlreadyFlat(c) \/ Vanish(c)
      PROVE  UNCHANGED <<fills, now>> /\ \A q \in Procs : pc'[q] = "order" => pc[q] = "order"
    BY <1>0, <1>7 DEF Close, ExternalClose, AlreadyFlat, Vanish
<1>8. CASE Pop \/ RecordClose \/ Arm \/ Heartbeat
  <2>1. UNCHANGED <<fills, now>> /\ \A q \in Procs : pc'[q] = "order" => pc[q] = "order"
      BY <1>0, <1>8 DEF Pop, RecordClose, Arm, Heartbeat
  <2> QED  BY <1>5, <2>1
<1> QED  BY <1>1, <1>2, <1>3, <1>4, <1>5, <1>6, <1>7, <1>8 DEF Next

Typed == TypeOK /\ InHand /\ Numbered

LEMMA TypedInit == Init => Typed
<1> SUFFICES ASSUME Init PROVE Typed
    OBVIOUS
<1> USE Constants DEF Init
<1>1. MemOK
  <2>1. Len(Fresh.trades) <= MaxTrades
      BY FreshIs
  <2> QED  BY <2>1, FreshIs DEF MemOK
<1>2. RestOK
    BY DEF RestOK, NoEnd, Times, Never
<1>3. TypeOK
    BY <1>1, <1>2 DEF TypeOK, MemOK, RestOK
<1>4. Numbered /\ InHand
    BY FS_EmptySet DEF Numbered, InHand
<1> QED  BY <1>3, <1>4 DEF Typed

LEMMA TypedStep == Typed /\ [Next]_vars => Typed'
<1> SUFFICES ASSUME Typed, [Next]_vars PROVE Typed'
    OBVIOUS
<1>1. CASE Next
  <2>1. MemOK' /\ RestOK' /\ InHand' /\ Numbered' /\ fills' \subseteq Entries
      BY <1>1, MemStep, RestStep, InHandStep, NumberedStep DEF Typed
  <2> QED  BY <2>1 DEF MemOK, RestOK, Typed, TypeOK
<1>2. CASE UNCHANGED vars
    BY <1>2 DEF vars, Typed, TypeOK, InHand, Numbered
<1> QED  BY <1>1, <1>2

LEMMA AlwaysTyped == Spec => []Typed
    BY TypedInit, TypedStep, PTL DEF Spec

\* The memory of both processes, the file and the exchange keep their types, and no
\* list of trades grows beyond MAX_TRADES, whatever is lost, closed or restarted
\* (memory.py: record_trade drops the oldest).
THEOREM TypeCorrect == Spec => []TypeOK
<1>1. Typed => TypeOK
    BY DEF Typed
<1> QED  BY <1>1, AlwaysTyped, PTL
---------------------------------------------------------------------------
(* The lists of trades.                                                    *)

\* The steps that neither enter nor note, and after which nobody is down who was not.
Quiet ==
    /\ fills' = fills
    /\ \A p \in Procs : mem'[p].trades = mem[p].trades
    /\ \/ disk'.trades = disk.trades
       \/ pc[Loop] \notin {"down", "note"} /\ disk'.trades = mem[Loop].trades
    /\ \A p \in Procs : /\ pc'[p] = "down" <=> pc[p] = "down"
                        /\ pc'[p] = "note" <=> pc[p] = "note"
                        /\ pc[p] = "note" => cur'[p] = cur[p]
                        /\ pc'[p] = "order" => \/ pc[p] = "order" /\ cur'[p] = cur[p]
                                               \/ ~Executed(p, cur'[p])

LEMMA QuietSteps ==
    ASSUME TypeOK, InHand, Next,
           \A p \in Procs : ~Order(p) /\ ~Note(p) /\ ~Crash(p) /\ ~Boot(p)
    PROVE  Quiet
<1> USE Constants DEF Goto
<1>0. /\ pc \in [Procs -> {"down", "idle", "order", "note", "context", "pop", "row", "arm"}]
      /\ cur \in [Procs -> Analyses \cup {None}]
      /\ mem \in [Procs -> Memory] /\ disk \in Memory /\ now \in Times
    BY DEF TypeOK
<1>a. /\ \A p \in Procs : pc[p] \in {"order", "note", "context"} => cur[p] \in Analyses
      /\ pc[Loop] \in {"pop", "row", "arm"} => ending.coin \in Coins
    BY DEF InHand
<1>b. ASSUME NEW p \in Procs, NEW m, NEW flush, Write(p, m, flush), m.trades = mem[p].trades,
             p = Loop /\ flush => pc[Loop] \notin {"down", "note"}
      PROVE  /\ \A q \in Procs : mem'[q].trades = mem[q].trades
             /\ \/ disk'.trades = disk.trades
                \/ pc[Loop] \notin {"down", "note"} /\ disk'.trades = mem[Loop].trades
  <2>1. mem' = [mem EXCEPT ![p] = m] /\ (disk' = m \/ disk' = disk)
        /\ (disk' = disk \/ (p = Loop /\ flush))
      BY <1>b DEF Write
  <2> QED  BY <1>0, <1>b, <2>1
<1>1. CASE Tick
    BY <1>1 DEF Tick, Quiet
<1>2. ASSUME NEW p \in Procs, NEW a \in Analyses, Attempt(p, a) PROVE Quiet
  <2>1. mem[p] \in Memory /\ CoinOf[a] \in Coins
      BY <1>0
  <2>2. /\ \A q \in Procs : mem'[q].trades = mem[q].trades
        /\ \/ disk'.trades = disk.trades
           \/ pc[Loop] \notin {"down", "note"} /\ disk'.trades = mem[Loop].trades
      BY <1>b, <1>2, <2>1, UnblockedIs DEF Attempt
  <2>3. CASE Admitted(p, a)
    <3>1. ~Executed(p, a)
        BY <2>3 DEF Admitted
    <3> QED  BY <1>0, <1>2, <2>2, <2>3, <3>1 DEF Attempt, Quiet
  <2>4. CASE ~Admitted(p, a)
      BY <1>2, <2>2, <2>4 DEF Attempt, Quiet
  <2> QED  BY <2>3, <2>4
<1>3. ASSUME NEW p \in Procs, Rejected(p) PROVE Quiet
    BY <1>0, <1>3 DEF Rejected, Quiet
<1>4. ASSUME NEW p \in Procs, Context(p) PROVE Quiet
  <2> DEFINE m == [mem[p] EXCEPT !.ctx[CoinOf[cur[p]]] = cur[p]]
  <2>1. cur[p] \in Analyses /\ mem[p] \in Memory /\ Write(p, m, TRUE)
      BY <1>0, <1>a, <1>4 DEF Context
  <2>2. m.trades = mem[p].trades
      BY <2>1, CtxIs
  <2> HIDE DEF m
  <2>3. /\ \A q \in Procs : mem'[q].trades = mem[q].trades
        /\ \/ disk'.trades = disk.trades
           \/ pc[Loop] \notin {"down", "note"} /\ disk'.trades = mem[Loop].trades
      BY <1>b, <1>4, <2>1, <2>2 DEF Context
  <2> QED  BY <1>0, <1>4, <2>3 DEF Context, Quiet
<1>5. ASSUME NEW c \in Coins, Close(c) \/ ExternalClose(c) \/ AlreadyFlat(c) \/ Vanish(c) PROVE Quiet
    BY <1>0, <1>5 DEF Close, ExternalClose, AlreadyFlat, Vanish, Quiet
<1>6. CASE Pop
  <2>1. Popped(mem[Loop], ending.coin).trades = mem[Loop].trades
      BY <1>0, <1>a, <1>6, CtxIs DEF Pop, Popped
  <2>2. /\ \A q \in Procs : mem'[q].trades = mem[q].trades
        /\ \/ disk'.trades = disk.trades
           \/ pc[Loop] \notin {"down", "note"} /\ disk'.trades = mem[Loop].trades
      BY <1>b, <1>6, <2>1 DEF Pop
  <2> QED  BY <1>0, <1>6, <2>2 DEF Pop, Quiet
<1>7. CASE RecordClose
  <2>1. /\ \A q \in Procs : mem'[q].trades = mem[q].trades
        /\ \/ disk'.trades = disk.trades
           \/ pc[Loop] \notin {"down", "note"} /\ disk'.trades = mem[Loop].trades
      BY <1>b, <1>7 DEF RecordClose
  <2> QED  BY <1>0, <1>7, <2>1 DEF RecordClose, Quiet
<1>8. CASE Arm
  <2>1. Blocked(mem[Loop], ending.coin).trades = mem[Loop].trades
      BY <1>0, <1>a, <1>8, BlockedIs DEF Arm
  <2>2. /\ \A q \in Procs : mem'[q].trades = mem[q].trades
        /\ \/ disk'.trades = disk.trades
           \/ pc[Loop] \notin {"down", "note"} /\ disk'.trades = mem[Loop].trades
      BY <1>b, <1>8, <2>1 DEF Arm
  <2> QED  BY <1>0, <1>8, <2>2 DEF Arm, Quiet
<1>9. CASE Heartbeat
  <2>1. /\ \A q \in Procs : mem'[q].trades = mem[q].trades
        /\ \/ disk'.trades = disk.trades
           \/ pc[Loop] \notin {"down", "note"} /\ disk'.trades = mem[Loop].trades
      BY <1>b, <1>9 DEF Heartbeat
  <2> QED  BY <1>0, <1>9, <2>1 DEF Heartbeat, Quiet
<1> QED  BY <1>1, <1>2, <1>3, <1>4, <1>5, <1>6, <1>7, <1>8, <1>9 DEF Next

\* t is s with a trade of analysis `a` at its end, the first of it.
Appended(s, t, a) ==
    /\ Len(s) \in Nat /\ DOMAIN s = 1 .. Len(s)
    /\ Len(t) = Len(s) + 1 /\ DOMAIN t = 1 .. Len(s) + 1
    /\ \A i \in DOMAIN s : i \in DOMAIN t /\ t[i] = s[i] /\ s[i].a # a
    /\ t[Len(s) + 1].a = a /\ t[Len(s) + 1].at = now

\* A trade is noted at the end of a list, while nothing is forgotten.
LEMMA NoteAppends ==
    ASSUME Typed, ListsInv, MaxEntries < MaxTrades, NEW p \in Procs, Note(p)
    PROVE  /\ Appended(mem[p].trades, mem'[p].trades, cur[p])
           /\ \A q \in Procs \ {p} : mem'[q] = mem[q] /\ pc'[q] = pc[q]
           /\ disk' = disk /\ pc[p] = "note" /\ pc'[p] = "context"
           /\ UNCHANGED <<cur, fills, now>>
<1> DEFINE s == mem[p].trades
           e == [a |-> cur[p], at |-> now]
<1>1. /\ mem \in [Procs -> Memory] /\ cur[p] \in Analyses /\ now \in Times /\ Len(s) <= MaxTrades
      /\ pc[p] = "note"
    BY DEF Typed, TypeOK, InHand, Note
<1>2. Len(s) < MaxTrades /\ s \in Seq(Trade) /\ DOMAIN s = 1 .. Len(s) /\ Len(s) \in Nat
  <2>1. Len(s) < Cardinality(fills) /\ Cardinality(fills) <= MaxEntries + 1
      BY <1>1 DEF ListsInv, Fits, Typed, Numbered
  <2>2. mem[p] \in Memory /\ Cardinality(fills) \in Nat
      BY <1>1, FS_CardinalityType DEF Typed, Numbered
  <2> QED  BY <2>1, <2>2, MemoryParts, Constants
<1>3. Noted(mem[p], cur[p]).trades = Append(s, e)
    BY <1>1, <1>2, NotedIs
<1>4. mem' = [mem EXCEPT ![p] = Noted(mem[p], cur[p])] /\ disk' = disk
    BY DEF Note, Write
<1>5. mem'[p].trades = Append(s, e) /\ \A q \in Procs \ {p} : mem'[q] = mem[q]
    BY <1>1, <1>3, <1>4
<1>6. e \in Trade
    BY <1>1 DEF Trade
<1>7. /\ Len(Append(s, e)) = Len(s) + 1 /\ DOMAIN Append(s, e) = 1 .. Len(s) + 1
      /\ \A i \in 1 .. Len(s) : Append(s, e)[i] = s[i]
      /\ Append(s, e)[Len(s) + 1] = e
  <2> HIDE DEF s, e
  <2> QED  BY <1>2, <1>6, AppendProperties
<1>8. \A i \in DOMAIN s : s[i].a # cur[p]
    BY <1>1 DEF ListsInv, Executed, Trades
<1>9. /\ \A q \in Procs \ {p} : pc'[q] = pc[q]
      /\ pc[p] = "note" /\ pc'[p] = "context" /\ UNCHANGED <<cur, fills, now>>
    BY DEF Note, Goto, Typed, TypeOK
<1> DEFINE t == Append(s, e)
<1> HIDE DEF t
<1>10. /\ mem'[p].trades = t /\ Len(t) = Len(s) + 1 /\ DOMAIN t = 1 .. Len(s) + 1
       /\ t[Len(s) + 1].a = cur[p] /\ t[Len(s) + 1].at = now
       /\ \A i \in 1 .. Len(s) : t[i] = s[i]
    BY <1>5, <1>7 DEF t
<1>11. Appended(s, t, cur[p])
    BY <1>2, <1>8, <1>10 DEF Appended
<1> QED  BY <1>4, <1>5, <1>9, <1>10, <1>11

\* Where the other steps leave the lists.
LEMMA OrderLeaves ==
    ASSUME Typed, NEW p \in Procs, Order(p)
    PROVE  /\ pc[p] = "order" /\ UNCHANGED <<mem, disk, now>>
           /\ pc' \in {[pc EXCEPT ![p] = "note"], [pc EXCEPT ![p] = "idle"]}
           /\ pc'[p] = "note" => cur' = cur
           /\ \A q \in Procs \ {p} : pc'[q] = pc[q] /\ cur'[q] = cur[q]
           /\ Cardinality(fills') = Cardinality(fills) + 1 /\ Cardinality(fills) \in Nat
           /\ \E lost \in BOOLEAN : /\ fills' = fills \cup {Fill(p, lost)}
                                    /\ ~lost => pc'[p] = "note"
<1>1. pc \in [Procs -> {"down", "idle", "order", "note", "context", "pop", "row", "arm"}]
      /\ cur \in [Procs -> Analyses \cup {None}]
    BY DEF Typed, TypeOK
<1>2. PICK lost \in BOOLEAN : fills' = fills \cup {Fill(p, lost)} /\ (~lost => pc'[p] = "note")
    BY <1>1 DEF Order, Goto
<1>3. pc[p] = "order"
    BY DEF Order
<1>4. Cardinality(fills') = Cardinality(fills) + 1 /\ Cardinality(fills) \in Nat
    BY <1>2, <1>3, FillIs DEF Typed
<1> QED  BY <1>1, <1>2, <1>3, <1>4 DEF Order, Goto

LEMMA CrashLeaves ==
    ASSUME Typed, NEW p \in Procs, Crash(p)
    PROVE  /\ pc[p] # "down" /\ pc'[p] = "down" /\ UNCHANGED <<disk, now>>
           /\ mem'[p] = Fresh /\ mem'[p].trades = <<>>
           /\ \A q \in Procs \ {p} : pc'[q] = pc[q] /\ cur'[q] = cur[q] /\ mem'[q] = mem[q]
           /\ Cardinality(fills') = Cardinality(fills)
<1>1. /\ pc \in [Procs -> {"down", "idle", "order", "note", "context", "pop", "row", "arm"}]
      /\ cur \in [Procs -> Analyses \cup {None}] /\ mem \in [Procs -> Memory]
    BY DEF Typed, TypeOK
<1> QED  BY <1>1, FreshIs, CrashKeeps DEF Crash, Goto, Typed

LEMMA BootLeaves ==
    ASSUME Typed, NEW p \in Procs, Boot(p)
    PROVE  /\ pc[p] = "down" /\ pc'[p] = "idle" /\ UNCHANGED <<disk, now, cur, fills>>
           /\ mem'[p] = Loaded /\ mem'[p].trades = disk.trades
           /\ \A q \in Procs \ {p} : pc'[q] = pc[q] /\ mem'[q] = mem[q]
<1>1. /\ pc \in [Procs -> {"down", "idle", "order", "note", "context", "pop", "row", "arm"}]
      /\ mem \in [Procs -> Memory] /\ disk \in Memory /\ now \in Times
    BY DEF Typed, TypeOK
<1> QED  BY <1>1, LoadedIs DEF Boot, Goto

LEMMA ListsStep ==
    ASSUME Typed, ListsInv, MaxEntries < MaxTrades, Next
    PROVE  ListsInv'
<1> USE Constants
<1>0. /\ Cardinality(fills) \in Nat /\ mem \in [Procs -> Memory] /\ disk \in Memory
      /\ Len(disk.trades) \in Nat /\ \A p \in Procs : Len(mem[p].trades) \in Nat
    BY FS_CardinalityType, MemoryParts DEF Typed, Numbered, TypeOK
<1>1. CASE Quiet
  <2>1. /\ \A p \in Procs : Executed(p, cur[p])' <=> \E i \in DOMAIN mem[p].trades : mem[p].trades[i].a = cur'[p]
        /\ \A p \in Procs, a \in Analyses \cup {None} :
              Executed(p, a) <=> \E i \in DOMAIN mem[p].trades : mem[p].trades[i].a = a
      BY <1>1 DEF Quiet, Executed, Trades
  <2>2. ASSUME NEW p \in Procs, pc'[p] \in {"order", "note"} PROVE ~Executed(p, cur[p])'
      BY <1>1, <2>1, <2>2 DEF Quiet, ListsInv, Executed, Trades
  <2>3. \A p \in Procs : Single(mem'[p].trades)
      BY <1>1 DEF Quiet, ListsInv
  <2>4. /\ Single(disk'.trades)
        /\ Len(disk'.trades) <= Cardinality(fills)
    <3>1. CASE disk'.trades = disk.trades
        BY <3>1 DEF ListsInv
    <3>2. CASE disk'.trades = mem[Loop].trades
      <4>1. Len(mem[Loop].trades) <= Cardinality(fills)
          BY DEF ListsInv, Fits
      <4> QED  BY <3>2, <4>1 DEF ListsInv
    <3> QED  BY <1>1, <3>1, <3>2 DEF Quiet
  <2>5. \A p \in Procs : Fits(mem'[p], pc'[p], Cardinality(fills))
      BY <1>1 DEF Quiet, ListsInv, Fits
  <2> QED  BY <1>1, <2>2, <2>3, <2>4, <2>5 DEF Quiet, ListsInv
<1>2. ASSUME NEW p \in Procs, Order(p) PROVE ListsInv'
  <2>1. /\ UNCHANGED <<mem, disk>> /\ Cardinality(fills') = Cardinality(fills) + 1
        /\ \A q \in Procs \ {p} : pc'[q] = pc[q] /\ cur'[q] = cur[q]
      BY <1>2, OrderLeaves
  <2>2. pc'[p] \in {"note", "idle"} /\ (pc'[p] = "note" => cur' = cur)
      BY <1>2, OrderLeaves DEF Typed, TypeOK
  <2>3. \A q \in Procs : pc'[q] \in {"order", "note"} => ~Executed(q, cur[q])'
    <3>1. pc[p] = "order"
        BY <1>2, OrderLeaves
    <3> QED  BY <2>1, <2>2, <3>1 DEF ListsInv, Executed, Trades
  <2>4. /\ \A q \in Procs : Single(mem'[q].trades)
        /\ Single(disk'.trades)
      BY <2>1 DEF ListsInv
  <2>5. \A q \in Procs : Len(mem[q].trades) <= Cardinality(fills)
      BY DEF ListsInv, Fits
  <2>6. \A q \in Procs : Fits(mem'[q], pc'[q], Cardinality(fills'))
      BY <1>0, <2>1, <2>5 DEF Fits
  <2>7. Len(disk'.trades) <= Cardinality(fills')
      BY <1>0, <2>1 DEF ListsInv
  <2> QED  BY <2>3, <2>4, <2>6, <2>7 DEF ListsInv
<1>3. ASSUME NEW p \in Procs, Note(p) PROVE ListsInv'
  <2> DEFINE s == mem[p].trades
  <2> DEFINE t == mem'[p].trades
  <2>0. Appended(s, t, cur[p])
      BY <1>3, NoteAppends
  <2>1. /\ Len(t) = Len(s) + 1 /\ DOMAIN t = 1 .. Len(s) + 1
        /\ \A i \in DOMAIN s : i \in DOMAIN t /\ t[i] = s[i] /\ s[i].a # cur[p]
        /\ t[Len(s) + 1].a = cur[p]
        /\ Len(s) \in Nat /\ DOMAIN s = 1 .. Len(s)
        /\ \A q \in Procs \ {p} : mem'[q] = mem[q] /\ pc'[q] = pc[q]
        /\ disk' = disk /\ pc[p] = "note" /\ pc'[p] = "context" /\ UNCHANGED <<cur, fills>>
      BY <1>3, <2>0, NoteAppends DEF Appended
  <2>2. Single(s)
      BY DEF ListsInv
  <2>3. \A i \in DOMAIN t : i \in DOMAIN s \/ i = Len(s) + 1
      BY <2>1
  <2>4. Single(t)
    <3> HIDE DEF s, t
    <3> QED  BY <2>1, <2>2, <2>3 DEF Single
  <2>5. Len(s) < Cardinality(fills)
      BY <2>1 DEF ListsInv, Fits
  <2>6. Len(t) <= Cardinality(fills)
      BY <1>0, <2>1, <2>5
  <2>7. \A q \in Procs : Single(mem'[q].trades)
      BY <2>1, <2>4 DEF ListsInv
  <2>8. \A q \in Procs : pc'[q] \in {"order", "note"} => ~Executed(q, cur[q])'
      BY <2>1 DEF ListsInv, Executed, Trades
  <2>9. \A q \in Procs : Fits(mem'[q], pc'[q], Cardinality(fills))
    <3>1. ASSUME NEW q \in Procs, q # p
          PROVE  Fits(mem'[q], pc'[q], Cardinality(fills))
        BY <2>1, <3>1 DEF ListsInv
    <3>2. Fits(mem'[p], pc'[p], Cardinality(fills))
        BY <1>0, <2>1, <2>6 DEF Fits
    <3> QED  BY <3>1, <3>2
  <2> QED  BY <2>1, <2>7, <2>8, <2>9 DEF ListsInv
<1>4. ASSUME NEW p \in Procs, Crash(p) PROVE ListsInv'
  <2>1. /\ disk' = disk /\ Cardinality(fills') = Cardinality(fills)
        /\ pc'[p] = "down" /\ mem'[p].trades = <<>>
        /\ \A q \in Procs \ {p} : pc'[q] = pc[q] /\ cur'[q] = cur[q] /\ mem'[q] = mem[q]
      BY <1>4, CrashLeaves
  <2>2. /\ \A q \in Procs : pc'[q] \in {"order", "note"} => ~Executed(q, cur[q])'
        /\ \A q \in Procs : Single(mem'[q].trades)
      BY <2>1 DEF ListsInv, Executed, Trades, Single
  <2>3. \A q \in Procs : Fits(mem'[q], pc'[q], Cardinality(fills'))
    <3>1. ASSUME NEW q \in Procs, q # p
          PROVE  Fits(mem'[q], pc'[q], Cardinality(fills'))
        BY <2>1, <3>1 DEF ListsInv
    <3>2. Fits(mem'[p], pc'[p], Cardinality(fills'))
        BY <1>0, <2>1 DEF Fits
    <3> QED  BY <3>1, <3>2
  <2> QED  BY <2>1, <2>2, <2>3 DEF ListsInv
<1>5. ASSUME NEW p \in Procs, Boot(p) PROVE ListsInv'
  <2>1. /\ disk' = disk /\ UNCHANGED <<cur, fills>>
        /\ pc'[p] = "idle" /\ mem'[p].trades = disk.trades
        /\ \A q \in Procs \ {p} : pc'[q] = pc[q] /\ mem'[q] = mem[q]
      BY <1>5, BootLeaves
  <2>2. /\ \A q \in Procs : pc'[q] \in {"order", "note"} => ~Executed(q, cur[q])'
        /\ \A q \in Procs : Single(mem'[q].trades)
      BY <2>1 DEF ListsInv, Executed, Trades
  <2>3. \A q \in Procs : Fits(mem'[q], pc'[q], Cardinality(fills))
    <3>1. ASSUME NEW q \in Procs, q # p
          PROVE  Fits(mem'[q], pc'[q], Cardinality(fills))
        BY <2>1, <3>1 DEF ListsInv
    <3>2. Fits(mem'[p], pc'[p], Cardinality(fills))
        BY <1>0, <2>1 DEF ListsInv, Fits
    <3> QED  BY <3>1, <3>2
  <2> QED  BY <2>1, <2>2, <2>3 DEF ListsInv
<1> QED  BY <1>1, <1>2, <1>3, <1>4, <1>5, QuietSteps DEF Typed

LEMMA FileStep ==
    ASSUME Typed, ListsInv, FileIsKnown, MaxEntries < MaxTrades, Next
    PROVE  FileIsKnown'
<1> USE Constants
<1>1. CASE Quiet
    BY <1>1 DEF Quiet, FileIsKnown
<1>2. ASSUME NEW p \in Procs, Order(p) PROVE FileIsKnown'
    BY <1>2, OrderLeaves DEF FileIsKnown
<1>3. ASSUME NEW p \in Procs, Note(p) PROVE FileIsKnown'
  <2>1. CASE p = Loop
    <3>1. Appended(mem[Loop].trades, mem'[Loop].trades, cur[Loop])
        BY <1>3, <2>1, NoteAppends
    <3>2. disk' = disk /\ pc[Loop] # "down"
        BY <1>3, <2>1, NoteAppends
    <3> QED  BY <3>1, <3>2 DEF FileIsKnown, Appended
  <2>2. CASE p # Loop
    <3>1. mem'[Loop] = mem[Loop] /\ disk' = disk /\ pc'[Loop] = pc[Loop]
        BY <1>3, <2>2, NoteAppends
    <3> QED  BY <3>1 DEF FileIsKnown
  <2> QED  BY <2>1, <2>2
<1>4. ASSUME NEW p \in Procs, Crash(p) PROVE FileIsKnown'
    BY <1>4, CrashLeaves DEF FileIsKnown
<1>5. ASSUME NEW p \in Procs, Boot(p) PROVE FileIsKnown'
    BY <1>5, BootLeaves DEF FileIsKnown
<1> QED  BY <1>1, <1>2, <1>3, <1>4, <1>5, QuietSteps DEF Typed

LEMMA KnownStep ==
    ASSUME Typed, ListsInv, FileIsKnown, KnownInv, MaxEntries < MaxTrades, Next
    PROVE  KnownInv'
<1> USE Constants
<1>0. /\ now \in Nat
      /\ \A f \in fills : f.by \in Procs /\ f.at \in Nat /\ f.at <= now
  <2>1. \A f \in Entries : f.by \in Procs /\ f.at \in Nat
      BY DEF Entries, Times
  <2> QED  BY <2>1 DEF Typed, TypeOK, Numbered, Times
<1>1. CASE Quiet
    BY <1>0, <1>1 DEF Quiet, KnownInv, Listed
<1>2. ASSUME NEW p \in Procs, Order(p) PROVE KnownInv'
  <2>1. PICK lost \in BOOLEAN : fills' = fills \cup {Fill(p, lost)} /\ (~lost => pc'[p] = "note")
      BY <1>2, OrderLeaves
  <2> DEFINE g == Fill(p, lost)
  <2>2. g.by = p /\ g.a = cur[p] /\ g.lost = lost
      BY DEF Fill
  <2>3. fills' = fills \cup {g}
      BY <2>1
  <2> HIDE DEF g
  <2>4. ~g.lost => pc'[p] = "note" /\ cur'[p] = cur[p]
      BY <1>2, <2>1, <2>2, OrderLeaves
  <2>5. ASSUME NEW f \in fills, ~f.lost
        PROVE  IF pc'[f.by] = "down"
               THEN f.by = Loop /\ Listed(f, disk'.trades)
               ELSE \/ Listed(f, mem'[f.by].trades)
                    \/ pc'[f.by] = "note" /\ cur'[f.by] = f.a
    <3>1. /\ pc[p] = "order" /\ pc'[p] # "down" /\ mem' = mem /\ disk' = disk
          /\ \A q \in Procs \ {p} : pc'[q] = pc[q] /\ cur'[q] = cur[q]
      <4>1. pc \in [Procs -> {"down", "idle", "order", "note", "context", "pop", "row", "arm"}]
          BY DEF Typed, TypeOK
      <4> QED  BY <1>2, <4>1, OrderLeaves
    <3> QED  BY <1>0, <2>5, <3>1 DEF KnownInv
  <2> QED  BY <2>2, <2>3, <2>4, <2>5 DEF KnownInv
<1>3. ASSUME NEW p \in Procs, Note(p) PROVE KnownInv'
  <2> DEFINE s == mem[p].trades
  <2> DEFINE t == mem'[p].trades
  <2>0. Appended(s, t, cur[p])
      BY <1>3, NoteAppends
  <2>1. /\ Len(s) + 1 \in DOMAIN t /\ t[Len(s) + 1].a = cur[p] /\ t[Len(s) + 1].at = now
        /\ \A i \in DOMAIN s : i \in DOMAIN t /\ t[i] = s[i]
      BY <2>0 DEF Appended
  <2>3. /\ \A q \in Procs \ {p} : mem'[q] = mem[q] /\ pc'[q] = pc[q]
        /\ disk' = disk /\ pc[p] = "note" /\ pc'[p] = "context" /\ UNCHANGED <<cur, fills>>
      BY <1>3, NoteAppends
  <2>2. ASSUME NEW f \in fills, ~f.lost, f.by = p PROVE Listed(f, t)
    <3>1. Listed(f, s) \/ cur[p] = f.a
        BY <2>2, <2>3 DEF KnownInv
    <3> HIDE DEF s, t
    <3> QED  BY <1>0, <2>1, <3>1 DEF Listed
  <2> QED  BY <1>0, <2>2, <2>3 DEF KnownInv
<1>4. ASSUME NEW p \in Procs, Crash(p) PROVE KnownInv'
  <2> SUFFICES ASSUME NEW f \in fills', ~f.lost
               PROVE  IF pc'[f.by] = "down"
                      THEN f.by = Loop /\ Listed(f, disk'.trades)
                      ELSE \/ Listed(f, mem'[f.by].trades)
                           \/ pc'[f.by] = "note" /\ cur'[f.by] = f.a
      BY DEF KnownInv
  <2>1. /\ f \in fills
        /\ f.by = p => p = Loop /\ \E i \in DOMAIN disk.trades : disk.trades[i].a = f.a
      BY <1>4, CrashKeeps DEF Typed
  <2>2. CASE f.by = p
    <3>1. PICK i \in DOMAIN disk.trades : disk.trades[i].a = f.a
        BY <2>1, <2>2
    <3>2. /\ p = Loop /\ pc[Loop] # "down" /\ pc'[p] = "down" /\ disk' = disk
        BY <1>4, <2>1, <2>2, CrashLeaves
    <3>3. PICK j \in DOMAIN mem[Loop].trades : mem[Loop].trades[j] = disk.trades[i]
        BY <3>2 DEF FileIsKnown
    <3>4. Executed(Loop, f.a)
        BY <3>1, <3>3 DEF Executed, Trades
    <3>5. Listed(f, mem[Loop].trades)
        BY <2>1, <2>2, <3>2, <3>4 DEF KnownInv, ListsInv
    <3>6. PICK k \in DOMAIN mem[Loop].trades : mem[Loop].trades[k].a = f.a /\ mem[Loop].trades[k].at >= f.at
        BY <3>5 DEF Listed
    <3>7. k = j
        BY <3>1, <3>3, <3>6 DEF ListsInv, Single
    <3>8. Listed(f, disk.trades)
        BY <3>1, <3>3, <3>6, <3>7 DEF Listed
    <3> QED  BY <2>2, <3>2, <3>8
  <2>3. CASE f.by # p
      BY <1>0, <1>4, <2>1, <2>3, CrashLeaves DEF KnownInv
  <2> QED  BY <2>2, <2>3
<1>5. ASSUME NEW p \in Procs, Boot(p) PROVE KnownInv'
    BY <1>0, <1>5, BootLeaves DEF KnownInv
<1> QED  BY <1>1, <1>2, <1>3, <1>4, <1>5, QuietSteps DEF Typed
---------------------------------------------------------------------------
(* Idempotency.                                                            *)

LEMMA EntryTypes ==
    ASSUME Typed
    PROVE  /\ now \in Nat /\ Cardinality(fills) \in Nat /\ IsFiniteSet(fills)
           /\ \A f \in fills : /\ f.n \in Nat /\ f.a \in Analyses /\ f.by \in Procs /\ f.at \in Nat
                               /\ f.n <= Cardinality(fills) /\ f.at <= now
<1>1. \A f \in Entries : f.n \in Nat /\ f.a \in Analyses /\ f.by \in Procs /\ f.at \in Nat
    BY DEF Entries, Times
<1> QED  BY <1>1, FS_CardinalityType DEF Typed, TypeOK, Numbered, Times

LEMMA OnceStep ==
    ASSUME Typed, ListsInv, KnownInv, ExecutedOnce, MaxEntries < MaxTrades, Next
    PROVE  ExecutedOnce'
<1> USE Constants
<1>1. ASSUME fills' = fills PROVE ExecutedOnce'
    BY <1>1 DEF ExecutedOnce
<1>2. CASE Quiet
    BY <1>1, <1>2 DEF Quiet
<1>3. ASSUME NEW p \in Procs, Note(p) \/ Boot(p) PROVE ExecutedOnce'
    BY <1>1, <1>3 DEF Note, Boot
<1>4. ASSUME NEW p \in Procs, Crash(p) PROVE ExecutedOnce'
  <2>1. \A g \in fills' : \E f \in fills : /\ g.n = f.n /\ g.a = f.a /\ g.by = f.by
                                           /\ ~g.lost => ~f.lost
      BY <1>4, CrashKeeps DEF Typed
  <2> QED  BY <2>1 DEF ExecutedOnce
<1>5. ASSUME NEW p \in Procs, Order(p) PROVE ExecutedOnce'
  <2>1. PICK lost \in BOOLEAN : fills' = fills \cup {Fill(p, lost)}
      BY <1>5, OrderLeaves
  <2> DEFINE h == Fill(p, lost)
  <2>2. fills' = fills \cup {h} /\ h.n = Cardinality(fills) + 1 /\ h.a = cur[p] /\ h.by = p
      BY <2>1 DEF Fill
  <2> HIDE DEF h
  <2>3. ASSUME NEW f \in fills, ~f.lost, f.by = p PROVE f.a # cur[p]
    <3>1. pc[p] = "order"
        BY <1>5 DEF Order
    <3>2. Listed(f, mem[p].trades)
        BY <2>3, <3>1 DEF KnownInv
    <3> QED  BY <3>1, <3>2 DEF Listed, ListsInv, Executed, Trades
  <2>4. ASSUME NEW f \in fills', NEW g \in fills', f.a = g.a, f.by = g.by, ~f.lost
        PROVE  g.n <= f.n
    <3>1. CASE f \in fills /\ g \in fills
        BY <2>4, <3>1 DEF ExecutedOnce
    <3>2. CASE f \in fills /\ g = h
        BY <2>2, <2>3, <2>4, <3>2
    <3>3. CASE f = h
        BY <2>2, <3>3, EntryTypes
    <3> QED  BY <2>2, <3>1, <3>2, <3>3
  <2> QED  BY <2>4 DEF ExecutedOnce
<1> QED  BY <1>2, <1>3, <1>4, <1>5, QuietSteps DEF Typed

HistoryInv == Typed /\ ListsInv /\ FileIsKnown /\ KnownInv /\ ExecutedOnce

LEMMA HistoryInit == Init => HistoryInv
<1> SUFFICES ASSUME Init PROVE HistoryInv
    OBVIOUS
<1>1. Typed
    BY TypedInit
<1>2. /\ mem = [p \in Procs |-> Fresh] /\ disk = Fresh /\ fills = {}
      /\ Fresh.trades = <<>> /\ DOMAIN Fresh.trades = {} /\ Len(Fresh.trades) = 0
      /\ pc = [p \in Procs |-> IF p = Loop THEN "idle" ELSE "down"] /\ Cardinality(fills) = 0
    BY FreshIs, FS_EmptySet DEF Init
<1>3. ListsInv
  <2>1. \A p \in Procs : pc[p] \notin {"order", "note"} /\ mem[p] = Fresh
      BY <1>2
  <2> QED  BY <1>2, <2>1 DEF ListsInv, Single, Fits
<1>4. FileIsKnown /\ KnownInv /\ ExecutedOnce
    BY <1>2 DEF FileIsKnown, KnownInv, ExecutedOnce
<1> QED  BY <1>1, <1>3, <1>4 DEF HistoryInv

LEMMA HistoryStep ==
    ASSUME MaxEntries < MaxTrades, HistoryInv, [Next]_vars
    PROVE  HistoryInv'
<1>1. CASE Next
  <2>1. Typed'
      BY <1>1, TypedStep DEF HistoryInv
  <2>2. ListsInv'
      BY <1>1, ListsStep DEF HistoryInv
  <2>3. FileIsKnown'
      BY <1>1, FileStep DEF HistoryInv
  <2>4. KnownInv'
      BY <1>1, KnownStep DEF HistoryInv
  <2>5. ExecutedOnce'
      BY <1>1, OnceStep DEF HistoryInv
  <2> QED  BY <2>1, <2>2, <2>3, <2>4, <2>5 DEF HistoryInv
<1>2. CASE UNCHANGED vars
  <2>1. Typed'
      BY <1>2, TypedStep DEF HistoryInv
  <2> QED  BY <1>2, <2>1 DEF vars, HistoryInv, ListsInv, FileIsKnown, KnownInv, ExecutedOnce,
                              Executed, Trades
<1> QED  BY <1>1, <1>2

\* Idempotency, as long as no trade was forgotten: while the entries made fit
\* MAX_TRADES, a process executes an analysis once, over any deaths and restarts of
\* both processes and any interleaving of theirs, unless the answer to the order was
\* lost or the process died before the trade was flushed (executor.maybe_execute
\* asks memory.was_analysis_executed).
THEOREM ExecutesOnce ==
    ASSUME MaxEntries < MaxTrades
    PROVE  Spec => []ExecutedOnce
<1>1. Init => HistoryInv
    BY HistoryInit
<1>2. HistoryInv /\ [Next]_vars => HistoryInv'
    BY HistoryStep
<1>3. HistoryInv => ExecutedOnce
    BY DEF HistoryInv
<1> QED  BY <1>1, <1>2, <1>3, PTL DEF Spec
---------------------------------------------------------------------------
(* The re-entry cap.                                                       *)

\* What leads the loop to an order, and what a step does to the entries it knows.
LEMMA LoopOrders ==
    ASSUME Typed, Next, pc'[Loop] = "order"
    PROVE  \/ pc[Loop] = "order" /\ cur'[Loop] = cur[Loop] /\ lossAt' = lossAt
           \/ \E a \in Analyses : /\ Admitted(Loop, a) /\ pc[Loop] = "idle" /\ cur'[Loop] = a
                                  /\ UNCHANGED <<now, fills, lossAt>>
<1> USE Constants DEF Goto
<1>0. /\ pc \in [Procs -> {"down", "idle", "order", "note", "context", "pop", "row", "arm"}]
      /\ cur \in [Procs -> Analyses \cup {None}]
    BY DEF Typed, TypeOK
<1> DEFINE Goal == \/ pc[Loop] = "order" /\ cur'[Loop] = cur[Loop] /\ lossAt' = lossAt
                   \/ \E a \in Analyses : /\ Admitted(Loop, a) /\ pc[Loop] = "idle" /\ cur'[Loop] = a
                                          /\ UNCHANGED <<now, fills, lossAt>>
<1>1. ASSUME NEW p \in Procs, NEW a \in Analyses, Attempt(p, a) PROVE Goal
  <2>1. CASE p = Loop /\ Admitted(p, a)
    <3>1. pc[Loop] = "idle" /\ cur'[Loop] = a /\ UNCHANGED <<now, fills, lossAt>>
        BY <1>0, <1>1, <2>1 DEF Attempt
    <3> QED  BY <2>1, <3>1
  <2>2. CASE p # Loop
      BY <1>0, <1>1, <2>2 DEF Attempt
  <2>3. CASE ~Admitted(p, a)
      BY <1>0, <1>1, <2>3 DEF Attempt
  <2> QED  BY <2>1, <2>2, <2>3
<1>2. ASSUME NEW p \in Procs, Order(p) \/ Rejected(p) \/ Note(p) \/ Context(p) PROVE Goal
    BY <1>0, <1>2 DEF Order, Rejected, Note, Context
<1>3. ASSUME NEW p \in Procs, Crash(p) \/ Boot(p) PROVE Goal
    BY <1>0, <1>3 DEF Crash, Boot
<1>4. ASSUME NEW c \in Coins, Close(c) \/ ExternalClose(c) \/ AlreadyFlat(c) \/ Vanish(c) PROVE Goal
    BY <1>0, <1>4 DEF Close, ExternalClose, AlreadyFlat, Vanish
<1>5. CASE Tick \/ Pop \/ RecordClose \/ Arm \/ Heartbeat
    BY <1>0, <1>5 DEF Tick, Pop, RecordClose, Arm, Heartbeat
<1> QED  BY <1>1, <1>2, <1>3, <1>4, <1>5 DEF Next

LEMMA TimePasses ==
    ASSUME Typed, Next
    PROVE  now' \in Nat /\ now <= now'
<1>1. now \in Nat
    BY EntryTypes
<1>2. CASE Tick
    BY <1>1, <1>2 DEF Tick
<1>3. CASE now' = now
    BY <1>1, <1>3
<1>4. CASE Pop \/ RecordClose \/ Arm \/ Heartbeat
    BY <1>3, <1>4 DEF Pop, RecordClose, Arm, Heartbeat
<1>5. ASSUME NEW c \in Coins, Close(c) \/ ExternalClose(c) \/ AlreadyFlat(c) \/ Vanish(c)
      PROVE  now' \in Nat /\ now <= now'
    BY <1>3, <1>5 DEF Close, ExternalClose, AlreadyFlat, Vanish
<1>6. ASSUME NEW p \in Procs, NEW a \in Analyses, Attempt(p, a) PROVE now' \in Nat /\ now <= now'
    BY <1>3, <1>6 DEF Attempt
<1>7. ASSUME NEW p \in Procs, Order(p) \/ Rejected(p) \/ Note(p) \/ Context(p) \/ Crash(p) \/ Boot(p)
      PROVE  now' \in Nat /\ now <= now'
    BY <1>3, <1>7 DEF Order, Rejected, Note, Context, Crash, Boot
<1> QED  BY <1>2, <1>4, <1>5, <1>6, <1>7 DEF Next

LEMMA KnownOnlyShrink ==
    ASSUME Typed, Next, ~Order(Loop)
    PROVE  \A f \in fills' : f.by = Loop /\ ~f.lost => f \in fills
<1> USE Constants
<1>1. CASE fills' = fills
    BY <1>1
<1>2. CASE Quiet
    BY <1>1, <1>2 DEF Quiet
<1>3. ASSUME NEW p \in Procs, Note(p) \/ Boot(p)
      PROVE  \A f \in fills' : f.by = Loop /\ ~f.lost => f \in fills
    BY <1>1, <1>3 DEF Note, Boot
<1>4. ASSUME NEW p \in Procs, Crash(p)
      PROVE  \A f \in fills' : f.by = Loop /\ ~f.lost => f \in fills
    BY <1>4, CrashKeeps DEF Typed
<1>5. ASSUME NEW p \in Procs, Order(p)
      PROVE  \A f \in fills' : f.by = Loop /\ ~f.lost => f \in fills
  <2>1. p # Loop
      BY <1>5
  <2>2. PICK lost \in BOOLEAN : fills' = fills \cup {Fill(p, lost)}
      BY <1>5, OrderLeaves
  <2>3. Fill(p, lost).by # Loop
      BY <2>1 DEF Fill
  <2> QED  BY <2>2, <2>3
<1> QED  BY <1>2, <1>3, <1>4, <1>5, QuietSteps DEF Typed

LEMMA WithinFinite ==
    ASSUME Typed, NEW c, NEW t, NEW S \in SUBSET Within(c, t)
    PROVE  /\ IsFiniteSet(Within(c, t)) /\ Cardinality(Within(c, t)) \in Nat
           /\ IsFiniteSet(S) /\ Cardinality(S) \in Nat /\ Cardinality(S) <= Cardinality(Within(c, t))
<1>1. Within(c, t) \in SUBSET fills
    BY DEF Within
<1>2. IsFiniteSet(Within(c, t))
    BY <1>1, EntryTypes, FS_Subset
<1> QED  BY <1>2, FS_Subset, FS_CardinalityType

\* The entries of a coin that the loop knows of are at most the trades it counts.
LEMMA CountCoversEntries ==
    ASSUME HistoryInv, NEW c \in Coins, pc[Loop] = "idle"
    PROVE  Cardinality(Within(c, now)) <= EntriesSince(Loop, c) /\ EntriesSince(Loop, c) \in Nat
<1> USE Constants
<1> DEFINE s == mem[Loop].trades
           W == Within(c, now)
           I == {i \in DOMAIN s : CoinOf[s[i].a] = c /\ s[i].at >= now - Window}
           h == [f \in W |-> CHOOSE i \in DOMAIN s : s[i].a = f.a /\ s[i].at >= f.at]
<1>1. /\ s \in Seq(Trade) /\ Len(s) \in Nat /\ DOMAIN s = 1 .. Len(s)
      /\ \A i \in DOMAIN s : s[i].a \in Analyses /\ s[i].at \in Nat
  <2>1. mem[Loop] \in Memory
      BY DEF HistoryInv, Typed, TypeOK
  <2> QED  BY <2>1, MemoryParts DEF Times
<1>2. IsFiniteSet(I)
  <2>1. IsFiniteSet(1 .. Len(s))
      BY <1>1, FS_Interval
  <2>2. I \in SUBSET (1 .. Len(s))
      BY <1>1
  <2> QED  BY <2>1, <2>2, FS_Subset
<1>3. ASSUME NEW f \in W
      PROVE  h[f] \in I /\ s[h[f]].a = f.a
  <2>1. f \in fills /\ f.by = Loop /\ CoinOf[f.a] = c /\ ~f.lost /\ f.at >= now - Window
      BY DEF Within
  <2>2. Listed(f, s)
      BY <2>1 DEF HistoryInv, KnownInv
  <2>3. h[f] \in DOMAIN s /\ s[h[f]].a = f.a /\ s[h[f]].at >= f.at
      BY <2>2 DEF Listed
  <2>4. f.at \in Nat /\ now \in Nat
      BY <2>1, EntryTypes DEF HistoryInv
  <2> HIDE DEF h, s
  <2> QED  BY <1>1, <2>1, <2>3, <2>4
<1>4. h \in Injection(W, I)
  <2>1. h \in [W -> I]
    <3>1. h = [f \in W |-> h[f]]
        OBVIOUS
    <3> HIDE DEF h, W, I
    <3> QED  BY <1>3, <3>1
  <2>2. ASSUME NEW f \in W, NEW g \in W, h[f] = h[g] PROVE f = g
    <3>1. f.a = g.a
      <4> HIDE DEF h, W, I, s
      <4> QED  BY <1>3, <2>2
    <3>2. f \in fills /\ g \in fills /\ f.by = g.by /\ ~f.lost /\ ~g.lost
        BY DEF Within
    <3>3. f.n = g.n
      <4>1. g.n <= f.n /\ f.n <= g.n
          BY <3>1, <3>2 DEF HistoryInv, ExecutedOnce
      <4> QED  BY <3>2, <4>1, EntryTypes DEF HistoryInv
    <3> QED  BY <3>2, <3>3 DEF HistoryInv, Typed, Numbered
  <2> HIDE DEF h, W, I
  <2> QED  BY <2>1, <2>2 DEF Injection, IsInjective
<1>5. Cardinality(W) <= Cardinality(I) /\ Cardinality(I) \in Nat
  <2> HIDE DEF h, W, I
  <2> QED  BY <1>2, <1>4, FS_Injection, FS_CardinalityType
<1>6. EntriesSince(Loop, c) = Cardinality(I)
    BY DEF EntriesSince, Trades
<1> QED  BY <1>5, <1>6

LEMMA RoomStep ==
    ASSUME HistoryInv, RoomInv, Next
    PROVE  RoomInv'
<1> USE Constants
<1> SUFFICES ASSUME Cap > 0, pc'[Loop] = "order"
             PROVE  Cardinality(Within(CoinOf[cur[Loop]], now)') < Cap
    BY DEF RoomInv
<1>0. Typed
    BY DEF HistoryInv
<1>1. CASE pc[Loop] = "order" /\ cur'[Loop] = cur[Loop]
  <2> DEFINE c == CoinOf[cur[Loop]]
  <2>1. ~Order(Loop)
      BY <1>0, <1>1, OrderLeaves DEF Typed, TypeOK
  <2>2. \A f \in fills' : f.by = Loop /\ ~f.lost => f \in fills
      BY <1>0, <2>1, KnownOnlyShrink
  <2>3. now \in Nat /\ now' \in Nat /\ now <= now'
        /\ \A f \in fills : f.at \in Nat /\ f.at <= now
      BY <1>0, EntryTypes, TimePasses
  <2>4. Within(CoinOf[cur[Loop]], now)' \in SUBSET Within(c, now)
      BY <1>1, <2>2, <2>3 DEF Within
  <2>5. Cardinality(Within(c, now)) < Cap
      BY <1>1 DEF RoomInv
  <2> HIDE DEF c
  <2> QED  BY <1>0, <2>4, <2>5, WithinFinite
<1>2. ASSUME NEW a \in Analyses, Admitted(Loop, a), pc[Loop] = "idle", cur'[Loop] = a,
             UNCHANGED <<now, fills>>
      PROVE  Cardinality(Within(CoinOf[cur[Loop]], now)') < Cap
  <2>1. Within(CoinOf[cur[Loop]], now)' = Within(CoinOf[a], now)
      BY <1>2 DEF Within
  <2>2. EntriesSince(Loop, CoinOf[a]) < Cap
      BY <1>2 DEF Admitted
  <2>3. Cardinality(Within(CoinOf[a], now)) <= EntriesSince(Loop, CoinOf[a])
        /\ EntriesSince(Loop, CoinOf[a]) \in Nat /\ Cardinality(Within(CoinOf[a], now)) \in Nat
      BY <1>0, <1>2, CountCoversEntries, WithinFinite
  <2> QED  BY <2>1, <2>2, <2>3
<1> QED  BY <1>0, <1>1, <1>2, LoopOrders

LEMMA CapStep ==
    ASSUME HistoryInv, RoomInv, ReentryCapped, Next
    PROVE  ReentryCapped'
<1> USE Constants
<1>0. Typed
    BY DEF HistoryInv
<1> SUFFICES ASSUME Cap > 0, NEW c \in Coins, NEW t \in Times
             PROVE  Cardinality(Within(c, t)') <= Cap
    BY DEF ReentryCapped, Within
<1>1. Cardinality(Within(c, t)) <= Cap /\ Cardinality(Within(c, t)) \in Nat
      /\ IsFiniteSet(Within(c, t))
    BY <1>0, WithinFinite DEF ReentryCapped, Within
<1>2. CASE ~Order(Loop)
  <2>1. Within(c, t)' \in SUBSET Within(c, t)
      BY <1>0, <1>2, KnownOnlyShrink DEF Within
  <2> QED  BY <1>0, <1>1, <2>1, WithinFinite
<1>3. CASE Order(Loop)
  <2>1. PICK lost \in BOOLEAN : fills' = fills \cup {Fill(Loop, lost)}
      BY <1>0, <1>3, OrderLeaves
  <2> DEFINE g == Fill(Loop, lost)
  <2>2. fills' = fills \cup {g} /\ g.a = cur[Loop] /\ g.at = now
      BY <2>1 DEF Fill
  <2>3. pc[Loop] = "order"
      BY <1>3 DEF Order
  <2> HIDE DEF g
  <2>4. CASE CoinOf[g.a] = c /\ g.at <= t /\ g.at >= t - Window
    <3>1. \A f \in fills : f.at \in Nat /\ f.at <= now
        BY <1>0, EntryTypes
    <3>2. now \in Nat /\ t \in Nat
        BY <1>0, EntryTypes DEF Times
    <3>3. Within(c, t) \in SUBSET Within(c, now)
        BY <2>2, <2>4, <3>1, <3>2 DEF Within
    <3>4. Cardinality(Within(c, now)) < Cap
        BY <2>2, <2>3, <2>4 DEF RoomInv
    <3>5. Cardinality(Within(c, t)) < Cap
        BY <1>0, <3>3, <3>4, WithinFinite
    <3>6. Within(c, t)' \subseteq Within(c, t) \cup {g}
        BY <2>2 DEF Within
    <3>7. /\ IsFiniteSet(Within(c, t) \cup {g})
          /\ Cardinality(Within(c, t) \cup {g}) <= Cardinality(Within(c, t)) + 1
          /\ Cardinality(Within(c, t) \cup {g}) \in Nat
      <4>1. /\ IsFiniteSet(Within(c, t) \cup {g})
            /\ Cardinality(Within(c, t) \cup {g})
                 = IF g \in Within(c, t) THEN Cardinality(Within(c, t)) ELSE Cardinality(Within(c, t)) + 1
          BY <1>1, FS_AddElement
      <4> QED  BY <1>1, <4>1, FS_CardinalityType
    <3>8. Cardinality(Within(c, t)') <= Cardinality(Within(c, t) \cup {g})
          /\ Cardinality(Within(c, t)') \in Nat
        BY <3>6, <3>7, FS_Subset, FS_CardinalityType
    <3> QED  BY <1>1, <3>5, <3>7, <3>8
  <2>5. CASE ~(CoinOf[g.a] = c /\ g.at <= t /\ g.at >= t - Window)
    <3>1. Within(c, t)' = Within(c, t)
        BY <2>2, <2>5 DEF Within
    <3> QED  BY <1>1, <3>1
  <2> QED  BY <2>4, <2>5
<1> QED  BY <1>2, <1>3

\* Anti-churn, as long as no trade was forgotten: while the entries made fit
\* MAX_TRADES, no window of reentry_cap.window_hours holds more entries of a coin by
\* the loop than the cap, restarts, lost answers and the server's entries included;
\* the entries a death made it forget are not counted (executor.maybe_execute asks
\* memory.count_entries_since before the order).
THEOREM CapHolds ==
    ASSUME MaxEntries < MaxTrades
    PROVE  Spec => []ReentryCapped
<1> DEFINE Inv == HistoryInv /\ RoomInv /\ ReentryCapped
<1>1. Init => Inv
  <2> SUFFICES ASSUME Init PROVE Inv
      OBVIOUS
  <2>1. HistoryInv
      BY HistoryInit
  <2>2. pc[Loop] # "order" /\ fills = {}
      BY Constants DEF Init
  <2>3. \A c \in Coins, t \in Times : Within(c, t) = {} /\ Cardinality(Within(c, t)) = 0
      BY <2>2, FS_EmptySet DEF Within
  <2>4. ReentryCapped
      BY <2>3, Constants DEF ReentryCapped, Within
  <2> QED  BY <2>1, <2>2, <2>4 DEF RoomInv
<1>2. Inv /\ [Next]_vars => Inv'
  <2> SUFFICES ASSUME Inv, [Next]_vars PROVE Inv'
      OBVIOUS
  <2>1. HistoryInv'
      BY HistoryStep
  <2>2. CASE Next
      BY <2>1, <2>2, RoomStep, CapStep
  <2>3. CASE UNCHANGED vars
      BY <2>1, <2>3 DEF vars, RoomInv, ReentryCapped, Within
  <2> QED  BY <2>2, <2>3
<1>3. Inv => ReentryCapped
    OBVIOUS
<1> QED  BY <1>1, <1>2, <1>3, PTL DEF Spec
---------------------------------------------------------------------------
(* The loss cooldown.                                                      *)

LEMMA BlockTypes ==
    ASSUME Typed
    PROVE  /\ now \in Nat /\ lossAt \in [Coins -> Times \cup {Never}]
           /\ \A c \in Coins : lossAt[c] \in Int /\ disk.until[c] \in Nat
           /\ \A p \in Procs, c \in Coins : mem[p].until[c] \in Nat
           /\ disk \in Memory /\ \A p \in Procs : mem[p] \in Memory
<1>1. /\ now \in Nat /\ lossAt \in [Coins -> Times \cup {Never}]
      /\ disk \in Memory /\ \A p \in Procs : mem[p] \in Memory
    BY EntryTypes DEF Typed, TypeOK
<1>2. ASSUME NEW m \in Memory, NEW c \in Coins PROVE m.until[c] \in Nat
  <2>1. m.until \in Untils
      BY MemoryParts
  <2> QED  BY <2>1, Constants DEF Untils
<1>3. \A c \in Coins : lossAt[c] \in Int
    BY <1>1 DEF Times, Never
<1> QED  BY <1>1, <1>2, <1>3

\* A step that records no loss, and changes no block that is not over.
LEMMA StandsOn ==
    ASSUME Typed, Stands, Next, lossAt' = lossAt,
           pc[Loop] = "arm" => pc'[Loop] = "arm" /\ ending'.coin = ending.coin,
           pc'[Loop] # "down" =>
              \A c \in Coins : \/ pc[Loop] # "down" /\ mem'[Loop].until[c] = mem[Loop].until[c]
                               \/ pc[Loop] # "down" /\ mem[Loop].until[c] <= now
                               \/ mem'[Loop].until[c] = disk.until[c]
                               \/ disk.until[c] <= now,
           \A c \in Coins : \/ disk'.until[c] = disk.until[c]
                            \/ pc[Loop] # "down" /\ disk'.until[c] = mem[Loop].until[c]
    PROVE  Stands'
<1> SUFFICES ASSUME NEW c \in Coins, lossAt[c] # Never
             PROVE  (OverAt(c) \/ InForce(c) \/ (pc[Loop] = "arm" /\ ending.coin = c))'
    BY DEF Stands
<1>1. now \in Nat /\ now' \in Nat /\ now <= now' /\ lossAt[c] \in Int /\ LossCooldown \in Nat
      /\ disk.until[c] \in Nat /\ mem[Loop].until[c] \in Nat
    BY BlockTypes, TimePasses, Constants
<1>2. CASE OverAt(c)
    BY <1>1, <1>2 DEF OverAt
<1>3. CASE pc[Loop] = "arm" /\ ending.coin = c
    BY <1>3
<1>4. CASE InForce(c) /\ ~OverAt(c)
    BY <1>1, <1>4 DEF OverAt, InForce
<1> QED  BY <1>2, <1>3, <1>4 DEF Stands

LEMMA StandsStep ==
    ASSUME Typed, LossPast, Stands, Next
    PROVE  Stands'
<1> USE Constants DEF Goto
<1>0. /\ pc \in [Procs -> {"down", "idle", "order", "note", "context", "pop", "row", "arm"}]
      /\ mem \in [Procs -> Memory] /\ disk \in Memory /\ now \in Times
      /\ \A p \in Procs : mem[p] \in Memory /\ Len(mem[p].trades) <= MaxTrades
    BY DEF Typed, TypeOK
<1>a. /\ \A p \in Procs : pc[p] \in {"order", "note", "context"} => cur[p] \in Analyses
      /\ pc[Loop] \in {"pop", "row", "arm"} => ending.coin \in Coins
    BY DEF Typed, InHand
<1>1. CASE Tick
    BY <1>1, StandsOn DEF Tick
<1>2. ASSUME NEW p \in Procs, NEW a \in Analyses, Attempt(p, a) PROVE Stands'
  <2>1. /\ lossAt' = lossAt /\ disk' = disk /\ pc[p] = "idle"
        /\ mem' = [mem EXCEPT ![p] = Unblocked(mem[p], CoinOf[a])]
        /\ pc' = pc \/ pc' = [pc EXCEPT ![p] = "order"]
      BY <1>2 DEF Attempt, Write
  <2>2. \A c \in Coins : mem'[p].until[c] = mem[p].until[c] \/ mem[p].until[c] <= now
      BY <1>0, <2>1, UnblockedIs
  <2>3. CASE p = Loop
      BY <1>0, <2>1, <2>2, <2>3, StandsOn
  <2>4. CASE p # Loop
    <3>1. mem'[Loop] = mem[Loop] /\ pc'[Loop] = pc[Loop] /\ ending' = ending
        BY <1>0, <1>2, <2>1, <2>4 DEF Attempt
    <3> QED  BY <2>1, <3>1, StandsOn
  <2> QED  BY <2>3, <2>4
<1>3. ASSUME NEW p \in Procs, Order(p) \/ Rejected(p) PROVE Stands'
  <2>1. /\ UNCHANGED <<lossAt, disk, mem, ending>> /\ pc[p] = "order"
        /\ \E where \in {"note", "idle"} : pc' = [pc EXCEPT ![p] = where]
      BY <1>3 DEF Order, Rejected
  <2> QED  BY <1>0, <2>1, StandsOn
<1>4. ASSUME NEW p \in Procs, Note(p) PROVE Stands'
  <2>1. /\ UNCHANGED <<lossAt, disk, ending>> /\ pc[p] = "note" /\ pc' = [pc EXCEPT ![p] = "context"]
        /\ mem' = [mem EXCEPT ![p] = Noted(mem[p], cur[p])]
      BY <1>4 DEF Note, Write
  <2>2. mem'[p].until = mem[p].until
      BY <1>0, <1>a, <2>1, NotedIs
  <2>3. mem'[Loop].until = mem[Loop].until
      BY <1>0, <2>1, <2>2
  <2> QED  BY <1>0, <2>1, <2>3, StandsOn
<1>5. ASSUME NEW p \in Procs, Context(p) PROVE Stands'
  <2> DEFINE m == [mem[p] EXCEPT !.ctx[CoinOf[cur[p]]] = cur[p]]
  <2>1. /\ UNCHANGED <<lossAt, ending>> /\ pc[p] = "context" /\ pc' = [pc EXCEPT ![p] = "idle"]
        /\ mem' = [mem EXCEPT ![p] = m] /\ disk' = IF p = Loop THEN m ELSE disk
      BY <1>5 DEF Context, Write
  <2>2. m.until = mem[p].until
      BY <1>0, <1>a, <2>1, CtxIs
  <2> HIDE DEF m
  <2>3. /\ mem'[Loop].until = mem[Loop].until
        /\ disk' = disk \/ (pc[Loop] # "down" /\ disk'.until = mem[Loop].until)
      BY <1>0, <2>1, <2>2
  <2> QED  BY <1>0, <2>1, <2>3, StandsOn
<1>6. ASSUME NEW c \in Coins, Close(c) \/ ExternalClose(c) \/ AlreadyFlat(c) \/ Vanish(c) PROVE Stands'
  <2>1. /\ UNCHANGED <<lossAt, disk, mem>> /\ (ending' = ending \/ pc[Loop] = "idle")
        /\ pc' = pc \/ (pc[Loop] = "idle" /\ pc' = [pc EXCEPT ![Loop] = "pop"])
      BY <1>6 DEF Close, ExternalClose, AlreadyFlat, Vanish
  <2> QED  BY <1>0, <2>1, StandsOn
<1>7. CASE Pop
  <2> DEFINE m == Popped(mem[Loop], ending.coin)
  <2>1. /\ lossAt' = lossAt /\ pc[Loop] = "pop" /\ pc' = [pc EXCEPT ![Loop] = "row"]
        /\ mem' = [mem EXCEPT ![Loop] = m] /\ (disk' = m \/ disk' = disk)
      BY <1>7 DEF Pop, Write
  <2>2. m.until = mem[Loop].until
      BY <1>0, <1>a, <2>1, CtxIs DEF Popped
  <2> HIDE DEF m
  <2>3. /\ mem'[Loop].until = mem[Loop].until
        /\ disk' = disk \/ (pc[Loop] # "down" /\ disk'.until = mem[Loop].until)
      BY <1>0, <2>1, <2>2
  <2> QED  BY <1>0, <2>1, <2>3, StandsOn
<1>8. CASE Heartbeat
  <2>1. UNCHANGED <<lossAt, pc, ending, mem>> /\ pc[Loop] # "down" /\ disk' = mem[Loop]
      BY <1>0, <1>8 DEF Heartbeat, Write
  <2> QED  BY <2>1, StandsOn
<1>9. ASSUME NEW p \in Procs, Boot(p) PROVE Stands'
  <2>1. /\ UNCHANGED <<lossAt, disk, ending>> /\ pc[p] = "down" /\ pc' = [pc EXCEPT ![p] = "idle"]
        /\ mem' = [mem EXCEPT ![p] = Loaded]
      BY <1>9 DEF Boot
  <2>2. \A c \in Coins : mem'[p].until[c] = disk.until[c] \/ disk.until[c] <= now
      BY <1>0, <2>1, LoadedIs
  <2>3. CASE p = Loop
      BY <1>0, <2>1, <2>2, <2>3, StandsOn
  <2>4. CASE p # Loop
    <3>1. mem'[Loop] = mem[Loop] /\ pc'[Loop] = pc[Loop]
        BY <1>0, <2>1, <2>4
    <3> QED  BY <2>1, <3>1, StandsOn
  <2> QED  BY <2>3, <2>4
<1>10. CASE RecordClose
  <2>1. /\ now' = now /\ UNCHANGED mem /\ disk' = mem[Loop] /\ pc[Loop] = "row" /\ ending.coin \in Coins
        /\ lossAt' = IF ending.loss THEN [lossAt EXCEPT ![ending.coin] = now] ELSE lossAt
        /\ IF ending.loss /\ LossCooldown > 0
             THEN pc' = [pc EXCEPT ![Loop] = "arm"] /\ ending' = ending
             ELSE pc' = [pc EXCEPT ![Loop] = "idle"]
      BY <1>0, <1>a, <1>10 DEF RecordClose, Write
  <2>2. ASSUME NEW c \in Coins, lossAt'[c] # Never
        PROVE  (OverAt(c) \/ InForce(c) \/ (pc[Loop] = "arm" /\ ending.coin = c))'
    <3>1. now \in Nat /\ lossAt \in [Coins -> Times \cup {Never}] /\ lossAt[c] \in Int
        BY BlockTypes
    <3>2. CASE ending.loss /\ c = ending.coin
      <4>1. CASE LossCooldown > 0
        <5>1. pc'[Loop] = "arm" /\ ending' = ending
            BY <1>0, <2>1, <3>2, <4>1
        <5> QED  BY <3>2, <5>1
      <4>2. CASE LossCooldown = 0
        <5>1. lossAt'[c] = now
            BY <2>1, <3>1, <3>2
        <5> QED  BY <2>1, <3>1, <4>2, <5>1 DEF OverAt
      <4> QED  BY <4>1, <4>2
    <3>3. CASE ~(ending.loss /\ c = ending.coin)
      <4>1. lossAt'[c] = lossAt[c]
          BY <2>1, <3>1, <3>3
      <4>2. OverAt(c) \/ InForce(c)
          BY <2>1, <2>2, <4>1 DEF Stands
      <4>3. CASE OverAt(c)
          BY <2>1, <4>1, <4>3 DEF OverAt
      <4>4. CASE InForce(c)
          BY <2>1, <4>1, <4>4 DEF InForce
      <4> QED  BY <4>2, <4>3, <4>4
    <3> QED  BY <3>2, <3>3
  <2> QED  BY <2>2 DEF Stands
<1>11. CASE Arm
  <2> DEFINE m == Blocked(mem[Loop], ending.coin)
  <2>1. /\ UNCHANGED <<now, lossAt>> /\ pc[Loop] = "arm" /\ ending.coin \in Coins
        /\ mem'[Loop] = m /\ disk' = m
      BY <1>0, <1>a, <1>11 DEF Arm, Write
  <2>2. m.until = [mem[Loop].until EXCEPT ![ending.coin] = now + LossCooldown] /\ mem[Loop].until \in Untils
      BY <1>0, <2>1, BlockedIs, MemoryParts
  <2> HIDE DEF m
  <2>3. ASSUME NEW c \in Coins, lossAt[c] # Never PROVE (OverAt(c) \/ InForce(c))'
    <3>1. now \in Nat /\ lossAt[c] \in Int /\ mem[Loop].until[c] \in Nat
        BY BlockTypes
    <3>2. CASE c = ending.coin
      <4>1. m.until[c] = now + LossCooldown /\ lossAt[c] <= now
          BY <2>2, <3>2 DEF Untils, LossPast
      <4> QED  BY <2>1, <3>1, <4>1 DEF InForce
    <3>3. CASE c # ending.coin
      <4>1. OverAt(c) \/ InForce(c)
          BY <2>3, <3>3 DEF Stands
      <4>2. m.until[c] = mem[Loop].until[c]
          BY <2>2, <3>3 DEF Untils
      <4>3. CASE OverAt(c)
          BY <2>1, <4>3 DEF OverAt
      <4>4. CASE InForce(c)
          BY <2>1, <4>2, <4>4 DEF InForce
      <4> QED  BY <4>1, <4>3, <4>4
    <3> QED  BY <3>2, <3>3
  <2> QED  BY <2>1, <2>3 DEF Stands
<1>12. ASSUME NEW p \in Procs, Crash(p) PROVE Stands'
  <2>1. CASE p = Loop
    <3>1. /\ now' = now /\ disk' = disk /\ pc'[Loop] = "down" /\ pc[Loop] # "down"
          /\ lossAt' = IF pc[Loop] = "arm" THEN [lossAt EXCEPT ![ending.coin] = Never] ELSE lossAt
        BY <1>0, <1>12, <2>1 DEF Crash
    <3>2. lossAt \in [Coins -> Times \cup {Never}]
        BY BlockTypes
    <3>3. ASSUME NEW c \in Coins, lossAt'[c] # Never PROVE (OverAt(c) \/ InForce(c))'
      <4>1. lossAt'[c] = lossAt[c] /\ ~(pc[Loop] = "arm" /\ ending.coin = c)
          BY <3>1, <3>2, <3>3
      <4>2. OverAt(c) \/ InForce(c)
          BY <3>3, <4>1 DEF Stands
      <4> QED  BY <3>1, <4>1, <4>2 DEF OverAt, InForce
    <3> QED  BY <3>3 DEF Stands
  <2>2. CASE p # Loop
    <3>1. /\ lossAt' = lossAt /\ disk' = disk /\ mem'[Loop] = mem[Loop]
          /\ pc'[Loop] = pc[Loop] /\ ending' = ending
        BY <1>0, <1>12, <2>2 DEF Crash
    <3> QED  BY <3>1, StandsOn
  <2> QED  BY <2>1, <2>2
<1> QED  BY <1>1, <1>2, <1>3, <1>4, <1>5, <1>6, <1>7, <1>8, <1>9, <1>10, <1>11, <1>12 DEF Next

LEMMA LossPastStep ==
    ASSUME Typed, LossPast, Next
    PROVE  LossPast'
<1> SUFFICES ASSUME NEW c \in Coins PROVE lossAt'[c] <= now'
    BY DEF LossPast
<1>1. now \in Nat /\ now' \in Nat /\ now <= now' /\ lossAt[c] \in Int /\ lossAt[c] <= now
      /\ lossAt \in [Coins -> Times \cup {Never}]
    BY BlockTypes, TimePasses DEF LossPast
<1>2. ASSUME lossAt' = lossAt PROVE lossAt'[c] <= now'
    BY <1>1, <1>2
<1>3. CASE RecordClose
    BY <1>1, <1>3 DEF RecordClose
<1>4. ASSUME NEW p \in Procs, Crash(p) PROVE lossAt'[c] <= now'
    BY <1>1, <1>4 DEF Crash, Never
<1>5. CASE Tick \/ Pop \/ Arm \/ Heartbeat
    BY <1>2, <1>5 DEF Tick, Pop, Arm, Heartbeat
<1>6. ASSUME NEW d \in Coins, Close(d) \/ ExternalClose(d) \/ AlreadyFlat(d) \/ Vanish(d)
      PROVE  lossAt'[c] <= now'
    BY <1>2, <1>6 DEF Close, ExternalClose, AlreadyFlat, Vanish
<1>7. ASSUME NEW p \in Procs, NEW a \in Analyses, Attempt(p, a) PROVE lossAt'[c] <= now'
    BY <1>2, <1>7 DEF Attempt
<1>8. ASSUME NEW p \in Procs, Order(p) \/ Rejected(p) \/ Note(p) \/ Context(p) \/ Boot(p)
      PROVE  lossAt'[c] <= now'
    BY <1>2, <1>8 DEF Order, Rejected, Note, Context, Boot
<1> QED  BY <1>3, <1>4, <1>5, <1>6, <1>7, <1>8 DEF Next

LEMMA OrderFreeStep ==
    ASSUME Typed, Stands, OrderFree, Next
    PROVE  OrderFree'
<1> SUFFICES ASSUME pc'[Loop] = "order", lossAt'[CoinOf[cur'[Loop]]] # Never
             PROVE  OverAt(CoinOf[cur[Loop]])'
    BY DEF OrderFree
<1>1. now \in Nat /\ now' \in Nat /\ now <= now' /\ LossCooldown \in Nat
    BY BlockTypes, TimePasses, Constants
<1>2. CASE pc[Loop] = "order" /\ cur'[Loop] = cur[Loop] /\ lossAt' = lossAt
  <2>1. CoinOf[cur[Loop]] \in Coins
      BY <1>2, Constants DEF Typed, InHand
  <2>2. lossAt[CoinOf[cur[Loop]]] \in Int
      BY <2>1, BlockTypes
  <2>3. OverAt(CoinOf[cur[Loop]])
      BY <1>2 DEF OrderFree
  <2> QED  BY <1>1, <1>2, <2>2, <2>3 DEF OverAt
<1>3. ASSUME NEW a \in Analyses, Admitted(Loop, a), pc[Loop] = "idle", cur'[Loop] = a,
             UNCHANGED <<now, lossAt>>
      PROVE  OverAt(CoinOf[cur[Loop]])'
  <2>1. CoinOf[a] \in Coins /\ mem[Loop].until[CoinOf[a]] <= now
      BY <1>3, Constants DEF Admitted, LossOver
  <2>2. lossAt[CoinOf[a]] \in Int /\ mem[Loop].until[CoinOf[a]] \in Nat
      BY <2>1, BlockTypes, Constants
  <2>3. OverAt(CoinOf[a])
      BY <1>1, <1>3, <2>1, <2>2 DEF Stands, InForce, OverAt
  <2> QED  BY <1>3, <2>3 DEF OverAt
<1> QED  BY <1>2, <1>3, LoopOrders

\* Anti-revenge: after a recorded loss the loop does not enter the coin for
\* loss_cooldown_min, whatever is flushed, restarted or traded by the server in
\* between; only a death between the row and the cooldown lifts the block
\* (executor.maybe_execute, memory.set_loss_cooldown and its load).
THEOREM LossBlocks == Spec => LossBlocksReentry
<1> DEFINE Blocks == \A f \in NewEntries(Loop) :
                        LET t == lossAt[CoinOf[f.a]] IN t # Never => now >= t + LossCooldown
<1>1. Init => Typed /\ BlockInv
  <2> SUFFICES ASSUME Init PROVE Typed /\ BlockInv
      OBVIOUS
  <2>1. BlockInv
      BY Constants DEF Init, BlockInv, LossPast, Stands, OrderFree, Never
  <2> QED  BY <2>1, TypedInit
<1>2. Typed /\ BlockInv /\ [Next]_vars => (Typed /\ BlockInv)'
  <2> SUFFICES ASSUME Typed, BlockInv, [Next]_vars PROVE (Typed /\ BlockInv)'
      OBVIOUS
  <2>1. Typed'
      BY TypedStep
  <2>2. CASE Next
      BY <2>1, <2>2, LossPastStep, StandsStep, OrderFreeStep DEF BlockInv
  <2>3. CASE UNCHANGED vars
      BY <2>1, <2>3 DEF vars, BlockInv, LossPast, Stands, OrderFree, OverAt, InForce
  <2> QED  BY <2>2, <2>3
<1>3. Typed /\ BlockInv /\ [Next]_vars => [Blocks]_vars
  <2> SUFFICES ASSUME Typed, BlockInv, Next, NEW f \in NewEntries(Loop), lossAt[CoinOf[f.a]] # Never
               PROVE  now >= lossAt[CoinOf[f.a]] + LossCooldown
      BY DEF NewEntries
  <2>1. f \in fills' /\ f.by = Loop /\ f.n > Cardinality(fills)
      BY DEF NewEntries
  <2>2. \A g \in fills : g.n \in Nat /\ g.n <= Cardinality(fills)
      BY EntryTypes
  <2>3. f \notin fills /\ Cardinality(fills) \in Nat
      BY <2>1, <2>2, EntryTypes
  <2>4. Order(Loop)
    <3>1. ASSUME NEW p \in Procs, Crash(p) PROVE FALSE
      <4>1. PICK g \in fills : f.n = g.n
          BY <2>1, <3>1, CrashKeeps DEF Typed
      <4> QED  BY <2>1, <2>2, <2>3, <4>1
    <3>2. ASSUME NEW p \in Procs, Order(p) PROVE p = Loop
      <4>1. PICK lost \in BOOLEAN : fills' = fills \cup {Fill(p, lost)}
          BY <3>2, OrderLeaves
      <4>2. f = Fill(p, lost)
          BY <2>1, <2>3, <4>1
      <4> QED  BY <2>1, <4>2 DEF Fill
    <3>3. ASSUME NEW p \in Procs, Note(p) \/ Boot(p) PROVE FALSE
        BY <2>1, <2>3, <3>3 DEF Note, Boot
    <3>4. ~Quiet
        BY <2>1, <2>3 DEF Quiet
    <3> QED  BY <3>1, <3>2, <3>3, <3>4, QuietSteps DEF Typed
  <2>5. f.a = cur[Loop] /\ pc[Loop] = "order"
    <3>1. PICK lost \in BOOLEAN : fills' = fills \cup {Fill(Loop, lost)}
        BY <2>4, OrderLeaves, Constants
    <3>2. f = Fill(Loop, lost)
        BY <2>1, <2>3, <3>1
    <3> QED  BY <2>4, <3>2 DEF Fill, Order
  <2> QED  BY <2>5 DEF BlockInv, OrderFree, OverAt
<1> QED  BY <1>1, <1>2, <1>3, PTL DEF Spec, LossBlocksReentry
---------------------------------------------------------------------------
(* Rows and entry contexts.                                                *)

LEMMA ContextStep ==
    ASSUME Typed, ContextInv, Next
    PROVE  ContextInv'
<1> USE Constants DEF Goto
<1>0. /\ pc \in [Procs -> {"down", "idle", "order", "note", "context", "pop", "row", "arm"}]
      /\ cur \in [Procs -> Analyses \cup {None}]
      /\ mem \in [Procs -> Memory] /\ disk \in Memory /\ now \in Times
      /\ \A p \in Procs : mem[p] \in Memory /\ Len(mem[p].trades) <= MaxTrades
      /\ pos \in [Coins -> SUBSET Analyses] /\ gone \in [Coins -> SUBSET Analyses]
      /\ skipped \in [Coins -> BOOLEAN]
      /\ disk.ctx \in [Coins -> Analyses \cup {None}]
      /\ \A p \in Procs : mem[p].ctx \in [Coins -> Analyses \cup {None}]
    BY MemoryParts DEF Typed, TypeOK
<1>a. /\ \A p \in Procs : pc[p] \in {"order", "note", "context"} => cur[p] \in Analyses
      /\ pc[Loop] \in {"pop", "row", "arm"} => ending.coin \in Coins
    BY DEF Typed, InHand
<1> USE DEF ContextInv, SameInFile, HeldOrGone, Closing, OfPosition, EnteredIsSeen, RowIsRight
<1>1. ASSUME UNCHANGED <<pos, gone, skipped, ending>>, disk'.ctx = disk.ctx,
             mem'[Loop].ctx = mem[Loop].ctx, pc'[Loop] = pc[Loop], cur'[Loop] = cur[Loop]
      PROVE  ContextInv'
    BY <1>1
<1>2. ASSUME UNCHANGED <<pos, gone, skipped>>, disk'.ctx = disk.ctx,
             mem'[Loop].ctx = mem[Loop].ctx, pc[Loop] \in {"idle", "order", "row", "arm"},
             pc'[Loop] \in {"idle", "order", "arm"}
      PROVE  ContextInv'
    BY <1>2
<1>3. CASE Tick
    BY <1>1, <1>3 DEF Tick
<1>4. ASSUME NEW p \in Procs, NEW a \in Analyses, Attempt(p, a) PROVE ContextInv'
  <2>1. /\ UNCHANGED <<pos, gone, skipped, ending>> /\ disk' = disk /\ pc[p] = "idle"
        /\ mem' = [mem EXCEPT ![p] = Unblocked(mem[p], CoinOf[a])]
        /\ \/ pc' = pc /\ cur' = cur
           \/ pc' = [pc EXCEPT ![p] = "order"] /\ cur' = [cur EXCEPT ![p] = a]
      BY <1>4 DEF Attempt, Write
  <2>2. Unblocked(mem[p], CoinOf[a]).ctx = mem[p].ctx
      BY <1>0, UnblockedIs
  <2>3. mem'[Loop].ctx = mem[Loop].ctx
      BY <1>0, <2>1, <2>2
  <2>4. CASE p = Loop
      BY <1>0, <1>2, <2>1, <2>3, <2>4
  <2>5. CASE p # Loop
      BY <1>0, <1>1, <2>1, <2>3, <2>5
  <2> QED  BY <2>4, <2>5
<1>5. ASSUME NEW p \in Procs, Order(p) PROVE ContextInv'
  <2> DEFINE c == CoinOf[cur[p]]
  <2>1. /\ pc[p] = "order" /\ cur[p] \in Analyses /\ c \in Coins /\ UNCHANGED <<mem, disk, ending>>
        /\ pos' = [pos EXCEPT ![c] = @ \cup {cur[p]}] /\ gone' = [gone EXCEPT ![c] = {}]
        /\ skipped' = [skipped EXCEPT ![c] = @ \/ gone[c] # {}]
      BY <1>a, <1>5 DEF Order
  <2>2. /\ \A d \in Coins : d # c => pos'[d] = pos[d] /\ gone'[d] = gone[d] /\ (skipped'[d] <=> skipped[d])
        /\ pos'[c] = pos[c] \cup {cur[p]} /\ gone'[c] = {}
        /\ ~skipped'[c] => ~skipped[c] /\ gone[c] = {}
    <3>1. /\ \A d \in Coins : d # c => pos'[d] = pos[d] /\ gone'[d] = gone[d]
          /\ pos'[c] = pos[c] \cup {cur[p]} /\ gone'[c] = {}
      <4> HIDE DEF c
      <4> QED  BY <1>0, <2>1
    <3>2. \A d \in Coins : d # c => skipped'[d] = skipped[d]
      <4> HIDE DEF c
      <4> QED  BY <1>0, <2>1
    <3>3. skipped'[c] = (skipped[c] \/ gone[c] # {})
      <4> HIDE DEF c
      <4> QED  BY <1>0, <2>1
    <3> QED  BY <3>1, <3>2, <3>3
  <2>3. \/ pc'[Loop] = pc[Loop] /\ cur'[Loop] = cur[Loop]
        \/ p = Loop /\ pc'[Loop] = "idle"
        \/ p = Loop /\ pc'[Loop] = "note" /\ cur' = cur
      BY <1>0, <1>5 DEF Order
  <2> HIDE DEF c
  <2>4. SameInFile' /\ HeldOrGone'
      BY <2>1, <2>2, <2>3
  <2>5. \A d \in Coins : Closing(d)' <=> Closing(d)
      BY <2>1, <2>3
  <2>6. OfPosition'
      BY <2>1, <2>2, <2>5
  <2>7. EnteredIsSeen'
    <3>1. CASE p = Loop /\ pc'[Loop] = "note" /\ cur' = cur
        BY <2>2, <3>1 DEF c
    <3>2. CASE pc'[Loop] = pc[Loop] /\ cur'[Loop] = cur[Loop]
      <4> SUFFICES ASSUME pc[Loop] \in {"note", "context"}
                   PROVE  skipped'[CoinOf[cur[Loop]]] \/ cur[Loop] \in pos'[CoinOf[cur[Loop]]] \cup gone'[CoinOf[cur[Loop]]]
          BY <3>2
      <4>1. skipped[CoinOf[cur[Loop]]] \/ cur[Loop] \in pos[CoinOf[cur[Loop]]] \cup gone[CoinOf[cur[Loop]]]
          OBVIOUS
      <4>2. CoinOf[cur[Loop]] \in Coins
          BY <1>a
      <4> QED  BY <2>2, <4>1, <4>2
    <3> QED  BY <2>3, <3>1, <3>2
  <2>8. RowIsRight'
      BY <1>a, <2>1, <2>2, <2>3
  <2> QED  BY <2>4, <2>6, <2>7, <2>8
<1>6. ASSUME NEW p \in Procs, Rejected(p) PROVE ContextInv'
  <2>1. /\ UNCHANGED <<pos, gone, skipped, ending, mem, disk>> /\ pc[p] = "order"
        /\ pc' = [pc EXCEPT ![p] = "idle"] /\ cur' = [cur EXCEPT ![p] = None]
      BY <1>6 DEF Rejected
  <2>2. CASE p = Loop
      BY <1>0, <1>2, <2>1, <2>2
  <2>3. CASE p # Loop
      BY <1>0, <1>1, <2>1, <2>3
  <2> QED  BY <2>2, <2>3
<1>7. ASSUME NEW p \in Procs, Note(p) PROVE ContextInv'
  <2>1. /\ UNCHANGED <<pos, gone, skipped, ending, disk, cur>> /\ pc[p] = "note"
        /\ pc' = [pc EXCEPT ![p] = "context"] /\ mem' = [mem EXCEPT ![p] = Noted(mem[p], cur[p])]
      BY <1>7 DEF Note, Write
  <2>2. Noted(mem[p], cur[p]).ctx = mem[p].ctx
      BY <1>0, <1>a, <2>1, NotedIs
  <2>3. mem'[Loop].ctx = mem[Loop].ctx
      BY <1>0, <2>1, <2>2
  <2>4. \/ pc'[Loop] = pc[Loop]
        \/ pc[Loop] = "note" /\ pc'[Loop] = "context"
      BY <1>0, <2>1
  <2> QED  BY <2>1, <2>3, <2>4
<1>8. ASSUME NEW p \in Procs, Context(p) PROVE ContextInv'
  <2> DEFINE c == CoinOf[cur[p]]
             m == [mem[p] EXCEPT !.ctx[c] = cur[p]]
  <2>1. /\ UNCHANGED <<pos, gone, ending>> /\ pc[p] = "context" /\ cur[p] \in Analyses /\ c \in Coins
        /\ pc' = [pc EXCEPT ![p] = "idle"] /\ cur' = [cur EXCEPT ![p] = None]
        /\ mem' = [mem EXCEPT ![p] = m] /\ disk' = IF p = Loop THEN m ELSE disk
        /\ skipped' = [skipped EXCEPT ![c] = @ /\ ~(p = Loop /\ cur[p] \in pos[c])]
      BY <1>a, <1>8 DEF Context, Write
  <2>2. m.ctx = [mem[p].ctx EXCEPT ![c] = cur[p]]
      BY <1>0, <2>1, CtxIs
  <2> HIDE DEF m
  <2>3. CASE p # Loop
    <3>1. skipped' = skipped
        BY <1>0, <2>1, <2>3
    <3>2. /\ disk' = disk /\ mem'[Loop] = mem[Loop] /\ pc'[Loop] = pc[Loop] /\ cur'[Loop] = cur[Loop]
        BY <1>0, <2>1, <2>3
    <3> QED  BY <1>1, <2>1, <3>1, <3>2
  <2>4. CASE p = Loop
    <3>1. /\ mem'[Loop] = m /\ disk' = m /\ pc'[Loop] = "idle" /\ pc[Loop] = "context"
        BY <1>0, <2>1, <2>4
    <3>2. /\ m.ctx[c] = cur[Loop]
          /\ \A d \in Coins : d # c => m.ctx[d] = disk.ctx[d] /\ (skipped'[d] <=> skipped[d])
          /\ ~skipped'[c] => ~skipped[c] \/ cur[Loop] \in pos[c]
      <4>1. mem[Loop].ctx = disk.ctx
          BY <3>1
      <4>2. m.ctx[c] = cur[Loop] /\ \A d \in Coins : d # c => m.ctx[d] = disk.ctx[d]
          BY <1>0, <2>1, <2>2, <2>4, <4>1
      <4>3. /\ \A d \in Coins : d # c => (skipped'[d] <=> skipped[d])
            /\ ~skipped'[c] => ~skipped[c] \/ cur[Loop] \in pos[c]
          BY <1>0, <2>1, <2>4
      <4> QED  BY <4>2, <4>3
    <3>3. ~skipped'[c] => cur[Loop] \in pos[c] \cup gone[c]
        BY <2>4, <3>1, <3>2
    <3> HIDE DEF c
    <3>4. OfPosition'
        BY <2>1, <3>1, <3>2, <3>3
    <3> QED  BY <2>1, <3>1, <3>4
  <2> QED  BY <2>3, <2>4
<1>9. ASSUME NEW c \in Coins, Close(c) PROVE ContextInv'
  <2>1. /\ pc[Loop] = "idle" /\ pos[c] # {} /\ gone[c] = {} /\ UNCHANGED <<gone, mem, disk, cur>>
        /\ \A d \in Coins : pos'[d] = IF d = c THEN {} ELSE pos[d]
      BY <1>0, <1>9 DEF Close
  <2>2. CASE ending'.coin = c /\ ending'.was = pos[c] /\ pc'[Loop] = "pop" /\ skipped' = skipped
      BY <2>1, <2>2
  <2>3. CASE skipped' = [skipped EXCEPT ![c] = TRUE] /\ pc' = pc /\ ending' = ending
    <3>1. \A d \in Coins : ~skipped'[d] => d # c /\ ~skipped[d]
        BY <1>0, <2>3
    <3> QED  BY <2>1, <2>3, <3>1
  <2>4. \/ ending'.coin = c /\ ending'.was = pos[c] /\ pc'[Loop] = "pop" /\ skipped' = skipped
        \/ skipped' = [skipped EXCEPT ![c] = TRUE] /\ pc' = pc /\ ending' = ending
      BY <1>0, <1>9 DEF Close
  <2> QED  BY <2>2, <2>3, <2>4
<1>10. ASSUME NEW c \in Coins, ExternalClose(c) PROVE ContextInv'
  <2>1. /\ pc[Loop] = "idle" /\ gone[c] # {} /\ pos[c] = {} /\ UNCHANGED <<pos, mem, disk, cur, skipped>>
        /\ \A d \in Coins : gone'[d] = IF d = c THEN {} ELSE gone[d]
        /\ ending'.coin = c /\ ending'.was = gone[c] /\ pc'[Loop] = "pop"
      BY <1>0, <1>10 DEF ExternalClose
  <2> QED  BY <2>1
<1>11. ASSUME NEW c \in Coins, AlreadyFlat(c) PROVE ContextInv'
  <2>1. /\ pc[Loop] = "idle" /\ UNCHANGED <<pos, mem, disk, cur, pc, ending>>
        /\ \A d \in Coins : gone'[d] = IF d = c THEN {} ELSE gone[d]
        /\ \A d \in Coins : ~skipped'[d] => d # c /\ ~skipped[d]
      BY <1>0, <1>11 DEF AlreadyFlat
  <2> QED  BY <2>1
<1>12. ASSUME NEW c \in Coins, Vanish(c) PROVE ContextInv'
  <2>1. /\ pos[c] # {} /\ gone[c] = {} /\ UNCHANGED <<mem, disk, pc, cur, ending, skipped>>
        /\ \A d \in Coins : pos'[d] = IF d = c THEN {} ELSE pos[d]
        /\ \A d \in Coins : gone'[d] = IF d = c THEN pos[c] ELSE gone[d]
      BY <1>0, <1>12 DEF Vanish
  <2>2. \A d \in Coins : pos'[d] \cup gone'[d] = pos[d] \cup gone[d]
      BY <2>1
  <2>3. HeldOrGone' /\ SameInFile' /\ RowIsRight'
      BY <2>1
  <2>4. OfPosition'
      BY <2>1, <2>2
  <2>5. EnteredIsSeen'
      BY <1>a, <2>1, <2>2
  <2> QED  BY <2>3, <2>4, <2>5
<1>13. CASE Pop
  <2> DEFINE c == ending.coin
             m == Popped(mem[Loop], c)
  <2>1. /\ pc[Loop] = "pop" /\ c \in Coins /\ UNCHANGED <<pos, gone, cur, skipped>>
        /\ pc'[Loop] = "row" /\ mem'[Loop] = m
        /\ disk' = IF mem[Loop].ctx[c] # None THEN m ELSE disk
        /\ ending' = [ending EXCEPT !.ctx = mem[Loop].ctx[c]]
      BY <1>0, <1>a, <1>13 DEF Pop, Write
  <2>2. /\ ending'.coin = c /\ ending'.was = ending.was /\ ending'.ctx = mem[Loop].ctx[c]
      BY <2>1 DEF Typed, TypeOK
  <2>3. m.ctx = [mem[Loop].ctx EXCEPT ![c] = None] /\ mem[Loop].ctx = disk.ctx
      BY <1>0, <2>1, CtxIs DEF Popped
  <2> HIDE DEF m
  <2>4. SameInFile'
    <3>1. CASE mem[Loop].ctx[c] # None
        BY <2>1, <3>1
    <3>2. CASE mem[Loop].ctx[c] = None
      <4>1. m.ctx = mem[Loop].ctx
          BY <1>0, <2>1, <2>3, <3>2
      <4> QED  BY <2>1, <2>3, <3>2, <4>1
    <3> QED  BY <3>1, <3>2
  <2>5. \A d \in Coins : disk'.ctx[d] = IF d = c THEN None ELSE disk.ctx[d]
      BY <1>0, <2>1, <2>3
  <2>6. OfPosition'
      BY <2>1, <2>5
  <2>7. RowIsRight'
      BY <2>1, <2>2, <2>3
  <2> QED  BY <2>1, <2>4, <2>6, <2>7
<1>14. CASE RecordClose
  <2>1. /\ UNCHANGED <<pos, gone, cur, skipped, mem>> /\ disk' = mem[Loop]
        /\ pc[Loop] = "row" /\ pc'[Loop] \in {"arm", "idle"}
      BY <1>0, <1>14 DEF RecordClose, Write
  <2> QED  BY <1>2, <2>1
<1>15. CASE Arm
  <2>1. /\ UNCHANGED <<pos, gone, cur, skipped>> /\ pc[Loop] = "arm" /\ pc'[Loop] = "idle"
        /\ mem'[Loop] = Blocked(mem[Loop], ending.coin) /\ disk' = Blocked(mem[Loop], ending.coin)
      BY <1>0, <1>15 DEF Arm, Write
  <2>2. Blocked(mem[Loop], ending.coin).ctx = mem[Loop].ctx
      BY <1>0, <1>a, <2>1, BlockedIs
  <2> QED  BY <1>2, <2>1, <2>2
<1>16. CASE Heartbeat
  <2>1. UNCHANGED <<pos, gone, cur, skipped, mem, pc, ending>> /\ disk' = mem[Loop] /\ pc[Loop] = "idle"
      BY <1>0, <1>16 DEF Heartbeat, Write
  <2> QED  BY <1>2, <2>1
<1>17. ASSUME NEW p \in Procs, Crash(p) PROVE ContextInv'
  <2>1. CASE p # Loop
    <3>1. /\ UNCHANGED <<pos, gone, disk, ending>> /\ mem'[Loop] = mem[Loop] /\ skipped' = skipped
          /\ pc'[Loop] = pc[Loop] /\ cur'[Loop] = cur[Loop]
        BY <1>0, <1>17, <2>1 DEF Crash
    <3> QED  BY <1>1, <3>1
  <2>2. CASE p = Loop
    <3>1. /\ UNCHANGED <<pos, gone, disk>> /\ pc'[Loop] = "down"
          /\ skipped' = IF pc[Loop] \in {"pop", "row"}
                        THEN [skipped EXCEPT ![ending.coin] = TRUE] ELSE skipped
        BY <1>0, <1>17, <2>2 DEF Crash
    <3>2. \A d \in Coins : ~skipped'[d] => ~skipped[d] /\ ~Closing(d)
        BY <1>0, <1>a, <3>1
    <3> QED  BY <3>1, <3>2
  <2> QED  BY <2>1, <2>2
<1>18. ASSUME NEW p \in Procs, Boot(p) PROVE ContextInv'
  <2>1. /\ UNCHANGED <<pos, gone, skipped, ending, disk, cur>> /\ pc[p] = "down"
        /\ pc' = [pc EXCEPT ![p] = "idle"] /\ mem' = [mem EXCEPT ![p] = Loaded]
      BY <1>18 DEF Boot
  <2>2. Loaded.ctx = disk.ctx
      BY <1>0, LoadedIs
  <2>3. CASE p = Loop
    <3>1. mem'[Loop].ctx = disk.ctx /\ pc'[Loop] = "idle" /\ pc[Loop] = "down"
        BY <1>0, <2>1, <2>2, <2>3
    <3> QED  BY <2>1, <3>1
  <2>4. CASE p # Loop
      BY <1>0, <1>1, <2>1, <2>4
  <2> QED  BY <2>3, <2>4
<1> QED  BY <1>3, <1>4, <1>5, <1>6, <1>7, <1>8, <1>9, <1>10, <1>11, <1>12, <1>13, <1>14,
            <1>15, <1>16, <1>17, <1>18 DEF Next

\* An outcome row carries the entry context of the position it closes, or none: never
\* that of an earlier trade, unless one ended without a row (executor:
\* close_position_market and record_external_position_close pop what
\* record_entry_context kept, and the file survives a restart).
THEOREM RowsMatch == Spec => RowsMatchEntries
<1>1. Init => Typed /\ ContextInv
  <2> SUFFICES ASSUME Init PROVE Typed /\ ContextInv
      OBVIOUS
  <2>1. /\ disk = Fresh /\ mem[Loop] = Fresh /\ pc[Loop] = "idle"
        /\ \A c \in Coins : pos[c] = {} /\ disk.ctx[c] = None
      BY Constants, FreshIs DEF Init
  <2>2. ContextInv
      BY <2>1 DEF ContextInv, SameInFile, HeldOrGone, OfPosition, EnteredIsSeen, RowIsRight
  <2> QED  BY <2>2, TypedInit
<1>2. Typed /\ ContextInv /\ [Next]_vars => (Typed /\ ContextInv)'
  <2> SUFFICES ASSUME Typed, ContextInv, [Next]_vars PROVE (Typed /\ ContextInv)'
      OBVIOUS
  <2>1. Typed'
      BY TypedStep
  <2>2. CASE Next
      BY <2>1, <2>2, ContextStep
  <2>3. CASE UNCHANGED vars
      BY <2>1, <2>3 DEF vars, ContextInv, SameInFile, HeldOrGone, Closing, OfPosition,
                        EnteredIsSeen, RowIsRight
  <2> QED  BY <2>2, <2>3
<1>3. Typed /\ ContextInv => (RecordClose /\ ~skipped[ending.coin] => ending.ctx \in ending.was \cup {None})
    BY DEF ContextInv, RowIsRight, RecordClose
<1> QED  BY <1>1, <1>2, <1>3, PTL DEF Spec, RowsMatchEntries
=============================================================================
