------------------------- MODULE AgentConfig_proofs -------------------------
(***************************************************************************)
(* Theorems about AgentConfig, for every set of books and of requests that *)
(* can be in flight together, and every bound on updates and deaths.       *)
(***************************************************************************)
EXTENDS AgentConfig, FiniteSetTheorems, TLAPS

\* Where a writer can be, and when it has a file open.
Shape ==
    /\ \A w \in Writers \ {Cycle} : pc[w] \in {"idle", "await", "merged", "fill", "replace"}
    /\ pc[Cycle] \in {"idle", "grading", "open", "fill"}
    /\ \A w \in Writers : handle[w] # NoFile <=> pc[w] \in {"fill", "replace"}

\* A writer writes what it read, changed as it was told.
WritesItsRead ==
    /\ \A w \in Writers \ {Cycle} :
          Writing(w) => new[w] = Merged(snap[w], ask[w])
    /\ pc[Cycle] \in {"open", "fill"} => new[Cycle].on = snap[Cycle].on

\* Under way, and it has read the file since the last OFF or demotion landed.
UpToDate(w) == pc[w] # "idle" /\ w \notin behind /\ ~over

\* What such a writer read, it read after the OFF.
OffInv == stopped => \A w \in Writers : UpToDate(w) => ~snap[w].on

\* The live books that such a writer read, and those the cycle is to write, are earned;
\* so are those in the file, whether or not the mode is LIVE.
EarnedInv ==
    /\ ~over /\ data[path] # Torn => data[path].live \subseteq earned
    /\ \A w \in Writers : UpToDate(w) => snap[w].live \subseteq earned
    /\ UpToDate(Cycle) /\ pc[Cycle] \in {"open", "fill"} => new[Cycle].live \subseteq earned

\* Unless the temporary file was shared, its name leads to the one writer that has it
\* open, nobody writes to the file itself but the cycle, and it is whole when it is
\* moved there.
AloneInv ==
    ~shared =>
        /\ \A v, w \in Writers : v # w /\ handle[v] = handle[w] => handle[v] = NoFile
        /\ \A w \in Writers \ {Cycle} : handle[w] \in {NoFile, tmp}
        /\ handle[Cycle] # NoFile => handle[Cycle] # tmp
        /\ \A w \in Writers : pc[w] = "replace" => data[handle[w]] # Torn
---------------------------------------------------------------------------
(* Configurations, updates and inodes.                                     *)

LEMMA ConfigType ==
    /\ Default \in Config /\ Torn \notin Config
    /\ \A c \in Config : /\ c.on \in BOOLEAN /\ c.live \subseteq Books
                         /\ Decided(c) \in Config /\ Decided(c).on = c.on
                         /\ \A b \in Decided(c).live :
                               b \in c.live \/ (b \in Books \ NeverPromote /\ grade[b] = "validated")
<1>1. Default \in Config /\ Torn \notin Config
    BY ConfigAssumption DEF ConfigAssumption, Default, Config
<1>2. ASSUME NEW c \in Config
      PROVE  /\ c.on \in BOOLEAN /\ c.live \subseteq Books
             /\ Decided(c) \in Config /\ Decided(c).on = c.on
             /\ \A b \in Decided(c).live :
                   b \in c.live \/ (b \in Books \ NeverPromote /\ grade[b] = "validated")
  <2> DEFINE L == {b \in Books : \/ b \in c.live /\ grade[b] # "refuted"
                                 \/ grade[b] = "validated" /\ b \notin NeverPromote}
  <2>1. Decided(c) = [c EXCEPT !.live = L]
      BY DEF Decided
  <2>2. L \subseteq Books /\ \A b \in L : b \in c.live \/ (b \in Books \ NeverPromote /\ grade[b] = "validated")
      OBVIOUS
  <2> HIDE DEF L
  <2> QED  BY <2>1, <2>2 DEF Config
<1> QED  BY <1>1, <1>2

LEMMA MergedType ==
    ASSUME NEW c \in Config, NEW u \in Updates
    PROVE  /\ Merged(c, u) \in Config
           /\ u.book \in Books
           /\ u.what \in {"off", "live", "enable", "shadow", "other"}
           /\ u.what = "off" => ~Merged(c, u).on
           /\ u.what \notin {"off", "live"} => Merged(c, u).on = c.on
           /\ u.what = "enable" => Merged(c, u).live = c.live \cup {u.book}
           /\ u.what = "shadow" => Merged(c, u).live = c.live \ {u.book}
           /\ u.what \notin {"enable", "shadow"} => Merged(c, u).live = c.live
<1>1. u.what \in {"off", "live", "enable", "shadow", "other"} /\ u.book \in Books
    BY DEF Updates
<1>2. c \in [on : BOOLEAN, live : SUBSET Books]
    BY DEF Config
<1>3. CASE u.what = "off"
    BY <1>1, <1>2, <1>3 DEF Merged, Config
<1>4. CASE u.what = "live"
    BY <1>1, <1>2, <1>4 DEF Merged, Config
<1>5. CASE u.what = "enable"
    BY <1>1, <1>2, <1>5 DEF Merged, Config
<1>6. CASE u.what = "shadow"
    BY <1>1, <1>2, <1>6 DEF Merged, Config
<1>7. CASE u.what = "other"
    BY <1>1, <1>2, <1>7 DEF Merged, Config
<1> QED  BY <1>1, <1>3, <1>4, <1>5, <1>6, <1>7

LEMMA NoUpdateType == NoUpdate \in Updates
<1>1. (CHOOSE b \in Books : TRUE) \in Books
    BY ConfigAssumption DEF ConfigAssumption
<1>2. ASSUME NEW b \in Books PROVE [what |-> "other", book |-> b] \in Updates
    BY DEF Updates
<1> QED  BY <1>1, <1>2 DEF NoUpdate

LEMMA WritersType ==
    /\ Cycle \in Writers /\ Mcp \in Writers /\ Mcp # Cycle
    /\ \A r \in Requests : r \in Writers /\ r # Cycle
    /\ MaxUpdates \in Nat /\ MaxTurns \in Nat /\ MaxDeaths \in Nat
<1>1. Mcp # Cycle
    BY DEF Mcp, Cycle
<1> QED  BY <1>1, ConfigAssumption DEF ConfigAssumption, Writers

LEMMA WritersFinite == IsFiniteSet(Writers)
<1>1. IsFiniteSet(Requests \cup {Mcp})
    BY ConfigAssumption, FS_AddElement DEF ConfigAssumption
<1>2. IsFiniteSet((Requests \cup {Mcp}) \cup {Cycle})
    BY <1>1, FS_AddElement
<1>3. Writers = (Requests \cup {Mcp}) \cup {Cycle}
    BY DEF Writers
<1> QED  BY <1>2, <1>3

LEMMA InodesArePositive == \A i \in Inodes : i \in Nat /\ i # NoFile
    BY WritersFinite, FS_CardinalityType DEF Inodes, NoFile

LEMMA ReadType == TypeOK => Read \in Config
    BY ConfigType DEF TypeOK, Read

(* There are inodes enough for a writer to find one that is not in use. *)
LEMMA InodeFree ==
    ASSUME TypeOK, NEW w \in Writers, handle[w] = NoFile
    PROVE  \E j \in Inodes : j # path /\ j \notin Held
<1> DEFINE V == Writers \ {w}
           f == [v \in V |-> handle[v]]
           T == {f[v] : v \in V}
           n == Cardinality(Writers)
<1>1. IsFiniteSet(V) /\ Cardinality(V) = n - 1 /\ n \in Nat
    BY WritersFinite, FS_RemoveElement, FS_CardinalityType
<1>2. f \in Surjection(V, T)
    BY DEF Surjection
<1>3. IsFiniteSet(T) /\ Cardinality(T) <= n - 1 /\ Cardinality(T) \in Nat
    BY <1>1, <1>2, FS_Surjection, FS_CardinalityType
<1>4. IsFiniteSet(T \cup {path}) /\ Cardinality(T \cup {path}) <= n /\ Cardinality(T \cup {path}) \in Nat
  <2> HIDE DEF T, n
  <2>1. /\ IsFiniteSet(T \cup {path})
        /\ Cardinality(T \cup {path}) = IF path \in T THEN Cardinality(T) ELSE Cardinality(T) + 1
      BY <1>3, FS_AddElement
  <2> QED  BY <1>1, <1>3, <2>1
<1>5. Cardinality(Inodes) = n + 1
    BY <1>1, FS_Interval DEF Inodes
<1>6. ~(Inodes \subseteq T \cup {path})
  <2> SUFFICES ASSUME Inodes \subseteq T \cup {path} PROVE FALSE
      OBVIOUS
  <2>1. Cardinality(Inodes) <= Cardinality(T \cup {path})
      BY <1>4, FS_Subset
  <2> QED  BY <1>1, <1>4, <1>5, <2>1
<1>7. PICK j \in Inodes : j \notin T /\ j # path
    BY <1>6
<1>8. j # NoFile
    BY <1>7, InodesArePositive
<1> QED  BY <1>7, <1>8 DEF Held

(* open(tmp, "w") never opens the file itself. *)
LEMMA OpensAside ==
    ASSUME TypeOK, Shape, NEW w \in Writers, OpenTmp(w)
    PROVE  /\ tmp' \in Inodes /\ tmp' # path /\ w # Cycle
           /\ tmp = NoFile => tmp' \notin Held
           /\ tmp # NoFile => tmp' = tmp
           /\ data' = [data EXCEPT ![tmp'] = Torn]
           /\ handle' = [handle EXCEPT ![w] = tmp']
           /\ shared' = (shared \/ tmp' \in Held)
<1>1. w # Cycle /\ handle[w] = NoFile
    BY DEF Shape, OpenTmp
<1>2. CASE tmp # NoFile
    BY <1>1, <1>2 DEF OpenTmp, TypeOK
<1>3. CASE tmp = NoFile
  <2> DEFINE i == CHOOSE j \in Inodes : j # path /\ j \notin Held
  <2>1. i \in Inodes /\ i # path /\ i \notin Held
      BY <1>1, InodeFree
  <2> QED  BY <1>1, <1>3, <2>1 DEF OpenTmp
<1> QED  BY <1>2, <1>3
---------------------------------------------------------------------------
(* Types.                                                                  *)

PCs == {"idle", "await", "merged", "fill", "replace", "grading", "open"}

\* The types of a writer's locals.
LocalsOK ==
    /\ pc \in [Writers -> PCs]
    /\ snap \in [Writers -> Config] /\ new \in [Writers -> Config]
    /\ handle \in [Writers -> Inodes \cup {NoFile}]
    /\ ask \in [Writers -> Updates]
    /\ Shape

(* A handler that is over leaves no file open. *)
LEMMA FinishType ==
    ASSUME LocalsOK, NEW S, Finish(S)
    PROVE  LocalsOK'
<1>1. pc' \in [Writers -> PCs]
    BY DEF LocalsOK, Finish, PCs
<1>2. snap' \in [Writers -> Config] /\ new' \in [Writers -> Config]
    BY ConfigType DEF LocalsOK, Finish
<1>3. handle' \in [Writers -> Inodes \cup {NoFile}]
    BY DEF LocalsOK, Finish
<1>4. ask' \in [Writers -> Updates]
    BY NoUpdateType DEF LocalsOK, Finish
<1>5. Cycle \in Writers
    BY DEF Writers
<1>6. Shape'
    BY <1>5 DEF LocalsOK, Finish, Shape
<1> QED  BY <1>1, <1>2, <1>3, <1>4, <1>6 DEF LocalsOK

(* Every variable keeps its type; the cycle has no temporary file and the  *)
(* other writers have nothing else; the file and its temporary name are    *)
(* never one inode.                                                        *)
LEMMA TypeStep == TypeOK /\ Shape /\ [Next]_vars => TypeOK' /\ Shape'
<1> SUFFICES ASSUME TypeOK, Shape, [Next]_vars PROVE TypeOK' /\ Shape'
    OBVIOUS
<1> USE DEF file, ghosts, counts, Goto, PCs
<1>0. /\ LocalsOK
      /\ Cycle \in Writers /\ Mcp \in Writers /\ Mcp # Cycle
      /\ \A r \in Requests : r \in Writers /\ r # Cycle
      /\ \A i \in Inodes : i # NoFile
      /\ MaxUpdates \in Nat /\ MaxTurns \in Nat /\ MaxDeaths \in Nat
  <2>1. LocalsOK
      BY DEF LocalsOK, TypeOK
  <2>2. \A i \in Inodes : i # NoFile
      BY InodesArePositive
  <2> QED  BY <2>1, <2>2, WritersType
<1>1. LocalsOK' /\ path' \in Inodes /\ tmp' \in Inodes \cup {NoFile} /\ path' # tmp'
         /\ data' \in [Inodes -> Config \cup {Torn}] /\ grade' \in [Books -> Grades]
         /\ updates' \in 0 .. MaxUpdates /\ turns' \in 0 .. MaxTurns /\ deaths' \in 0 .. MaxDeaths
         /\ behind' \subseteq Writers /\ earned' \subseteq Books
         /\ {stopped', over', cut', shared'} \subseteq BOOLEAN
      => TypeOK' /\ Shape'
    BY DEF TypeOK, LocalsOK
<1>2. ASSUME NEW r \in Requests, ApiRead(r) PROVE TypeOK' /\ Shape'
  <2>1. LocalsOK'
      BY <1>0, <1>2, ReadType DEF ApiRead, LocalsOK, Shape
  <2>2. updates' \in 0 .. MaxUpdates /\ earned' \subseteq Books
      BY <1>0, <1>2 DEF ApiRead, Reset, TypeOK
  <2> QED  BY <1>1, <1>2, <2>1, <2>2 DEF ApiRead, TypeOK
<1>3. ASSUME NEW r \in Requests, ApiBody(r) PROVE TypeOK' /\ Shape'
  <2>1. PICK u \in Updates : /\ ask' = [ask EXCEPT ![r] = u]
                             /\ new' = [new EXCEPT ![r] = Merged(snap[r], u)]
      BY <1>3 DEF ApiBody
  <2>2. Merged(snap[r], u) \in Config
      BY <1>0, MergedType DEF LocalsOK
  <2>3. LocalsOK'
      BY <1>0, <1>3, <2>1, <2>2 DEF ApiBody, LocalsOK, Shape
  <2> QED  BY <1>1, <1>3, <2>3 DEF ApiBody, TypeOK
<1>4. ASSUME NEW r \in Requests, ApiRefuse(r) PROVE TypeOK' /\ Shape'
  <2>1. LocalsOK'
      BY <1>0, <1>4, FinishType DEF ApiRefuse
  <2> QED  BY <1>1, <1>4, <2>1 DEF ApiRefuse, TypeOK
<1>5. CASE McpUpdate
  <2>1. PICK u \in McpUpdates : /\ ask' = [ask EXCEPT ![Mcp] = u]
                                /\ new' = [new EXCEPT ![Mcp] = Merged(Read, u)]
      BY <1>5 DEF McpUpdate
  <2>2. u \in Updates /\ Merged(Read, u) \in Config
      BY ReadType, MergedType DEF McpUpdates
  <2>3. LocalsOK'
      BY <1>0, <1>5, <2>1, <2>2, ReadType DEF McpUpdate, LocalsOK, Shape
  <2>4. updates' \in 0 .. MaxUpdates /\ earned' \subseteq Books
      BY <1>0, <1>5 DEF McpUpdate, Reset, TypeOK
  <2> QED  BY <1>1, <1>5, <2>3, <2>4 DEF McpUpdate, TypeOK
<1>6. ASSUME NEW w \in Writers, OpenTmp(w) PROVE TypeOK' /\ Shape'
  <2>1. /\ tmp' \in Inodes /\ tmp' # path /\ w # Cycle
        /\ data' = [data EXCEPT ![tmp'] = Torn]
        /\ handle' = [handle EXCEPT ![w] = tmp']
        /\ shared' = (shared \/ tmp' \in Held)
      BY <1>6, OpensAside
  <2>2. LocalsOK'
      BY <1>0, <1>6, <2>1 DEF OpenTmp, LocalsOK, Shape
  <2>3. path' \in Inodes /\ path' # tmp' /\ data' \in [Inodes -> Config \cup {Torn}]
      BY <1>6, <2>1 DEF OpenTmp, TypeOK
  <2>4. shared' \in BOOLEAN
      BY <2>1
  <2> QED  BY <1>1, <1>6, <2>1, <2>2, <2>3, <2>4 DEF OpenTmp, TypeOK
<1>7. ASSUME NEW w \in Writers, Fill(w) PROVE TypeOK' /\ Shape'
  <2>1. LocalsOK'
      BY <1>0, <1>7 DEF Fill, LocalsOK, Shape
  <2>2. PICK x \in Contents(w) : data' = [data EXCEPT ![handle[w]] = x]
      BY <1>7 DEF Fill, Filled
  <2>3. x \in Config \cup {Torn}
      BY DEF Contents, TypeOK
  <2>4. data' \in [Inodes -> Config \cup {Torn}]
      BY <2>2, <2>3 DEF TypeOK
  <2>5. over' \in BOOLEAN
      BY <1>7 DEF Fill, Filled
  <2> QED  BY <1>1, <1>7, <2>1, <2>4, <2>5 DEF Fill, TypeOK
<1>8. ASSUME NEW w \in Writers, Replace(w) PROVE TypeOK' /\ Shape'
  <2>1. LocalsOK'
      BY <1>0, <1>8, FinishType DEF Replace
  <2>2. path' \in Inodes /\ tmp' = NoFile /\ path' # tmp'
      BY <1>0, <1>8 DEF Replace, TypeOK
  <2>3. stopped' \in BOOLEAN /\ over' \in BOOLEAN /\ cut' \in BOOLEAN
      BY <1>8 DEF Replace, Landed
  <2>4. earned' \subseteq Books /\ behind' \subseteq Writers
    <3>1. ask[w].book \in Books
        BY <1>0, MergedType, ConfigType DEF LocalsOK
    <3> QED  BY <1>8, <3>1 DEF Replace, Landed, UnderWay, TypeOK
  <2> QED  BY <1>1, <1>8, <2>1, <2>2, <2>3, <2>4 DEF Replace, TypeOK
<1>9. ASSUME NEW w \in Writers, ReplaceFails(w) PROVE TypeOK' /\ Shape'
  <2>1. LocalsOK'
      BY <1>0, <1>9, FinishType DEF ReplaceFails
  <2> QED  BY <1>1, <1>9, <2>1 DEF ReplaceFails, TypeOK
<1>10. CASE CycleRead
  <2>1. data[path] \in Config
      BY <1>10 DEF CycleRead, TypeOK
  <2>2. LocalsOK'
      BY <1>0, <1>10, <2>1 DEF CycleRead, LocalsOK, Shape
  <2> QED  BY <1>1, <1>10, <2>2 DEF CycleRead, TypeOK
<1>11. CASE CycleGrade
  <2>1. Decided(snap[Cycle]) \in Config
      BY <1>0, ConfigType DEF LocalsOK
  <2>2. CASE Finish({Cycle}) /\ behind' = behind \ {Cycle}
    <3>1. LocalsOK'
        BY <1>0, <2>2, FinishType
    <3> QED  BY <1>1, <1>11, <2>2, <3>1 DEF CycleGrade, TypeOK
  <2>3. CASE /\ new' = [new EXCEPT ![Cycle] = Decided(snap[Cycle])]
             /\ Goto(Cycle, "open")
             /\ UNCHANGED <<snap, handle, ask, behind>>
    <3>1. LocalsOK'
        BY <1>0, <1>11, <2>1, <2>3 DEF CycleGrade, LocalsOK, Shape
    <3> QED  BY <1>1, <1>11, <2>3, <3>1 DEF CycleGrade, TypeOK
  <2> QED  BY <1>11, <2>2, <2>3 DEF CycleGrade
<1>12. CASE CycleOpen
  <2>1. LocalsOK'
      BY <1>0, <1>12 DEF CycleOpen, LocalsOK, Shape, TypeOK
  <2> QED  BY <1>1, <1>12, <2>1 DEF CycleOpen, TypeOK
<1>13. CASE CycleFill
  <2>1. LocalsOK'
      BY <1>0, <1>13, FinishType DEF CycleFill
  <2>2. PICK x \in Contents(Cycle) : data' = [data EXCEPT ![handle[Cycle]] = x]
      BY <1>13 DEF CycleFill, Filled
  <2>3. x \in Config \cup {Torn}
      BY <1>0 DEF Contents, TypeOK
  <2>4. data' \in [Inodes -> Config \cup {Torn}]
      BY <2>2, <2>3 DEF TypeOK
  <2>5. over' \in BOOLEAN /\ cut' \in BOOLEAN
      BY <1>13 DEF CycleFill, Filled
  <2>6. earned' \subseteq Books /\ behind' \subseteq Writers
      BY <1>13 DEF CycleFill, UnderWay, TypeOK
  <2> QED  BY <1>1, <1>13, <2>1, <2>4, <2>5, <2>6 DEF CycleFill, TypeOK
<1>14. ASSUME NEW b \in Books, Turn(b) PROVE TypeOK' /\ Shape'
  <2>1. LocalsOK'
      BY <1>0, <1>14 DEF Turn, LocalsOK, Shape
  <2>2. grade' \in [Books -> Grades] /\ turns' \in 0 .. MaxTurns
      BY <1>0, <1>14 DEF Turn, TypeOK
  <2> QED  BY <1>1, <1>14, <2>1, <2>2 DEF Turn, TypeOK
<1>15. ASSUME NEW S, Die(S) PROVE TypeOK' /\ Shape'
  <2>1. LocalsOK'
      BY <1>0, <1>15, FinishType DEF Die
  <2>2. deaths' \in 0 .. MaxDeaths /\ cut' \in BOOLEAN
      BY <1>0, <1>15 DEF Die, TypeOK
  <2> QED  BY <1>1, <1>15, <2>1, <2>2 DEF Die, TypeOK
<1>16. CASE UNCHANGED vars
    BY <1>16 DEF vars, TypeOK, Shape
<1>17. CASE CycleRaises
    BY <1>16, <1>17 DEF CycleRaises
<1> QED  BY <1>2, <1>3, <1>4, <1>5, <1>6, <1>7, <1>8, <1>9, <1>10, <1>11, <1>12, <1>13, <1>14,
            <1>15, <1>16, <1>17 DEF Next, CycleStep

LEMMA TypeInit == Init => TypeOK /\ Shape
<1> SUFFICES ASSUME Init PROVE TypeOK /\ Shape
    OBVIOUS
<1>1. path \in Inodes /\ Cycle \in Writers /\ tmp # path
  <2>1. 1 \in Inodes
      BY WritersFinite, FS_CardinalityType DEF Inodes
  <2> QED  BY <2>1, WritersType DEF Init, NoFile
<1>2. PICK on \in BOOLEAN, live \in SUBSET Books :
         /\ data = [i \in Inodes |-> IF i = 1 THEN [on |-> on, live |-> live] ELSE Torn]
         /\ earned = live
    BY DEF Init
<1>3. data \in [Inodes -> Config \cup {Torn}]
    BY <1>2 DEF Config
<1>4. Shape
    BY <1>1 DEF Init, Shape
<1>5. /\ snap \in [Writers -> Config] /\ new \in [Writers -> Config]
      /\ ask \in [Writers -> Updates] /\ handle \in [Writers -> Inodes \cup {NoFile}]
    BY ConfigType, NoUpdateType DEF Init
<1>6. pc \in [Writers -> PCs] /\ grade \in [Books -> Grades] /\ tmp \in Inodes \cup {NoFile}
    BY DEF Init, PCs, Grades
<1>7. updates \in 0 .. MaxUpdates /\ turns \in 0 .. MaxTurns /\ deaths \in 0 .. MaxDeaths
    BY WritersType DEF Init
<1>8. behind \subseteq Writers /\ earned \subseteq Books /\ {stopped, over, cut, shared} \subseteq BOOLEAN
    BY <1>2 DEF Init
<1> QED  BY <1>1, <1>3, <1>4, <1>5, <1>6, <1>7, <1>8 DEF TypeOK, PCs

THEOREM TypeCorrect == Spec => []TypeOK
    BY TypeInit, TypeStep, PTL DEF Spec
---------------------------------------------------------------------------
(* What a step does to a writer that is under way, and to the file.        *)

LEMMA FinishFrame ==
    ASSUME NEW S, Finish(S), NEW v \in Writers
    PROVE  /\ v \in S => pc'[v] = "idle" /\ handle'[v] = NoFile
           /\ v \notin S => /\ pc'[v] = pc[v] /\ handle'[v] = handle[v]
                            /\ snap'[v] = snap[v] /\ new'[v] = new[v] /\ ask'[v] = ask[v]
    BY DEF Finish

\* v read the file in this step, or had read it before and goes on.
Begins(v) ==
    /\ pc[v] = "idle" /\ snap'[v] = Read
    /\ UNCHANGED <<file, stopped, over, behind>>
    /\ IF data[path] = Torn THEN earned' = Books ELSE earned' = earned
GoesOn(v) == pc[v] # "idle" /\ snap'[v] = snap[v]

LEMMA OverKept == [Next]_vars /\ over => over'
<1> SUFFICES ASSUME [Next]_vars, over PROVE over'
    OBVIOUS
<1>1. ASSUME NEW w \in Writers, Fill(w) PROVE over'
    BY <1>1 DEF Fill, Filled
<1>2. ASSUME NEW w \in Writers, Replace(w) PROVE over'
    BY <1>2 DEF Replace, Landed
<1>3. CASE CycleFill
    BY <1>3 DEF CycleFill, Filled
<1>4. CASE UNCHANGED over
    BY <1>4
<1>5. CASE CycleRaises \/ McpUpdate \/ CycleRead \/ CycleGrade \/ CycleOpen \/ UNCHANGED vars
           \/ (\E r \in Requests : ApiRead(r) \/ ApiBody(r) \/ ApiRefuse(r))
           \/ (\E w \in Writers : OpenTmp(w) \/ ReplaceFails(w))
           \/ (\E b \in Books : Turn(b)) \/ (\E S : Die(S))
    BY <1>4, <1>5 DEF CycleRaises, McpUpdate, CycleRead, CycleGrade, CycleOpen, vars, ghosts, ApiRead,
                      ApiBody, ApiRefuse, OpenTmp, ReplaceFails, Turn, Die
<1> QED  BY <1>1, <1>2, <1>3, <1>5 DEF Next, CycleStep

(* A writer reads once; it is forgotten by the ghosts only when it is over. *)
LEMMA WriterStep ==
    ASSUME TypeOK, Shape, [Next]_vars, NEW v \in Writers, pc'[v] # "idle"
    PROVE  /\ v \in behind => v \in behind'
           /\ Begins(v) \/ GoesOn(v)
<1> USE WritersType DEF file, ghosts, counts, Goto
<1>0. /\ pc \in [Writers -> {"idle", "await", "merged", "fill", "replace", "grading", "open"}]
      /\ snap \in [Writers -> Config]
    BY DEF TypeOK
<1>1. ASSUME NEW r \in Requests, ApiRead(r)
      PROVE  (v \in behind => v \in behind') /\ (Begins(v) \/ GoesOn(v))
    BY <1>0, <1>1 DEF ApiRead, Reset, Begins, GoesOn
<1>2. ASSUME NEW r \in Requests, ApiBody(r) \/ ApiRefuse(r)
      PROVE  (v \in behind => v \in behind') /\ (Begins(v) \/ GoesOn(v))
    BY <1>0, <1>2, FinishFrame DEF ApiBody, ApiRefuse, GoesOn
<1>3. CASE McpUpdate
    BY <1>0, <1>3 DEF McpUpdate, Reset, Begins, GoesOn
<1>4. ASSUME NEW w \in Writers, OpenTmp(w) \/ Fill(w)
      PROVE  (v \in behind => v \in behind') /\ (Begins(v) \/ GoesOn(v))
  <2>1. behind' = behind /\ snap' = snap
      BY <1>4 DEF OpenTmp, Fill
  <2>2. pc[v] # "idle"
      BY <1>0, <1>4 DEF OpenTmp, Fill
  <2> QED  BY <2>1, <2>2 DEF GoesOn
<1>5. ASSUME NEW w \in Writers, Replace(w) \/ ReplaceFails(w)
      PROVE  (v \in behind => v \in behind') /\ (Begins(v) \/ GoesOn(v))
  <2>1. Finish({w})
      BY <1>5 DEF Replace, ReplaceFails
  <2>2. v # w /\ GoesOn(v)
      BY <2>1, FinishFrame DEF GoesOn
  <2>3. CASE Replace(w)
      BY <2>2, <2>3 DEF Replace, Landed
  <2>4. CASE ReplaceFails(w)
      BY <2>2, <2>4 DEF ReplaceFails
  <2> QED  BY <1>5, <2>3, <2>4
<1>6. CASE CycleRead
  <2>1. behind' = behind
      BY <1>6 DEF CycleRead
  <2>2. CASE v = Cycle
    <3>1. pc[v] = "idle" /\ snap'[v] = Read
        BY <1>0, <1>6, <2>2 DEF CycleRead, Read
    <3> QED  BY <1>6, <2>1, <3>1 DEF CycleRead, Begins
  <2>3. CASE v # Cycle
      BY <1>0, <1>6, <2>1, <2>3 DEF CycleRead, GoesOn
  <2> QED  BY <2>2, <2>3
<1>7. CASE CycleGrade
  <2>1. CASE Finish({Cycle}) /\ behind' = behind \ {Cycle}
      BY <1>0, <2>1, FinishFrame DEF GoesOn
  <2>2. CASE /\ pc[Cycle] = "grading" /\ Goto(Cycle, "open")
             /\ UNCHANGED <<snap, handle, ask, behind>>
      BY <1>0, <2>2 DEF GoesOn
  <2> QED  BY <1>7, <2>1, <2>2 DEF CycleGrade
<1>8. CASE CycleOpen
    BY <1>0, <1>8 DEF CycleOpen, GoesOn
<1>9. CASE CycleFill
    BY <1>0, <1>9, FinishFrame DEF CycleFill, GoesOn
<1>10. ASSUME NEW b \in Books, Turn(b)
       PROVE  (v \in behind => v \in behind') /\ (Begins(v) \/ GoesOn(v))
    BY <1>10 DEF Turn, GoesOn
<1>11. ASSUME NEW S, Die(S)
       PROVE  (v \in behind => v \in behind') /\ (Begins(v) \/ GoesOn(v))
    BY <1>11, FinishFrame DEF Die, GoesOn
<1>12. CASE CycleRaises \/ UNCHANGED vars
    BY <1>12 DEF CycleRaises, vars, GoesOn
<1> QED  BY <1>1, <1>2, <1>3, <1>4, <1>5, <1>6, <1>7, <1>8, <1>9, <1>10, <1>11, <1>12
         DEF Next, CycleStep

(* What the loop reads changes when an update that is not behind lands with *)
(* its own content, when the cycle writes in place, or not for the better. *)
LEMMA FileStep ==
    ASSUME TypeOK, Shape, [Next]_vars, ~over'
    PROVE  \/ data'[path'] = data[path] /\ earned \subseteq earned' /\ stopped' = stopped
           \/ data'[path'] = Torn /\ stopped' = stopped
           \/ \E w \in Writers \ {Cycle} : Replace(w) /\ data[tmp] = new[w] /\ w \notin behind /\ ~over
           \/ CycleFill /\ handle[Cycle] = path /\ data'[path'] = new[Cycle] /\ Cycle \notin behind /\ ~over
<1> USE WritersType DEF file, ghosts, counts
<1>0. path \in Inodes /\ data \in [Inodes -> Config \cup {Torn}] /\ earned \subseteq Books
    BY DEF TypeOK
<1>1. ASSUME UNCHANGED <<path, data, stopped>>, earned \subseteq earned'
      PROVE  data'[path'] = data[path] /\ earned \subseteq earned' /\ stopped' = stopped
    BY <1>1
<1>2. CASE CycleRaises \/ McpUpdate \/ CycleRead \/ CycleGrade \/ UNCHANGED vars
           \/ (\E r \in Requests : ApiRead(r) \/ ApiBody(r) \/ ApiRefuse(r))
           \/ (\E w \in Writers : ReplaceFails(w)) \/ (\E b \in Books : Turn(b)) \/ (\E S : Die(S))
    BY <1>0, <1>1, <1>2 DEF CycleRaises, McpUpdate, CycleRead, CycleGrade, vars, ApiRead, ApiBody,
                            ApiRefuse, ReplaceFails, Turn, Die, Reset
<1>3. ASSUME NEW w \in Writers, OpenTmp(w)
      PROVE  data'[path'] = data[path] /\ earned \subseteq earned' /\ stopped' = stopped
  <2>1. tmp' # path /\ data' = [data EXCEPT ![tmp'] = Torn]
      BY <1>3, OpensAside
  <2>2. path' = path /\ earned' = earned /\ stopped' = stopped
      BY <1>3 DEF OpenTmp
  <2> QED  BY <1>0, <2>1, <2>2
<1>4. ASSUME NEW w \in Writers, Fill(w)
      PROVE  data'[path'] = data[path] /\ earned \subseteq earned' /\ stopped' = stopped
  <2>1. handle[w] # path /\ path' = path /\ earned' = earned /\ stopped' = stopped
      BY <1>4 DEF Fill, Filled
  <2>2. PICK x \in Contents(w) : data' = [data EXCEPT ![handle[w]] = x]
      BY <1>4 DEF Fill, Filled
  <2> QED  BY <1>0, <2>1, <2>2
<1>5. ASSUME NEW w \in Writers, Replace(w)
      PROVE  w # Cycle /\ data[tmp] = new[w] /\ w \notin behind /\ ~over
    BY <1>5 DEF Replace, Landed, Shape
<1>6. CASE CycleOpen
    BY <1>0, <1>6 DEF CycleOpen
<1>7. CASE CycleFill
  <2>1. PICK x \in Contents(Cycle) : data' = [data EXCEPT ![handle[Cycle]] = x]
      BY <1>7 DEF CycleFill, Filled
  <2>2. path' = path /\ stopped' = stopped /\ Cycle \notin behind /\ ~over
      BY <1>7 DEF CycleFill, Filled
  <2>3. CASE handle[Cycle] = path
    <3>1. x \in {new[Cycle], Torn}
        BY DEF Contents
    <3> QED  BY <1>0, <1>7, <2>1, <2>2, <2>3, <3>1
  <2>4. CASE handle[Cycle] # path
    <3>1. earned' = earned
        BY <1>7, <2>4 DEF CycleFill
    <3> QED  BY <1>0, <2>1, <2>2, <2>4, <3>1
  <2> QED  BY <2>3, <2>4
<1> QED  BY <1>2, <1>3, <1>4, <1>5, <1>6, <1>7 DEF Next, CycleStep

(* What a writer writes is what it read with one change: a merged update,  *)
(* or the decisions on the books, which leave the mode alone.              *)
LEMMA WritesStep == TypeOK /\ Shape /\ WritesItsRead /\ [Next]_vars => WritesItsRead'
<1> SUFFICES ASSUME TypeOK, Shape, WritesItsRead, [Next]_vars PROVE WritesItsRead'
    OBVIOUS
<1> USE WritersType DEF file, ghosts, counts, Goto, WritesItsRead, Writing
<1>0. /\ pc \in [Writers -> {"idle", "await", "merged", "fill", "replace", "grading", "open"}]
      /\ snap \in [Writers -> Config] /\ new \in [Writers -> Config] /\ ask \in [Writers -> Updates]
    BY DEF TypeOK
<1>1. ASSUME NEW S, Finish(S) PROVE WritesItsRead'
    BY <1>1, FinishFrame
<1>2. ASSUME NEW r \in Requests, ApiRead(r) \/ ApiBody(r) PROVE WritesItsRead'
    BY <1>0, <1>2 DEF ApiRead, ApiBody
<1>3. ASSUME NEW r \in Requests, ApiRefuse(r) PROVE WritesItsRead'
    BY <1>1, <1>3 DEF ApiRefuse
<1>4. CASE McpUpdate
    BY <1>0, <1>4 DEF McpUpdate
<1>5. ASSUME NEW w \in Writers, OpenTmp(w) \/ Fill(w) PROVE WritesItsRead'
    BY <1>0, <1>5 DEF OpenTmp, Fill, Shape
<1>6. ASSUME NEW w \in Writers, Replace(w) \/ ReplaceFails(w) PROVE WritesItsRead'
    BY <1>1, <1>6 DEF Replace, ReplaceFails
<1>7. CASE CycleRead \/ CycleOpen
    BY <1>0, <1>7 DEF CycleRead, CycleOpen
<1>8. CASE CycleGrade
  <2>1. CASE Finish({Cycle})
      BY <1>1, <2>1
  <2>2. CASE /\ new' = [new EXCEPT ![Cycle] = Decided(snap[Cycle])]
             /\ Goto(Cycle, "open")
             /\ UNCHANGED <<snap, handle, ask, behind>>
    <3>1. Decided(snap[Cycle]).on = snap[Cycle].on
        BY <1>0, ConfigType
    <3> QED  BY <1>0, <2>2, <3>1
  <2> QED  BY <1>8, <2>1, <2>2 DEF CycleGrade
<1>9. CASE CycleFill
    BY <1>1, <1>9 DEF CycleFill
<1>10. ASSUME NEW b \in Books, Turn(b) PROVE WritesItsRead'
    BY <1>10 DEF Turn
<1>11. ASSUME NEW S, Die(S) PROVE WritesItsRead'
    BY <1>1, <1>11 DEF Die
<1>12. CASE CycleRaises \/ UNCHANGED vars
    BY <1>12 DEF CycleRaises, vars
<1> QED  BY <1>2, <1>3, <1>4, <1>5, <1>6, <1>7, <1>8, <1>9, <1>10, <1>11, <1>12 DEF Next, CycleStep
---------------------------------------------------------------------------
(* An operator's OFF.                                                      *)

(* The mode in the file becomes LIVE by a writer's hand alone, and one that *)
(* read the file since the OFF landed read OFF.                            *)
LEMMA OffStep ==
    TypeOK /\ Shape /\ WritesItsRead /\ OffInv /\ OffHolds /\ [Next]_vars => OffInv' /\ OffHolds'
<1> SUFFICES ASSUME TypeOK, Shape, WritesItsRead, OffInv, OffHolds, [Next]_vars
             PROVE  OffInv' /\ OffHolds'
    OBVIOUS
<1>0. /\ snap \in [Writers -> Config] /\ ask \in [Writers -> Updates] /\ path \in Inodes
      /\ data \in [Inodes -> Config \cup {Torn}]
    BY DEF TypeOK
<1>1. ASSUME stopped', NEW v \in Writers, UpToDate(v)' PROVE ~snap'[v].on
  <2>1. pc'[v] # "idle" /\ v \notin behind' /\ ~over'
      BY <1>1 DEF UpToDate
  <2>2. v \notin behind /\ ~over
      BY <2>1, WriterStep, OverKept
  <2>3. CASE Begins(v)
      BY <1>1, <2>2, <2>3 DEF Begins, OffHolds
  <2>4. CASE GoesOn(v)
    <3>1. CASE stopped
        BY <2>2, <2>4, <3>1 DEF GoesOn, OffInv, UpToDate
    <3>2. CASE ~stopped
      <4>1. stopped' # stopped
          BY <1>1, <3>2
      <4>2. PICK w \in Writers : Replace(w)
          BY <2>1, <4>1, FileStep DEF CycleFill
      <4>3. ask[w].what = "off"
          BY <1>1, <3>2, <4>2 DEF Replace, Landed
      <4>4. v # w
          BY <2>1, <4>2, FinishFrame DEF Replace
      <4>5. v \in behind'
          BY <2>4, <4>2, <4>3, <4>4 DEF Replace, Landed, UnderWay, GoesOn
      <4> QED  BY <2>1, <4>5
    <3> QED  BY <3>1, <3>2
  <2> QED  BY <2>1, <2>3, <2>4, WriterStep
<1>2. ASSUME stopped', ~over' PROVE ~Read'.on
  <2>0. Torn \notin Config /\ ~Default.on
      BY ConfigType DEF Default
  <2>1. CASE data'[path'] = data[path] /\ stopped' = stopped
    <3>1. Read' = Read
        BY <2>1 DEF Read
    <3> QED  BY <1>2, <2>1, <3>1, OverKept DEF OffHolds
  <2>2. CASE data'[path'] = Torn
      BY <2>0, <2>2 DEF Read
  <2>3. ASSUME NEW w \in Writers \ {Cycle}, Replace(w), data[tmp] = new[w], w \notin behind, ~over
        PROVE  ~Read'.on
    <3>1. path' = tmp /\ data' = data /\ pc[w] = "replace"
        BY <2>3 DEF Replace
    <3>2. new[w] = Merged(snap[w], ask[w])
        BY <3>1 DEF WritesItsRead, Writing
    <3>3. snap[w] \in Config /\ ask[w] \in Updates
        BY <1>0
    <3>4. ask[w].what = "off" \/ (stopped /\ ask[w].what # "live")
        BY <1>2, <2>3 DEF Replace, Landed
    <3>5. stopped => ~snap[w].on
        BY <2>3, <3>1 DEF OffInv, UpToDate
    <3>6. ~new[w].on
        BY <3>2, <3>3, <3>4, <3>5, MergedType
    <3>7. data'[path'] = new[w] /\ new[w] # Torn
        BY <2>0, <2>3, <3>1, <3>2, <3>3, MergedType
    <3> QED  BY <3>6, <3>7 DEF Read
  <2>4. CASE CycleFill /\ data'[path'] = new[Cycle] /\ Cycle \notin behind /\ ~over
    <3>1. pc[Cycle] = "fill" /\ stopped' = stopped
        BY <2>4 DEF CycleFill
    <3>2. new[Cycle].on = snap[Cycle].on /\ new[Cycle] \in Config
        BY <3>1, WritersType DEF WritesItsRead, TypeOK
    <3>3. ~snap[Cycle].on
        BY <1>2, <2>4, <3>1, WritersType DEF OffInv, UpToDate
    <3> QED  BY <2>0, <2>4, <3>2, <3>3 DEF Read
  <2> QED  BY <1>2, <2>1, <2>2, <2>3, <2>4, FileStep
<1> QED  BY <1>1, <1>2 DEF OffInv, OffHolds

(* An operator's OFF holds: whatever merges, replaces, lost or torn writes, *)
(* deaths and cycles follow, what the trading loop reads stays OFF until an *)
(* operator says LIVE, unless a writer that had read the file before the   *)
(* OFF landed wrote after it.                                              *)
THEOREM OffStays == Spec => []OffHolds
<1>1. Init => WritesItsRead /\ OffInv /\ OffHolds
    BY DEF Init, WritesItsRead, OffInv, OffHolds, UpToDate, Writing
<1> QED  BY <1>1, TypeInit, TypeStep, WritesStep, OffStep, PTL DEF Spec
---------------------------------------------------------------------------
(* The books that trade.                                                   *)

(* A book stops being earned only when everybody who had read the file     *)
(* before is counted as behind.                                            *)
LEMMA EarnedShrinks ==
    ASSUME TypeOK, [Next]_vars, NEW v \in Writers, GoesOn(v), pc'[v] # "idle", v \notin behind'
    PROVE  earned \subseteq earned'
<1>1. ASSUME NEW w \in Writers, Replace(w) PROVE earned \subseteq earned'
  <2>1. v # w
      BY <1>1, FinishFrame DEF Replace
  <2>2. v \in UnderWay(w)
      BY <2>1 DEF UnderWay, GoesOn
  <2> QED  BY <1>1, <2>2 DEF Replace, Landed
<1>2. CASE CycleFill
  <2>1. v # Cycle
      BY <1>2, FinishFrame DEF CycleFill
  <2>2. v \in UnderWay(Cycle)
      BY <2>1 DEF UnderWay, GoesOn
  <2> QED  BY <1>2, <2>2 DEF CycleFill
<1>3. CASE \E r \in Requests : ApiRead(r)
    BY <1>3 DEF ApiRead, Reset, TypeOK
<1>4. CASE McpUpdate
    BY <1>4 DEF McpUpdate, Reset, TypeOK
<1>5. CASE CycleGrade
    BY <1>5 DEF CycleGrade
<1>6. CASE CycleRaises \/ CycleRead \/ CycleOpen \/ UNCHANGED vars
           \/ (\E r \in Requests : ApiBody(r) \/ ApiRefuse(r))
           \/ (\E w \in Writers : OpenTmp(w) \/ Fill(w) \/ ReplaceFails(w))
           \/ (\E b \in Books : Turn(b)) \/ (\E S : Die(S))
    BY <1>6 DEF CycleRaises, CycleRead, CycleOpen, vars, ghosts, ApiBody, ApiRefuse, OpenTmp, Fill,
                ReplaceFails, Turn, Die
<1> QED  BY <1>1, <1>2, <1>3, <1>4, <1>5, <1>6 DEF Next, CycleStep

(* The cycle decides once, from what it read.                              *)
LEMMA CycleDecides ==
    ASSUME TypeOK, Shape, [Next]_vars, pc'[Cycle] \in {"open", "fill"}
    PROVE  \/ pc[Cycle] \in {"open", "fill"} /\ new'[Cycle] = new[Cycle]
           \/ CycleGrade /\ new'[Cycle] = Decided(snap[Cycle]) /\ GoesOn(Cycle)
<1> USE WritersType DEF file, ghosts, counts, Goto
<1>0. /\ pc \in [Writers -> {"idle", "await", "merged", "fill", "replace", "grading", "open"}]
      /\ new \in [Writers -> Config]
    BY DEF TypeOK
<1>1. ASSUME NEW S, Finish(S)
      PROVE  pc[Cycle] \in {"open", "fill"} /\ new'[Cycle] = new[Cycle]
    BY <1>1, FinishFrame
<1>2. ASSUME NEW r \in Requests, ApiRead(r) \/ ApiBody(r)
      PROVE  pc[Cycle] \in {"open", "fill"} /\ new'[Cycle] = new[Cycle]
    BY <1>0, <1>2 DEF ApiRead, ApiBody
<1>3. CASE McpUpdate
    BY <1>0, <1>3 DEF McpUpdate
<1>4. ASSUME NEW w \in Writers, OpenTmp(w) \/ Fill(w)
      PROVE  pc[Cycle] \in {"open", "fill"} /\ new'[Cycle] = new[Cycle]
    BY <1>0, <1>4 DEF OpenTmp, Fill, Shape
<1>5. CASE CycleRead
    BY <1>0, <1>5 DEF CycleRead
<1>6. CASE CycleGrade
  <2>1. CASE Finish({Cycle})
      BY <1>1, <2>1
  <2>2. CASE new' = [new EXCEPT ![Cycle] = Decided(snap[Cycle])] /\ UNCHANGED snap
      BY <1>0, <1>6, <2>2 DEF CycleGrade, GoesOn
  <2> QED  BY <1>6, <2>1, <2>2 DEF CycleGrade
<1>7. CASE CycleOpen \/ (\E b \in Books : Turn(b)) \/ CycleRaises \/ UNCHANGED vars
    BY <1>0, <1>7 DEF CycleOpen, Turn, CycleRaises, vars
<1>8. CASE \/ CycleFill
           \/ \E r \in Requests : ApiRefuse(r)
           \/ \E w \in Writers : Replace(w) \/ ReplaceFails(w)
           \/ \E S : Die(S)
    BY <1>1, <1>8 DEF CycleFill, ApiRefuse, Replace, ReplaceFails, Die
<1> QED  BY <1>2, <1>3, <1>4, <1>5, <1>6, <1>7, <1>8 DEF Next, CycleStep

LEMMA EarnedStep ==
    TypeOK /\ Shape /\ WritesItsRead /\ EarnedInv /\ [Next]_vars => EarnedInv'
<1> SUFFICES ASSUME TypeOK, Shape, WritesItsRead, EarnedInv, [Next]_vars PROVE EarnedInv'
    OBVIOUS
<1>0. /\ snap \in [Writers -> Config] /\ ask \in [Writers -> Updates] /\ path \in Inodes
      /\ new \in [Writers -> Config] /\ data \in [Inodes -> Config \cup {Torn}] /\ earned \subseteq Books
    BY DEF TypeOK
<1>1. ASSUME ~over', data'[path'] # Torn PROVE data'[path'].live \subseteq earned'
  <2>1. CASE data'[path'] = data[path] /\ earned \subseteq earned'
      BY <1>1, <2>1, OverKept DEF EarnedInv
  <2>2. ASSUME NEW w \in Writers \ {Cycle}, Replace(w), data[tmp] = new[w], w \notin behind, ~over
        PROVE  data'[path'].live \subseteq earned'
    <3>1. path' = tmp /\ data' = data /\ pc[w] = "replace"
        BY <2>2 DEF Replace
    <3>2. new[w] = Merged(snap[w], ask[w]) /\ snap[w] \in Config /\ ask[w] \in Updates
        BY <1>0, <3>1 DEF WritesItsRead, Writing
    <3>3. snap[w].live \subseteq earned
        BY <2>2, <3>1 DEF EarnedInv, UpToDate
    <3>4. earned' = IF ask[w].what = "enable" THEN earned \cup {ask[w].book}
                    ELSE IF ask[w].what = "shadow" THEN earned \ {ask[w].book} ELSE earned
        BY <2>2 DEF Replace, Landed
    <3>5. CASE ask[w].what = "enable"
        BY <2>2, <3>1, <3>2, <3>3, <3>4, <3>5, MergedType
    <3>6. CASE ask[w].what = "shadow"
        BY <2>2, <3>1, <3>2, <3>3, <3>4, <3>6, MergedType
    <3>7. CASE ask[w].what \notin {"enable", "shadow"}
        BY <2>2, <3>1, <3>2, <3>3, <3>4, <3>7, MergedType
    <3> QED  BY <3>5, <3>6, <3>7
  <2>3. CASE CycleFill /\ handle[Cycle] = path /\ data'[path'] = new[Cycle] /\ Cycle \notin behind /\ ~over
    <3>1. pc[Cycle] = "fill" /\ earned' = earned \ (snap[Cycle].live \ new[Cycle].live)
        BY <2>3 DEF CycleFill
    <3>2. new[Cycle].live \subseteq earned
        BY <2>3, <3>1 DEF EarnedInv, UpToDate
    <3> QED  BY <2>3, <3>1, <3>2
  <2> QED  BY <1>1, <2>1, <2>2, <2>3, FileStep
<1>2. ASSUME NEW v \in Writers, UpToDate(v)' PROVE snap'[v].live \subseteq earned'
  <2>1. pc'[v] # "idle" /\ v \notin behind' /\ v \notin behind /\ ~over
      BY <1>2, WriterStep, OverKept DEF UpToDate
  <2>2. CASE Begins(v)
    <3>1. CASE data[path] = Torn
        BY <2>2, <3>1 DEF Begins, Read, Default
    <3>2. CASE data[path] # Torn
        BY <2>1, <2>2, <3>2 DEF Begins, Read, EarnedInv
    <3> QED  BY <3>1, <3>2
  <2>3. CASE GoesOn(v)
    <3>1. snap[v].live \subseteq earned /\ snap'[v] = snap[v]
        BY <2>1, <2>3 DEF GoesOn, EarnedInv, UpToDate
    <3> QED  BY <2>1, <2>3, <3>1, EarnedShrinks
  <2> QED  BY <2>1, <2>2, <2>3, WriterStep
<1>3. ASSUME UpToDate(Cycle)', pc'[Cycle] \in {"open", "fill"} PROVE new'[Cycle].live \subseteq earned'
  <2>1. pc'[Cycle] # "idle" /\ Cycle \notin behind' /\ Cycle \notin behind /\ ~over
      BY <1>3, WritersType, WriterStep, OverKept DEF UpToDate
  <2>2. CASE pc[Cycle] \in {"open", "fill"} /\ new'[Cycle] = new[Cycle]
    <3>1. new[Cycle].live \subseteq earned
        BY <2>1, <2>2 DEF EarnedInv, UpToDate
    <3>2. GoesOn(Cycle)
        BY <2>1, <2>2, WritersType, WriterStep DEF Begins
    <3> QED  BY <2>1, <2>2, <3>1, <3>2, WritersType, EarnedShrinks
  <2>3. CASE CycleGrade /\ new'[Cycle] = Decided(snap[Cycle]) /\ GoesOn(Cycle)
    <3>1. snap[Cycle].live \subseteq earned
        BY <2>1, <2>3, WritersType DEF EarnedInv, UpToDate, GoesOn
    <3>2. earned' = earned \cup {b \in Books \ NeverPromote : grade[b] = "validated"}
        BY <2>3 DEF CycleGrade
    <3>3. \A b \in Decided(snap[Cycle]).live :
             b \in snap[Cycle].live \/ (b \in Books \ NeverPromote /\ grade[b] = "validated")
        BY <1>0, WritersType, ConfigType
    <3> QED  BY <2>3, <3>1, <3>2, <3>3
  <2> QED  BY <1>3, <2>2, <2>3, CycleDecides
<1> QED  BY <1>1, <1>2, <1>3 DEF EarnedInv

(* The loop trades no book that neither an operator nor a validated grade  *)
(* made live since it was last demoted, under the same condition: the      *)
(* promotion never comes from a stale or half-written configuration.       *)
THEOREM OnlyEarnedTrades == Spec => []LiveIsEarned
<1>1. Init => WritesItsRead /\ EarnedInv
  <2> SUFFICES ASSUME Init PROVE WritesItsRead /\ EarnedInv
      OBVIOUS
  <2>1. PICK on \in BOOLEAN, live \in SUBSET Books :
           /\ data = [i \in Inodes |-> IF i = 1 THEN [on |-> on, live |-> live] ELSE Torn]
           /\ earned = live
      BY DEF Init
  <2>2. data[path] = [on |-> on, live |-> live]
      BY <2>1, TypeInit DEF Init, TypeOK
  <2> QED  BY <2>1, <2>2, WritersType DEF Init, WritesItsRead, EarnedInv, UpToDate, Writing
<1>2. EarnedInv => LiveIsEarned
    BY DEF EarnedInv, LiveIsEarned, Trading, Read, Default
<1> QED  BY <1>1, <1>2, TypeInit, TypeStep, WritesStep, EarnedStep, PTL DEF Spec
---------------------------------------------------------------------------
(* The temporary file.                                                     *)

LEMMA SharedKept == [Next]_vars /\ shared => shared'
<1> SUFFICES ASSUME [Next]_vars, shared PROVE shared'
    OBVIOUS
<1>1. ASSUME NEW w \in Writers, OpenTmp(w) PROVE shared'
    BY <1>1 DEF OpenTmp
<1>2. CASE UNCHANGED shared
    BY <1>2
<1>3. CASE CycleRaises \/ McpUpdate \/ CycleStep \/ UNCHANGED vars
           \/ (\E r \in Requests : ApiRead(r) \/ ApiBody(r) \/ ApiRefuse(r))
           \/ (\E w \in Writers : Fill(w) \/ Replace(w) \/ ReplaceFails(w))
           \/ (\E b \in Books : Turn(b)) \/ (\E S : Die(S))
    BY <1>2, <1>3 DEF CycleRaises, McpUpdate, CycleStep, CycleRead, CycleGrade, CycleOpen, CycleFill, vars,
                      ghosts, ApiRead, ApiBody, ApiRefuse, Fill, Replace, ReplaceFails, Turn, Die
<1> QED  BY <1>1, <1>3 DEF Next

(* Until two processes have had the temporary file open at once, each      *)
(* inode has one writer, the file itself none but the cycle, and what is   *)
(* moved onto it is whole.                                                 *)
LEMMA AloneStep == TypeOK /\ Shape /\ AloneInv /\ [Next]_vars => AloneInv'
<1> SUFFICES ASSUME TypeOK, Shape, AloneInv, [Next]_vars, ~shared' PROVE AloneInv'
    BY DEF AloneInv
<1> USE WritersType DEF file, ghosts, counts, Goto
<1>0. /\ pc \in [Writers -> {"idle", "await", "merged", "fill", "replace", "grading", "open"}]
      /\ handle \in [Writers -> Inodes \cup {NoFile}] /\ data \in [Inodes -> Config \cup {Torn}]
      /\ new \in [Writers -> Config]
      /\ path \in Inodes /\ path # tmp
      /\ \A i \in Inodes : i # NoFile
    BY InodesArePositive DEF TypeOK
<1>1. ~shared
    BY SharedKept
<1>2. /\ \A v, w \in Writers : v # w /\ handle[v] = handle[w] => handle[v] = NoFile
      /\ \A w \in Writers \ {Cycle} : handle[w] \in {NoFile, tmp}
      /\ handle[Cycle] # NoFile => handle[Cycle] # tmp
      /\ \A w \in Writers : pc[w] = "replace" => data[handle[w]] # Torn
    BY <1>1 DEF AloneInv
<1>3. ASSUME NEW S, Finish(S), UNCHANGED <<tmp, data>> PROVE AloneInv'
  <2>1. \A v \in Writers : \/ pc'[v] = "idle" /\ handle'[v] = NoFile
                           \/ pc'[v] = pc[v] /\ handle'[v] = handle[v]
      BY <1>3, FinishFrame
  <2> QED  BY <1>2, <1>3, <2>1 DEF AloneInv
<1>4. ASSUME UNCHANGED <<tmp, data, handle>>, \A v \in Writers : pc'[v] = "replace" => pc[v] = "replace"
      PROVE  AloneInv'
    BY <1>2, <1>4 DEF AloneInv
<1>5. ASSUME NEW r \in Requests, ApiRead(r) \/ ApiBody(r) PROVE AloneInv'
    BY <1>0, <1>4, <1>5 DEF ApiRead, ApiBody
<1>6. CASE McpUpdate
    BY <1>0, <1>4, <1>6 DEF McpUpdate
<1>7. ASSUME NEW w \in Writers, OpenTmp(w) PROVE AloneInv'
  <2>1. /\ tmp' \in Inodes /\ tmp' # path /\ tmp' \notin Held /\ w # Cycle
        /\ tmp # NoFile => tmp' = tmp
        /\ data' = [data EXCEPT ![tmp'] = Torn]
        /\ handle' = [handle EXCEPT ![w] = tmp']
      BY <1>7, OpensAside
  <2>2. \A v \in Writers : handle[v] # tmp'
      BY <2>1 DEF Held
  <2>3. \A v \in Writers \ {Cycle} : handle[v] = NoFile
      BY <1>2, <2>1, <2>2
  <2>4. pc' = [pc EXCEPT ![w] = "fill"]
      BY <1>7 DEF OpenTmp
  <2>5. \A v \in Writers : v # w => handle'[v] = handle[v] /\ pc'[v] = pc[v]
      BY <1>0, <2>1, <2>4
  <2>6. handle'[w] = tmp' /\ pc'[w] = "fill"
      BY <1>0, <2>1, <2>4
  <2>7. \A v \in Writers : pc'[v] # "replace"
      BY <2>3, <2>5, <2>6 DEF Shape
  <2> QED  BY <1>0, <1>2, <2>1, <2>2, <2>3, <2>5, <2>6, <2>7 DEF AloneInv
<1>8. ASSUME NEW w \in Writers, Fill(w) PROVE AloneInv'
  <2>1. w # Cycle /\ pc[w] = "fill" /\ UNCHANGED <<tmp, handle>> /\ pc' = [pc EXCEPT ![w] = "replace"]
      BY <1>8 DEF Fill
  <2>2. handle[w] # NoFile /\ handle[w] \in Inodes
      BY <1>0, <2>1 DEF Shape
  <2>3. data' = [data EXCEPT ![handle[w]] = new[w]]
    <3>1. Contents(w) = {new[w]}
        BY <1>2, <2>2 DEF Contents
    <3> QED  BY <1>8, <3>1 DEF Fill, Filled
  <2>4. data'[handle[w]] # Torn
      BY <1>0, <2>2, <2>3, ConfigType
  <2>5. ASSUME NEW v \in Writers, pc'[v] = "replace", v # w PROVE data'[handle[v]] # Torn
    <3>1. pc[v] = "replace" /\ handle[v] # NoFile /\ handle[v] \in Inodes
        BY <1>0, <2>1, <2>5 DEF Shape
    <3>2. handle[v] # handle[w]
        BY <1>2, <2>5, <3>1
    <3> QED  BY <1>0, <1>2, <2>3, <3>1, <3>2
  <2> QED  BY <1>2, <2>1, <2>4, <2>5 DEF AloneInv
<1>9. ASSUME NEW w \in Writers, Replace(w) PROVE AloneInv'
  <2>1. pc[w] = "replace" /\ tmp # NoFile /\ tmp' = NoFile /\ data' = data /\ Finish({w})
      BY <1>9 DEF Replace
  <2>2. w # Cycle /\ handle[w] = tmp
      BY <1>2, <2>1 DEF Shape
  <2>3. \A v \in Writers : \/ v = w /\ pc'[v] = "idle" /\ handle'[v] = NoFile
                           \/ v # w /\ pc'[v] = pc[v] /\ handle'[v] = handle[v]
      BY <2>1, FinishFrame
  <2>4. \A v \in Writers \ {Cycle} : handle'[v] = NoFile
      BY <1>2, <2>1, <2>2, <2>3
  <2> QED  BY <1>2, <2>1, <2>3, <2>4 DEF AloneInv
<1>10. CASE CycleRead
    BY <1>0, <1>4, <1>10 DEF CycleRead
<1>11. CASE CycleGrade
  <2>1. CASE Finish({Cycle})
      BY <1>3, <1>11, <2>1 DEF CycleGrade
  <2>2. CASE Goto(Cycle, "open") /\ UNCHANGED handle
      BY <1>0, <1>4, <1>11, <2>2 DEF CycleGrade
  <2> QED  BY <1>11, <2>1, <2>2 DEF CycleGrade
<1>12. CASE CycleOpen
  <2>1. /\ data' = [data EXCEPT ![path] = Torn] /\ handle' = [handle EXCEPT ![Cycle] = path]
        /\ pc' = [pc EXCEPT ![Cycle] = "fill"] /\ tmp' = tmp
      BY <1>12 DEF CycleOpen
  <2>2. \A v \in Writers \ {Cycle} : handle'[v] = handle[v] /\ pc'[v] = pc[v] /\ handle[v] # path
      BY <1>0, <1>2, <2>1
  <2>3. handle'[Cycle] = path /\ pc'[Cycle] = "fill"
      BY <1>0, <2>1
  <2>4. ASSUME NEW v \in Writers, pc'[v] = "replace" PROVE data'[handle'[v]] # Torn
    <3>1. v # Cycle /\ pc[v] = "replace"
        BY <2>2, <2>3, <2>4
    <3>2. handle[v] \in Inodes
        BY <1>0, <3>1 DEF Shape
    <3> QED  BY <1>0, <1>2, <2>1, <2>2, <3>1, <3>2
  <2> QED  BY <1>0, <1>2, <2>1, <2>2, <2>3, <2>4 DEF AloneInv
<1>13. CASE CycleFill
  <2>1. PICK x \in Contents(Cycle) : data' = [data EXCEPT ![handle[Cycle]] = x]
      BY <1>13 DEF CycleFill, Filled
  <2>2. tmp' = tmp /\ Finish({Cycle}) /\ handle[Cycle] # NoFile
      BY <1>13 DEF CycleFill, Shape
  <2>3. \A v \in Writers : \/ v = Cycle /\ pc'[v] = "idle" /\ handle'[v] = NoFile
                           \/ v # Cycle /\ pc'[v] = pc[v] /\ handle'[v] = handle[v]
      BY <2>2, FinishFrame
  <2>4. ASSUME NEW v \in Writers, pc'[v] = "replace" PROVE data'[handle'[v]] # Torn
    <3>1. v # Cycle /\ pc[v] = "replace" /\ handle'[v] = handle[v]
        BY <2>3, <2>4
    <3>2. handle[v] \in Inodes /\ handle[v] # handle[Cycle]
        BY <1>0, <1>2, <2>2, <3>1 DEF Shape
    <3> QED  BY <1>0, <1>2, <2>1, <3>1, <3>2
  <2> QED  BY <1>2, <2>2, <2>3, <2>4 DEF AloneInv
<1>14. ASSUME NEW b \in Books, Turn(b) PROVE AloneInv'
    BY <1>4, <1>14 DEF Turn
<1>15. CASE \/ \E r \in Requests : ApiRefuse(r)
            \/ \E w \in Writers : ReplaceFails(w)
            \/ \E S : Die(S)
    BY <1>3, <1>15 DEF ApiRefuse, ReplaceFails, Die
<1>16. CASE CycleRaises \/ UNCHANGED vars
    BY <1>4, <1>16 DEF CycleRaises, vars
<1> QED  BY <1>5, <1>6, <1>7, <1>8, <1>9, <1>10, <1>11, <1>12, <1>13, <1>14, <1>15, <1>16
         DEF Next, CycleStep

(* Only the cycle makes the file unreadable, while it writes it or because *)
(* it was cut short, as long as the temporary file is not shared.          *)
LEMMA TornStep ==
    TypeOK /\ Shape /\ AloneInv /\ TornOnlyInPlace /\ [Next]_vars => TornOnlyInPlace'
<1> SUFFICES ASSUME TypeOK, Shape, AloneInv, TornOnlyInPlace, [Next]_vars,
                    data'[path'] = Torn, ~shared', ~cut'
             PROVE  pc'[Cycle] = "fill" /\ handle'[Cycle] = path'
    BY DEF TornOnlyInPlace
<1> USE WritersType DEF file, ghosts, counts, Goto
<1>0. /\ pc \in [Writers -> {"idle", "await", "merged", "fill", "replace", "grading", "open"}]
      /\ handle \in [Writers -> Inodes \cup {NoFile}] /\ data \in [Inodes -> Config \cup {Torn}]
      /\ new \in [Writers -> Config] /\ path \in Inodes /\ path # tmp
      /\ \A i \in Inodes : i # NoFile
    BY InodesArePositive DEF TypeOK
<1>1. /\ ~shared
      /\ data[path] = Torn /\ ~cut => pc[Cycle] = "fill" /\ handle[Cycle] = path
    BY SharedKept DEF TornOnlyInPlace
<1>2. /\ \A v, w \in Writers : v # w /\ handle[v] = handle[w] => handle[v] = NoFile
      /\ \A w \in Writers \ {Cycle} : handle[w] \in {NoFile, tmp}
      /\ \A w \in Writers : pc[w] = "replace" => data[handle[w]] # Torn
    BY <1>1 DEF AloneInv
<1>3. ASSUME UNCHANGED <<path, cut>>, data'[path] = data[path],
             pc[Cycle] = "fill" => pc'[Cycle] = "fill", handle'[Cycle] = handle[Cycle]
      PROVE  pc'[Cycle] = "fill" /\ handle'[Cycle] = path'
    BY <1>1, <1>3
<1>4. ASSUME NEW S, Finish(S), Cycle \notin S, UNCHANGED <<path, data, cut>>
      PROVE  pc'[Cycle] = "fill" /\ handle'[Cycle] = path'
    BY <1>3, <1>4, FinishFrame
<1>5. ASSUME NEW r \in Requests, ApiRead(r) \/ ApiBody(r)
      PROVE  pc'[Cycle] = "fill" /\ handle'[Cycle] = path'
    BY <1>0, <1>3, <1>5 DEF ApiRead, ApiBody
<1>6. ASSUME NEW r \in Requests, ApiRefuse(r)
      PROVE  pc'[Cycle] = "fill" /\ handle'[Cycle] = path'
    BY <1>4, <1>6 DEF ApiRefuse
<1>7. CASE McpUpdate
    BY <1>0, <1>3, <1>7 DEF McpUpdate
<1>8. ASSUME NEW w \in Writers, OpenTmp(w)
      PROVE  pc'[Cycle] = "fill" /\ handle'[Cycle] = path'
  <2>1. tmp' # path /\ w # Cycle /\ data' = [data EXCEPT ![tmp'] = Torn] /\ handle' = [handle EXCEPT ![w] = tmp']
      BY <1>8, OpensAside
  <2> QED  BY <1>0, <1>3, <1>8, <2>1 DEF OpenTmp
<1>9. ASSUME NEW w \in Writers, Fill(w)
      PROVE  pc'[Cycle] = "fill" /\ handle'[Cycle] = path'
  <2>1. w # Cycle /\ pc[w] = "fill" /\ UNCHANGED <<path, cut, handle>> /\ pc' = [pc EXCEPT ![w] = "replace"]
      BY <1>9 DEF Fill
  <2>2. handle[w] # path
      BY <1>0, <1>2, <2>1
  <2>3. PICK x \in Contents(w) : data' = [data EXCEPT ![handle[w]] = x]
      BY <1>9 DEF Fill, Filled
  <2> QED  BY <1>0, <1>3, <2>1, <2>2, <2>3
<1>10. ASSUME NEW w \in Writers, Replace(w) PROVE FALSE
  <2>1. pc[w] = "replace" /\ tmp # NoFile /\ path' = tmp /\ data' = data
      BY <1>10 DEF Replace
  <2>2. w # Cycle /\ handle[w] = tmp
      BY <1>2, <2>1 DEF Shape
  <2> QED  BY <1>2, <2>1, <2>2
<1>11. ASSUME NEW w \in Writers, ReplaceFails(w)
       PROVE  pc'[Cycle] = "fill" /\ handle'[Cycle] = path'
  <2>1. w # Cycle
      BY <1>11 DEF ReplaceFails, Shape
  <2> QED  BY <1>4, <1>11, <2>1 DEF ReplaceFails
<1>12. CASE CycleRead \/ CycleGrade
  <2>1. pc[Cycle] # "fill" /\ UNCHANGED <<path, data, cut>>
      BY <1>12 DEF CycleRead, CycleGrade
  <2> QED  BY <1>1, <2>1
<1>13. CASE CycleOpen
    BY <1>0, <1>13 DEF CycleOpen
<1>14. CASE CycleFill
  <2>1. PICK x \in Contents(Cycle) : data' = [data EXCEPT ![handle[Cycle]] = x]
      BY <1>14 DEF CycleFill, Filled
  <2>2. pc[Cycle] = "fill" /\ path' = path /\ cut' = (cut /\ ~(handle[Cycle] = path)) /\ handle[Cycle] # NoFile
      BY <1>14 DEF CycleFill, Shape
  <2>3. x = new[Cycle] /\ x # Torn
    <3>1. x = new[Cycle]
        BY <1>2, <2>2 DEF Contents
    <3> QED  BY <1>0, <3>1, ConfigType
  <2>4. handle[Cycle] # path
      BY <1>0, <2>1, <2>2, <2>3
  <2> QED  BY <1>0, <1>1, <2>1, <2>2, <2>4
<1>15. ASSUME NEW b \in Books, Turn(b)
       PROVE  pc'[Cycle] = "fill" /\ handle'[Cycle] = path'
    BY <1>3, <1>15 DEF Turn
<1>16. ASSUME NEW S, Die(S)
       PROVE  pc'[Cycle] = "fill" /\ handle'[Cycle] = path'
  <2>1. CASE Cycle \in S
    <3>1. /\ UNCHANGED <<path, data>>
          /\ cut' = (cut \/ (Cycle \in S /\ pc[Cycle] = "fill" /\ handle[Cycle] = path))
        BY <1>16 DEF Die
    <3>2. data[path] = Torn /\ ~cut
        BY <3>1
    <3>3. pc[Cycle] = "fill" /\ handle[Cycle] = path
        BY <1>1, <3>2
    <3> QED  BY <2>1, <3>1, <3>3
  <2>2. CASE Cycle \notin S
    <3>1. UNCHANGED <<path, data>> /\ Finish(S) /\ (cut => cut')
        BY <1>16 DEF Die
    <3>2. data[path] = Torn /\ ~cut
        BY <3>1
    <3>3. pc'[Cycle] = pc[Cycle] /\ handle'[Cycle] = handle[Cycle]
        BY <2>2, <3>1, FinishFrame
    <3> QED  BY <1>1, <3>1, <3>2, <3>3
  <2> QED  BY <2>1, <2>2
<1>17. CASE CycleRaises \/ UNCHANGED vars
    BY <1>3, <1>17 DEF CycleRaises, vars
<1> QED  BY <1>5, <1>6, <1>7, <1>8, <1>9, <1>10, <1>11, <1>12, <1>13, <1>14, <1>15, <1>16, <1>17
         DEF Next, CycleStep

(* The atomic replace: a reader finds an unreadable file only while the    *)
(* cycle writes in place, after it was cut short there, or once two        *)
(* processes shared the temporary name.                                    *)
THEOREM ReplaceIsAtomic == Spec => []TornOnlyInPlace
<1>1. Init => AloneInv /\ TornOnlyInPlace
  <2> SUFFICES ASSUME Init PROVE AloneInv /\ TornOnlyInPlace
      OBVIOUS
  <2>1. PICK on \in BOOLEAN, live \in SUBSET Books :
           data = [i \in Inodes |-> IF i = 1 THEN [on |-> on, live |-> live] ELSE Torn]
      BY DEF Init
  <2>2. data[path] = [on |-> on, live |-> live] /\ [on |-> on, live |-> live] \in Config
      BY <2>1, TypeInit DEF Init, TypeOK, Config
  <2>3. data[path] # Torn
      BY <2>2, ConfigType
  <2> QED  BY <2>3, WritersType DEF Init, AloneInv, TornOnlyInPlace
<1> QED  BY <1>1, TypeInit, TypeStep, AloneStep, TornStep, PTL DEF Spec
=============================================================================
