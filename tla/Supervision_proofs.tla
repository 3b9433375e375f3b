------------------------ MODULE Supervision_proofs ------------------------
(***************************************************************************)
(* What holds between supervisor passes, the scripts they run and the      *)
(* operator, for any number of passes, restarts and requests.              *)
(***************************************************************************)
EXTENDS Supervision, FiniteSetTheorems, TLAPS

LEMMA Distinct ==
    /\ Loop # Server /\ Loop # Sched /\ Loop # Rotator
    /\ Server # Sched /\ Server # Rotator /\ Sched # Rotator
<1>1. Cardinality({Loop, Server, Sched, Rotator}) = 4
  BY SupervisionAssumption
<1>2. \A a, b, c : Cardinality({a, b, c}) <= 3
  <2> SUFFICES ASSUME NEW a, NEW b, NEW c PROVE Cardinality({a, b, c}) <= 3
    OBVIOUS
  <2>1. IsFiniteSet({a}) /\ Cardinality({a}) = 1
    BY FS_Singleton
  <2>2. \A S, x : IsFiniteSet(S) =>
          /\ IsFiniteSet(S \cup {x})
          /\ Cardinality(S) \in Nat /\ Cardinality(S \cup {x}) \in Nat
          /\ Cardinality(S \cup {x}) <= Cardinality(S) + 1
    <3> SUFFICES ASSUME NEW S, NEW x, IsFiniteSet(S)
                 PROVE  /\ IsFiniteSet(S \cup {x})
                        /\ Cardinality(S) \in Nat /\ Cardinality(S \cup {x}) \in Nat
                        /\ Cardinality(S \cup {x}) <= Cardinality(S) + 1
      OBVIOUS
    <3>1. /\ IsFiniteSet(S \cup {x})
          /\ Cardinality(S \cup {x}) =
               IF x \in S THEN Cardinality(S) ELSE Cardinality(S) + 1
      BY FS_AddElement
    <3>2. Cardinality(S) \in Nat
      BY FS_CardinalityType
    <3> QED
      BY <3>1, <3>2
  <2>3. /\ IsFiniteSet({a} \cup {b}) /\ Cardinality({a} \cup {b}) \in Nat
        /\ Cardinality({a} \cup {b}) <= Cardinality({a}) + 1
    BY <2>1, <2>2, Zenon
  <2> DEFINE ab == {a} \cup {b}
             m  == Cardinality(ab)
             n  == Cardinality(ab \cup {c})
  <2>4. IsFiniteSet(ab) /\ m \in Nat /\ m <= 2
    BY <2>1, <2>3
  <2>5. n \in Nat /\ n <= m + 1
    BY <2>2, <2>4, Zenon
  <2>6. ab \cup {c} = {a, b, c}
    OBVIOUS
  <2> HIDE DEF m, n
  <2>7. n <= 3
    BY <2>4, <2>5
  <2>8. n = Cardinality({a, b, c})
    BY <2>6, Zenon DEF n
  <2> QED
    BY <2>7, <2>8, Zenon
<1> QED
  <2>1. ASSUME NEW a, NEW b, NEW c, {Loop, Server, Sched, Rotator} = {a, b, c} PROVE FALSE
    <3>1. Cardinality({a, b, c}) = 4
      BY <1>1, <2>1
    <3>2. Cardinality({a, b, c}) <= 3
      BY <1>2
    <3> QED
      BY <3>1, <3>2
  <2>2. ASSUME Loop = Server \/ Loop = Sched \/ Loop = Rotator PROVE FALSE
    <3>1. {Loop, Server, Sched, Rotator} = {Server, Sched, Rotator}
      BY <2>2
    <3> QED
      BY <2>1, <3>1
  <2>3. ASSUME Server = Sched \/ Server = Rotator PROVE FALSE
    <3>1. {Loop, Server, Sched, Rotator} = {Loop, Sched, Rotator}
      BY <2>3
    <3> QED
      BY <2>1, <3>1
  <2>4. ASSUME Sched = Rotator PROVE FALSE
    <3>1. {Loop, Server, Sched, Rotator} = {Loop, Server, Rotator}
      BY <2>4
    <3> QED
      BY <2>1, <3>1
  <2> QED
    BY <2>2, <2>3, <2>4

---------------------------------------------------------------------------
(* Sequences: what is left when a step is done, or replaced by its second half. *)

LEMMA Rest ==
    ASSUME NEW S, NEW s \in Seq(S), s # <<>>
    PROVE  /\ 1 \in DOMAIN s /\ Head(s) = s[1] /\ Head(s) \in S
           /\ Tail(s) \in Seq(S)
           /\ \A i \in DOMAIN Tail(s) :
                i \in Nat \ {0} /\ i + 1 \in DOMAIN s /\ Tail(s)[i] = s[i + 1]
           /\ \A i \in DOMAIN s : i = 1 \/ (i - 1 \in DOMAIN Tail(s) /\ s[i] = Tail(s)[i - 1])
<1>1. Len(s) \in Nat /\ DOMAIN s = 1..Len(s) /\ Len(s) # 0
  OBVIOUS
<1>2. Tail(s) \in Seq(S) /\ Len(Tail(s)) = Len(s) - 1
  BY <1>1
<1>3. \A i \in 1..Len(Tail(s)) : Tail(s)[i] = s[i + 1]
  BY <1>1, <1>2
<1>4. DOMAIN Tail(s) = 1..Len(Tail(s))
  BY <1>2
<1>5. Head(s) = s[1] /\ s[1] \in S
  BY <1>1
<1> QED
  BY <1>1, <1>2, <1>3, <1>4, <1>5

LEMMA Halved ==
    ASSUME NEW S, NEW s \in Seq(S), s # <<>>, NEW e \in S
    PROVE  /\ <<e>> \o Tail(s) \in Seq(S)
           /\ DOMAIN (<<e>> \o Tail(s)) = DOMAIN s
           /\ (<<e>> \o Tail(s))[1] = e
           /\ \A i \in DOMAIN s : i # 1 => (<<e>> \o Tail(s))[i] = s[i]
<1>1. Len(s) \in Nat /\ DOMAIN s = 1..Len(s) /\ Len(s) # 0
  OBVIOUS
<1>2. Tail(s) \in Seq(S) /\ Len(Tail(s)) = Len(s) - 1
  BY <1>1
<1>3. \A i \in 1..Len(Tail(s)) : Tail(s)[i] = s[i + 1]
  BY <1>1, <1>2
<1>4. <<e>> \in Seq(S) /\ Len(<<e>>) = 1
  OBVIOUS
<1>5. /\ <<e>> \o Tail(s) \in Seq(S) /\ Len(<<e>> \o Tail(s)) = Len(s)
      /\ (<<e>> \o Tail(s))[1] = e
      /\ \A i \in 2..Len(s) : (<<e>> \o Tail(s))[i] = Tail(s)[i - 1]
  BY <1>1, <1>2, <1>4
<1> QED
  BY <1>1, <1>2, <1>3, <1>5

LEMMA Joined ==
    ASSUME NEW S, NEW s \in Seq(S), NEW t \in Seq(S)
    PROVE  /\ s \o t \in Seq(S)
           /\ Members(s \o t) = Members(s) \cup Members(t)
           /\ \A i \in DOMAIN (s \o t) :
                \/ i \in DOMAIN s /\ (s \o t)[i] = s[i]
                \/ \E j \in DOMAIN t : i = Len(s) + j /\ (s \o t)[i] = t[j]
           /\ \A i \in DOMAIN s : i \in DOMAIN (s \o t) /\ (s \o t)[i] = s[i]
           /\ \A j \in DOMAIN t : Len(s) + j \in DOMAIN (s \o t) /\ (s \o t)[Len(s) + j] = t[j]
<1>1. /\ Len(s) \in Nat /\ DOMAIN s = 1..Len(s) /\ Len(t) \in Nat /\ DOMAIN t = 1..Len(t)
      /\ s \o t \in Seq(S) /\ Len(s \o t) = Len(s) + Len(t)
  OBVIOUS
<1>2. /\ DOMAIN (s \o t) = 1..(Len(s) + Len(t))
      /\ \A i \in 1..Len(s) : (s \o t)[i] = s[i]
      /\ \A j \in 1..Len(t) : (s \o t)[Len(s) + j] = t[j]
  BY <1>1
<1>3. \A i \in DOMAIN (s \o t) :
        \/ i \in DOMAIN s /\ (s \o t)[i] = s[i]
        \/ \E j \in DOMAIN t : i = Len(s) + j /\ (s \o t)[i] = t[j]
  <2> SUFFICES ASSUME NEW i \in DOMAIN (s \o t), i \notin DOMAIN s
               PROVE  \E j \in DOMAIN t : i = Len(s) + j /\ (s \o t)[i] = t[j]
    BY <1>1, <1>2
  <2>1. i - Len(s) \in DOMAIN t /\ i = Len(s) + (i - Len(s))
    BY <1>1, <1>2
  <2> QED
    BY <1>1, <1>2, <2>1
<1>4. /\ \A i \in DOMAIN s : i \in DOMAIN (s \o t) /\ (s \o t)[i] = s[i]
      /\ \A j \in DOMAIN t : Len(s) + j \in DOMAIN (s \o t) /\ (s \o t)[Len(s) + j] = t[j]
  BY <1>1, <1>2
<1>5. Members(s \o t) = Members(s) \cup Members(t)
  <2>1. ASSUME NEW v \in Members(s \o t) PROVE v \in Members(s) \cup Members(t)
    <3>1. PICK i \in DOMAIN (s \o t) : v = (s \o t)[i]
      BY <2>1 DEF Members
    <3> QED
      BY <1>3, <3>1 DEF Members
  <2>2. ASSUME NEW i \in DOMAIN s PROVE s[i] \in Members(s \o t)
    <3>1. i \in DOMAIN (s \o t) /\ (s \o t)[i] = s[i]
      BY <1>4
    <3> QED
      BY <3>1, Zenon DEF Members
  <2>3. ASSUME NEW j \in DOMAIN t PROVE t[j] \in Members(s \o t)
    <3>1. Len(s) + j \in DOMAIN (s \o t) /\ (s \o t)[Len(s) + j] = t[j]
      BY <1>4
    <3> QED
      BY <3>1, Zenon DEF Members
  <2>4. Members(s) \cup Members(t) \subseteq Members(s \o t)
    BY <2>2, <2>3, Zenon DEF Members
  <2>5. Members(s \o t) \subseteq Members(s) \cup Members(t)
    BY <2>1
  <2> QED
    BY <2>4, <2>5
<1> QED
  BY <1>1, <1>3, <1>4, <1>5

Once(s) == \A i, j \in DOMAIN s : s[i] = s[j] => i = j

LEMMA JoinedOnce ==
    ASSUME NEW S, NEW s \in Seq(S), NEW t \in Seq(S), Once(s), Once(t),
           Members(s) \cap Members(t) = {}
    PROVE  Once(s \o t)
<1> SUFFICES ASSUME NEW i \in DOMAIN (s \o t), NEW j \in DOMAIN (s \o t),
                    (s \o t)[i] = (s \o t)[j]
             PROVE  i = j
  BY DEF Once
<1>1. \/ i \in DOMAIN s /\ (s \o t)[i] = s[i]
      \/ \E k \in DOMAIN t : i = Len(s) + k /\ (s \o t)[i] = t[k]
  BY Joined
<1>2. \/ j \in DOMAIN s /\ (s \o t)[j] = s[j]
      \/ \E k \in DOMAIN t : j = Len(s) + k /\ (s \o t)[j] = t[k]
  BY Joined
<1>3. \A k \in DOMAIN s, m \in DOMAIN t : s[k] # t[m]
  BY Zenon DEF Members
<1> QED
  BY <1>1, <1>2, <1>3 DEF Once

LEMMA JoinedTo ==
    \A s, t \in Seq(Components) :
        s \o t \in Seq(Components) /\ Members(s \o t) = Members(s) \cup Members(t)
<1> SUFFICES ASSUME NEW s \in Seq(Components), NEW t \in Seq(Components)
             PROVE  s \o t \in Seq(Components) /\ Members(s \o t) = Members(s) \cup Members(t)
  OBVIOUS
<1> QED
  BY Joined

---------------------------------------------------------------------------
(* What the supervisor watches and what restart.sh does, as sequences. *)

LEMMA HereMembers ==
    ASSUME NEW c
    PROVE  Here(c) \in Seq(Components) /\ Members(Here(c)) = {c} \cap Components
           /\ Once(Here(c))
  BY DEF Here, Members, Once

LEMMA OneMember ==
    ASSUME NEW c \in Components
    PROVE  <<c>> \in Seq(Components) /\ Members(<<c>>) = {c} /\ Once(<<c>>)
  BY DEF Members, Once

LEMMA WatchedSched ==
    /\ Watched(Sched) \in Seq(Components)
    /\ Members(Watched(Sched)) = Components \ {Sched}
    /\ Once(Watched(Sched))
<1>1. Watched(Sched) = <<Loop>> \o Here(Server) \o Here(Rotator)
  BY DEF Watched
<1>2. Loop \in Components /\ Components \subseteq {Loop, Server, Sched, Rotator}
  BY SupervisionAssumption
<1>3. <<Loop>> \in Seq(Components) /\ Members(<<Loop>>) = {Loop} /\ Once(<<Loop>>)
  BY <1>2, OneMember
<1>s. /\ Here(Server) \in Seq(Components) /\ Members(Here(Server)) = {Server} \cap Components
      /\ Once(Here(Server))
  BY HereMembers
<1>r. /\ Here(Rotator) \in Seq(Components) /\ Members(Here(Rotator)) = {Rotator} \cap Components
      /\ Once(Here(Rotator))
  BY HereMembers
<1>4. /\ <<Loop>> \o Here(Server) \in Seq(Components)
      /\ Members(<<Loop>> \o Here(Server)) = {Loop} \cup ({Server} \cap Components)
  BY <1>3, <1>s, JoinedTo, Zenon
<1>5. /\ Watched(Sched) \in Seq(Components)
      /\ Members(Watched(Sched)) =
            ({Loop} \cup ({Server} \cap Components)) \cup ({Rotator} \cap Components)
  BY <1>1, <1>4, <1>r, JoinedTo, Zenon
<1>6. Members(Watched(Sched)) = Components \ {Sched}
  BY <1>2, <1>5, Distinct
<1>7. Once(Watched(Sched))
  <2>1. /\ Members(<<Loop>>) \cap Members(Here(Server)) = {}
        /\ Members(<<Loop>> \o Here(Server)) \cap Members(Here(Rotator)) = {}
    BY <1>3, <1>4, <1>s, <1>r, Distinct
  <2>2. Once(<<Loop>> \o Here(Server))
    BY <1>3, <1>s, <2>1, JoinedOnce
  <2> DEFINE front == <<Loop>> \o Here(Server)
  <2>3. front \in Seq(Components) /\ Once(front) /\ Members(front) \cap Members(Here(Rotator)) = {}
    BY <1>4, <2>1, <2>2
  <2>4. Watched(Sched) = front \o Here(Rotator)
    BY <1>1
  <2> HIDE DEF front
  <2>5. Once(front \o Here(Rotator))
    BY <1>r, <2>3, JoinedOnce
  <2> QED
    BY <2>4, <2>5, Zenon
<1> QED
  BY <1>5, <1>6, <1>7

LEMMA WatchedLoop ==
    /\ Watched(Loop) \in Seq(Components)
    /\ Members(Watched(Loop)) = {Sched}
    /\ Once(Watched(Loop))
<1>1. Watched(Loop) = <<Sched>> /\ Sched \in Components
  BY Distinct, SupervisionAssumption DEF Watched
<1> QED
  BY <1>1, OneMember

LEMMA WatchedByPass ==
    ASSUME NEW p \in Passes
    PROVE  /\ Watched(HostOf[p]) \in Seq(Components) /\ Once(Watched(HostOf[p]))
           /\ \A c \in Components :
                 c \in Members(Watched(HostOf[p])) <=> HostOf[p] = IF c = Sched THEN Loop ELSE Sched
<1>1. CASE HostOf[p] = Sched
  <2>1. \A c \in Components : c \in Members(Watched(Sched)) <=> c # Sched
    BY WatchedSched
  <2> QED
    BY <1>1, <2>1, WatchedSched, Distinct
<1>2. CASE HostOf[p] = Loop
  <2>1. \A c \in Components : c \in Members(Watched(Loop)) <=> c = Sched
    BY WatchedLoop
  <2> QED
    BY <1>2, <2>1, WatchedLoop, Distinct
<1> QED
  BY <1>1, <1>2, SupervisionAssumption

Plain == {"stop", "mark", "clear", "start"}

\* A script of whole steps, none of which lifts a halt it does not go on to use.
Sound(s) ==
    /\ s \in Seq(StepsOf)
    /\ \A i \in DOMAIN s :
          /\ s[i].op \in Plain
          /\ s[i].op = "clear" => \E j \in DOMAIN s : j > i /\ s[j] = Step("start", s[i].of)

LEMMA StepType ==
    ASSUME NEW op \in Plain \cup {"write", "spawn"}, NEW c \in Components
    PROVE  Step(op, c) \in StepsOf /\ Step(op, c).op = op /\ Step(op, c).of = c
  BY DEF Plain, Step, StepsOf

LEMMA EachType ==
    ASSUME NEW op \in Plain, NEW s \in Seq(Components)
    PROVE  /\ Each(op, s) \in Seq(StepsOf)
           /\ DOMAIN Each(op, s) = DOMAIN s
           /\ \A i \in DOMAIN s : Each(op, s)[i] = Step(op, s[i])
           /\ \A i \in DOMAIN s : Each(op, s)[i].op = op /\ Each(op, s)[i].of = s[i]
<1>1. \A i \in DOMAIN s : s[i] \in Components
  OBVIOUS
<1>2. \A i \in DOMAIN s : Step(op, s[i]) \in StepsOf /\ Step(op, s[i]).op = op
                         /\ Step(op, s[i]).of = s[i]
  BY <1>1, StepType
<1>3. DOMAIN s = 1..Len(s) /\ Len(s) \in Nat
  OBVIOUS
<1>4. Each(op, s) \in [1..Len(s) -> StepsOf]
  BY <1>2, <1>3 DEF Each
<1>5. Each(op, s) \in Seq(StepsOf)
  BY <1>3, <1>4
<1> QED
  BY <1>2, <1>5 DEF Each

LEMMA SoundRestarting ==
    ASSUME NEW c \in Components
    PROVE  /\ Sound(Restarting(c)) /\ Restarting(c) # <<>>
           /\ DOMAIN Restarting(c) = 1..3
           /\ \A i \in DOMAIN Restarting(c) :
                 /\ Restarting(c)[i].of = c
                 /\ Restarting(c)[i].op = "stop" <=> i = 1
<1>1. /\ Step("stop", c) \in StepsOf /\ Step("clear", c) \in StepsOf /\ Step("start", c) \in StepsOf
  BY StepType DEF Plain
<1>2. /\ Restarting(c) \in Seq(StepsOf) /\ DOMAIN Restarting(c) = 1..3 /\ Restarting(c) # <<>>
      /\ Restarting(c)[1] = Step("stop", c) /\ Restarting(c)[2] = Step("clear", c)
      /\ Restarting(c)[3] = Step("start", c)
  BY <1>1 DEF Restarting
<1>3. \A i \in 1..3 : i = 1 \/ i = 2 \/ i = 3
  OBVIOUS
<1>4. \A i \in 1..3 : Restarting(c)[i].op \in Plain /\ Restarting(c)[i].of = c
                      /\ (Restarting(c)[i].op = "stop" <=> i = 1)
  BY <1>2, <1>3 DEF Plain, Step
<1>5. \A i \in 1..3 : Restarting(c)[i].op = "clear" => 3 > i
  BY <1>2, <1>3 DEF Step
<1> QED
  BY <1>2, <1>4, <1>5 DEF Sound

LEMMA SoundStopping ==
    ASSUME NEW s \in Seq(Components), NEW t \in Seq(Components)
    PROVE  Sound(Stopping(s, t))
<1>1. /\ Each("mark", s) \in Seq(StepsOf) /\ Each("stop", t) \in Seq(StepsOf)
      /\ \A i \in DOMAIN Each("mark", s) : Each("mark", s)[i].op = "mark"
      /\ \A i \in DOMAIN Each("stop", t) : Each("stop", t)[i].op = "stop"
  BY EachType DEF Plain
<1>2. /\ Stopping(s, t) \in Seq(StepsOf)
      /\ \A i \in DOMAIN Stopping(s, t) : Stopping(s, t)[i].op \in {"mark", "stop"}
  BY <1>1, Joined DEF Stopping
<1> QED
  BY <1>2 DEF Sound, Plain

LEMMA SoundRestartAll == Sound(RestartAll)
<1> DEFINE stops  == <<Loop>> \o Here(Server) \o <<Sched>>
           starts == Here(Server) \o <<Loop, Sched>> \o Here(Rotator)
           a == Each("stop", stops)
           b == Each("clear", All)
           c == Each("start", starts)
<1>1. Loop \in Components /\ Sched \in Components
  BY SupervisionAssumption
<1>2. /\ <<Loop>> \in Seq(Components) /\ Members(<<Loop>>) = {Loop}
      /\ <<Sched>> \in Seq(Components) /\ Members(<<Sched>>) = {Sched}
      /\ <<Loop, Sched>> \in Seq(Components) /\ Members(<<Loop, Sched>>) = {Loop, Sched}
  BY <1>1, OneMember DEF Members
<1>s. /\ Here(Server) \in Seq(Components) /\ Members(Here(Server)) = {Server} \cap Components
  BY HereMembers
<1>r. /\ Here(Rotator) \in Seq(Components) /\ Members(Here(Rotator)) = {Rotator} \cap Components
  BY HereMembers
<1>l. /\ <<Loop>> \o Here(Server) \in Seq(Components)
      /\ Members(<<Loop>> \o Here(Server)) = {Loop} \cup ({Server} \cap Components)
  BY <1>2, <1>s, JoinedTo, Zenon
<1>3. stops \in Seq(Components)
  BY <1>2, <1>l, JoinedTo, Zenon
<1>4. All \in Seq(Components) /\ Members(All) =
         (({Loop} \cup ({Server} \cap Components)) \cup ({Rotator} \cap Components)) \cup {Sched}
  <2>2. /\ (<<Loop>> \o Here(Server)) \o Here(Rotator) \in Seq(Components)
        /\ Members((<<Loop>> \o Here(Server)) \o Here(Rotator)) =
              ({Loop} \cup ({Server} \cap Components)) \cup ({Rotator} \cap Components)
    BY <1>l, <1>r, JoinedTo, Zenon
  <2> QED
    BY <1>2, <2>2, JoinedTo, Zenon DEF All
<1>5. starts \in Seq(Components) /\ Members(starts) =
         (({Server} \cap Components) \cup {Loop, Sched}) \cup ({Rotator} \cap Components)
  <2>1. /\ Here(Server) \o <<Loop, Sched>> \in Seq(Components)
        /\ Members(Here(Server) \o <<Loop, Sched>>) = ({Server} \cap Components) \cup {Loop, Sched}
    BY <1>2, <1>s, JoinedTo, Zenon
  <2> QED
    BY <2>1, <1>r, JoinedTo, Zenon
<1>6. Members(All) = Members(starts)
  BY <1>4, <1>5
<1>7. RestartAll = (a \o b) \o c
  BY DEF RestartAll
<1> HIDE DEF stops, starts
<1>8. /\ a \in Seq(StepsOf) /\ \A i \in DOMAIN a : a[i].op = "stop"
      /\ b \in Seq(StepsOf) /\ DOMAIN b = DOMAIN All
      /\ \A i \in DOMAIN b : b[i].op = "clear" /\ b[i].of = All[i]
      /\ c \in Seq(StepsOf) /\ DOMAIN c = DOMAIN starts
      /\ \A i \in DOMAIN c : c[i] = Step("start", starts[i]) /\ c[i].op = "start"
  BY <1>3, <1>4, <1>5, EachType DEF Plain
<1> HIDE DEF a, b, c
<1>9. /\ a \o b \in Seq(StepsOf)
      /\ \A i \in DOMAIN (a \o b) : \/ (a \o b)[i].op = "stop"
                                    \/ \E k \in DOMAIN b : (a \o b)[i] = b[k]
  BY <1>8, Joined
<1> DEFINE ab == a \o b
<1> HIDE DEF ab
<1>10. /\ RestartAll \in Seq(StepsOf)
       /\ \A i \in DOMAIN RestartAll :
             \/ i \in DOMAIN ab /\ RestartAll[i] = ab[i]
             \/ \E j \in DOMAIN c : RestartAll[i] = c[j]
       /\ \A j \in DOMAIN c : Len(ab) + j \in DOMAIN RestartAll /\ RestartAll[Len(ab) + j] = c[j]
  BY <1>7, <1>8, <1>9, Joined DEF ab
<1>11. ASSUME NEW i \in DOMAIN RestartAll PROVE RestartAll[i].op \in Plain
  <2>1. CASE i \in DOMAIN ab /\ RestartAll[i] = ab[i]
    <3>1. ab[i].op = "stop" \/ \E k \in DOMAIN b : ab[i] = b[k]
      BY <1>9, <2>1 DEF ab
    <3>2. RestartAll[i].op = "stop" \/ RestartAll[i].op = "clear"
      BY <1>8, <2>1, <3>1
    <3> QED
      BY <3>2 DEF Plain
  <2>2. CASE \E j \in DOMAIN c : RestartAll[i] = c[j]
    BY <1>8, <2>2 DEF Plain
  <2> QED
    BY <1>10, <2>1, <2>2
<1>12. ASSUME NEW i \in DOMAIN RestartAll, RestartAll[i].op = "clear"
       PROVE  \E j \in DOMAIN RestartAll : j > i /\ RestartAll[j] = Step("start", RestartAll[i].of)
  <2>1. i \in DOMAIN ab /\ RestartAll[i] = ab[i]
    BY <1>8, <1>10, <1>12
  <2>2. PICK k \in DOMAIN b : RestartAll[i] = b[k]
    BY <1>9, <1>12, <2>1 DEF ab
  <2>3. RestartAll[i].of \in Members(starts)
    <3>1. k \in DOMAIN All /\ RestartAll[i].of = All[k]
      BY <1>8, <2>2
    <3>2. All[k] \in Members(All)
      BY <3>1, Zenon DEF Members
    <3> QED
      BY <1>6, <3>1, <3>2, Zenon
  <2>4. PICK m \in DOMAIN starts : starts[m] = RestartAll[i].of
    BY <2>3 DEF Members
  <2>5. Len(ab) + m \in DOMAIN RestartAll /\ RestartAll[Len(ab) + m] = Step("start", RestartAll[i].of)
    BY <1>8, <1>10, <2>4
  <2>6. ab \in Seq(StepsOf) /\ m \in Nat \ {0}
    BY <1>5, <1>9, <2>4 DEF ab
  <2>7. i \in 1..Len(ab) /\ Len(ab) \in Nat
    BY <2>1, <2>6
  <2>8. Len(ab) + m > i
    BY <2>6, <2>7
  <2> QED
    BY <2>5, <2>8
<1> QED
  BY <1>10, <1>11, <1>12 DEF Sound

\* Whatever the operator may ask restart.sh for.
LEMMA SoundScript == ASSUME NEW r \in Requests PROVE Sound(Script(r))
<1>1. /\ Loop \in Components /\ Sched \in Components
      /\ r \in AllRequests /\ (r = "server" => Server \in Components)
  BY SupervisionAssumption
<1>2. CASE r = "loop"
  BY <1>1, <1>2, SoundRestarting DEF Script
<1>3. CASE r = "sched"
  BY <1>1, <1>3, SoundRestarting DEF Script
<1>4. CASE r = "server"
  BY <1>1, <1>4, SoundRestarting DEF Script
<1>5. CASE r = "restart"
  BY <1>5, SoundRestartAll DEF Script
<1>6. CASE r = "stoploop"
  <2>1. <<Loop>> \in Seq(Components)
    BY <1>1, OneMember
  <2> QED
    BY <1>6, <2>1, SoundStopping DEF Script
<1>7. CASE r = "stop"
  <2>1. <<Loop>> \in Seq(Components) /\ <<Sched>> \in Seq(Components)
    BY <1>1, OneMember
  <2>2. <<Loop>> \o Here(Server) \in Seq(Components)
    BY <2>1, HereMembers, Joined
  <2>3. (<<Loop>> \o Here(Server)) \o Here(Rotator) \in Seq(Components)
        /\ (<<Loop>> \o Here(Server)) \o <<Sched>> \in Seq(Components)
    BY <2>1, <2>2, HereMembers, Joined
  <2>4. All \in Seq(Components)
        /\ (<<Loop>> \o Here(Server) \o <<Sched>>) \o Here(Rotator) \in Seq(Components)
    BY <2>1, <2>3, HereMembers, Joined DEF All
  <2> QED
    BY <1>7, <2>4, SoundStopping DEF Script
<1> QED
  BY <1>1, <1>2, <1>3, <1>4, <1>5, <1>6, <1>7 DEF AllRequests

---------------------------------------------------------------------------
(* Types. *)

LEMMA TypeInit == Init => TypeOK
<1> SUFFICES ASSUME Init PROVE TypeOK
  OBVIOUS
<1>1. <<>> \in Seq(StepsOf) /\ <<>> \in Seq(Components)
  OBVIOUS
<1>2. history \in [Components -> 0..MaxRestarts] /\ 1 \in 0..MaxCopies
  BY SupervisionAssumption DEF Init
<1>3. past \in [Passes -> [Components -> 0..MaxRestarts]]
      /\ tries \in [Components -> Nat] /\ spent \in [Components -> Nat]
  BY <1>2, SupervisionAssumption DEF Init
<1> QED
  BY <1>1, <1>2, <1>3, SupervisionAssumption DEF Init, TypeOK

LEMMA ActorType ==
    ASSUME TypeOK, NEW a \in Actors
    PROVE  todo[a] \in Seq(StepsOf) /\ copy[a] \in SUBSET Components
  BY DEF TypeOK

\* A run of restart.sh goes on: the step at its head is done, or becomes its
\* second half, or the script ends.
LEMMA RunTodo ==
    ASSUME TypeOK, NEW a \in Actors, NEW c \in Components, NEW op \in Plain \cup {"write", "spawn"},
           Does(a, op, c)
    PROVE  /\ todo[a] # <<>> /\ todo[a] \in Seq(StepsOf) /\ 1 \in DOMAIN todo[a]
           /\ todo[a][1] = Step(op, c) /\ todo[a][1].op = op /\ todo[a][1].of = c
           /\ Tail(todo[a]) \in Seq(StepsOf) /\ <<>> \in Seq(StepsOf)
           /\ \A e \in StepsOf : <<e>> \o Tail(todo[a]) \in Seq(StepsOf)
<1>1. todo[a] \in Seq(StepsOf) /\ todo[a] # <<>> /\ Head(todo[a]) = Step(op, c)
  BY ActorType DEF Does
<1>2. 1 \in DOMAIN todo[a] /\ todo[a][1] = Step(op, c) /\ Tail(todo[a]) \in Seq(StepsOf)
  BY <1>1, Rest
<1> QED
  BY <1>1, <1>2, Halved, StepType

LEMMA RunType ==
    ASSUME TypeOK, NEW a \in Actors, NEW c \in Components,
           \/ Stop(a, c) \/ Mark(a, c) \/ Clear(a, c)
           \/ Write(a, c) \/ WriteShared(a, c) \/ WriteMoved(a, c)
           \/ Start(a, c) \/ Spawn(a, c)
    PROVE  TypeOK'
<1> USE DEF TypeOK
<1>t. ASSUME NEW s \in Seq(StepsOf), todo' = [todo EXCEPT ![a] = s]
      PROVE  todo' \in [Actors -> Seq(StepsOf)]
  BY <1>t
<1>w. Step("write", c) \in StepsOf /\ Step("spawn", c) \in StepsOf
  BY StepType
<1>1. CASE Stop(a, c)
  <2>1. todo' \in [Actors -> Seq(StepsOf)]
    BY <1>1, <1>t, RunTodo DEF Stop, Done, Plain
  <2>2. up' \in [Components -> 0..MaxCopies] /\ orphan' \subseteq Passes
    BY <1>1, SupervisionAssumption DEF Stop, Orphans, UnderWay
  <2>3. kept' \in [Components -> {"no", "sure", "raced"}]
    BY <1>1 DEF Stop
  <2> QED
    BY <1>1, <2>1, <2>2, <2>3 DEF Stop, files
<1>2. CASE Mark(a, c)
  <2>1. todo' \in [Actors -> Seq(StepsOf)]
    BY <1>2, <1>t, <1>w, RunTodo DEF Mark, Plain
  <2>2. copy' \in [Actors -> SUBSET Components]
    BY <1>2 DEF Mark
  <2> QED
    BY <1>2, <2>1, <2>2 DEF Mark, files, pass, ghosts
<1>3. CASE Clear(a, c)
  <2>1. todo' \in [Actors -> Seq(StepsOf)]
    BY <1>3, <1>t, <1>w, RunTodo DEF Clear, Plain
  <2>2. copy' \in [Actors -> SUBSET Components]
    BY <1>3 DEF Clear
  <2> QED
    BY <1>3, <2>1, <2>2 DEF Clear, files, pass, ghosts
<1>4. CASE Write(a, c)
  <2>1. todo' \in [Actors -> Seq(StepsOf)]
    BY <1>4, <1>t, RunTodo DEF Write, Done, Plain
  <2>2. copy' \in [Actors -> SUBSET Components] /\ marked' \subseteq Components
    BY <1>4 DEF Write
  <2> QED
    BY <1>4, <2>1, <2>2 DEF Write, pass, ghosts
<1>7. CASE WriteShared(a, c)
  <2>1. todo' \in [Actors -> Seq(StepsOf)]
    BY <1>7, <1>t, RunTodo DEF WriteShared, Done
  <2>2. \A o \in Actors : copy[o] \in SUBSET Components
    OBVIOUS
  <2>3. copy' \in [Actors -> SUBSET Components] /\ marked' \subseteq Components
        /\ taken' \subseteq Actors
    BY <1>7, <2>2 DEF WriteShared, Writers
  <2>4. kept' \in [Components -> {"no", "sure", "raced"}]
    BY <1>7 DEF WriteShared, MayLose
  <2> QED
    BY <1>7, <2>1, <2>3, <2>4 DEF WriteShared, pass
<1>8. CASE WriteMoved(a, c)
  <2>1. todo' \in [Actors -> Seq(StepsOf)]
    BY <1>8, <1>t, RunTodo DEF WriteMoved
  <2>2. copy' \in [Actors -> SUBSET Components] /\ marked' \subseteq Components
        /\ taken' \subseteq Actors
    BY <1>8 DEF WriteMoved
  <2>3. kept' \in [Components -> {"no", "sure", "raced"}] /\ spent' \in [Components -> Nat]
    BY <1>8 DEF WriteMoved, MayLose, Spends
  <2> QED
    BY <1>8, <2>1, <2>2, <2>3 DEF WriteMoved, pass
<1>5. CASE Start(a, c)
  <2>0. Tail(todo[a]) \in Seq(StepsOf) /\ <<Step("spawn", c)>> \o Tail(todo[a]) \in Seq(StepsOf)
    BY <1>5, <1>w, RunTodo DEF Start, Plain
  <2>1. todo' \in [Actors -> Seq(StepsOf)]
    BY <1>5, <1>t, <2>0 DEF Start, Done
  <2>2. spent' \in [Components -> Nat]
    BY <1>5 DEF Start, Spends
  <2> QED
    BY <1>5, <2>1, <2>2 DEF Start, files, pass
<1>6. CASE Spawn(a, c)
  <2>0. Tail(todo[a]) \in Seq(StepsOf) /\ <<>> \in Seq(StepsOf)
    BY <1>6, RunTodo DEF Spawn
  <2>1. todo' \in [Actors -> Seq(StepsOf)]
    BY <1>6, <1>t, <2>0 DEF Spawn, Done
  <2>2. up' \in [Components -> 0..MaxCopies] /\ touched' \in [Passes -> SUBSET Components]
    <3>1. CASE UNCHANGED <<up, touched>>
      BY <3>1
    <3>2. CASE /\ up[c] < MaxCopies /\ up' = [up EXCEPT ![c] = @ + 1]
               /\ touched' = [p \in Passes |-> IF p = a THEN touched[p] ELSE touched[p] \cup {c}]
      <4>1. up[c] + 1 \in 0..MaxCopies
        BY <3>2, SupervisionAssumption
      <4>2. up' \in [Components -> 0..MaxCopies]
        BY <3>2, <4>1
      <4>3. \A p \in Passes : touched[p] \in SUBSET Components
        OBVIOUS
      <4> QED
        BY <3>2, <4>2, <4>3
    <3> QED
      BY <1>6, <3>1, <3>2 DEF Spawn
  <2>3. spent' \in [Components -> Nat]
    BY <1>6 DEF Spawn, Spends
  <2> QED
    BY <1>6, <2>1, <2>2, <2>3 DEF Spawn, files, pass
<1> QED
  BY <1>1, <1>2, <1>3, <1>4, <1>5, <1>6, <1>7, <1>8

LEMMA EndsType ==
    ASSUME TypeOK, NEW p \in Passes, Ends(p)
    PROVE  /\ stage' \in [Passes -> {"idle", "listed", "read"}] /\ orphan' \subseteq Passes
           /\ seen' \in [Passes -> SUBSET Components] /\ down' \in [Passes -> SUBSET Components]
           /\ past' \in [Passes -> [Components -> 0..MaxRestarts]]
           /\ left' \in [Passes -> Seq(Components)]
           /\ touched' \in [Passes -> SUBSET Components]
<1>1. [c \in Components |-> 0] \in [Components -> 0..MaxRestarts]
  BY SupervisionAssumption
<1>2. past' \in [Passes -> [Components -> 0..MaxRestarts]]
  BY <1>1 DEF Ends, TypeOK
<1>3. <<>> \in Seq(Components)
  OBVIOUS
<1>4. left' \in [Passes -> Seq(Components)]
  BY <1>3 DEF Ends, TypeOK
<1> QED
  BY <1>2, <1>4 DEF Ends, TypeOK

LEMMA FaultType ==
    ASSUME TypeOK, NEW event, Fault(event)
    PROVE  faults' \in 0..MaxFaults
  BY SupervisionAssumption DEF TypeOK, Fault

\* What a look decides: one more restart of the next component, or nothing.
LEMMA LookHead ==
    ASSUME TypeOK, NEW p \in Passes, Look(p)
    PROVE  /\ left[p] \in Seq(Components) /\ left[p] # <<>>
           /\ Head(left[p]) \in Components /\ 1 \in DOMAIN left[p] /\ Head(left[p]) = left[p][1]
           /\ Tail(left[p]) \in Seq(Components)
           /\ left' = [left EXCEPT ![p] = Tail(left[p])]
           /\ todo[p] = <<>> /\ stage[p] = "read"
           /\ \/ /\ Head(left[p]) \notin seen[p] \cup down[p]
                 /\ past[p][Head(left[p])] < MaxRestarts
                 /\ past' = [past EXCEPT ![p][Head(left[p])] = @ + 1]
                 /\ tries' = [tries EXCEPT ![Head(left[p])] = @ + 1]
                 /\ \/ todo' = [todo EXCEPT ![p] = Restarting(Head(left[p]))]
                    \/ UNCHANGED todo
              \/ UNCHANGED <<past, tries, todo>>
<1> DEFINE c == Head(left[p])
<1>1. left[p] \in Seq(Components) /\ left[p] # <<>>
  BY DEF TypeOK, Look
<1>2. c \in Components /\ Tail(left[p]) \in Seq(Components) /\ 1 \in DOMAIN left[p] /\ c = left[p][1]
  BY <1>1, Rest
<1>3. past[p] \in [Components -> 0..MaxRestarts] /\ past[p][c] \in 0..MaxRestarts
  BY <1>2 DEF TypeOK
<1>4. IF Decide(p, c) = "restart"
      THEN /\ past' = [past EXCEPT ![p][c] = @ + 1]
           /\ tries' = [tries EXCEPT ![c] = @ + 1]
           /\ todo' = [todo EXCEPT ![p] = Restarting(c)] \/ UNCHANGED todo
      ELSE UNCHANGED <<past, tries, todo>>
  BY DEF Look
<1>5. Decide(p, c) = "restart" => c \notin seen[p] \cup down[p] /\ ~(past[p][c] >= MaxRestarts)
  BY DEF Decide
<1>6. Decide(p, c) = "restart" => past[p][c] < MaxRestarts
  BY <1>3, <1>5, SupervisionAssumption
<1>7. left' = [left EXCEPT ![p] = Tail(left[p])] /\ todo[p] = <<>> /\ stage[p] = "read"
  BY DEF Look
<1> QED
  BY <1>1, <1>2, <1>4, <1>5, <1>6, <1>7

LEMMA LookType == ASSUME TypeOK, NEW p \in Passes, Look(p) PROVE TypeOK'
<1> DEFINE c == Head(left[p])
<1>1. c \in Components /\ Tail(left[p]) \in Seq(Components)
      /\ left' = [left EXCEPT ![p] = Tail(left[p])]
  BY LookHead
<1>2. \/ /\ past[p][c] < MaxRestarts
         /\ past' = [past EXCEPT ![p][c] = @ + 1] /\ tries' = [tries EXCEPT ![c] = @ + 1]
         /\ todo' = [todo EXCEPT ![p] = Restarting(c)] \/ UNCHANGED todo
      \/ UNCHANGED <<past, tries, todo>>
  BY LookHead
<1> HIDE DEF c
<1>3. left' \in [Passes -> Seq(Components)]
  BY <1>1 DEF TypeOK
<1>4. Restarting(c) \in Seq(StepsOf) /\ p \in Actors
  BY <1>1, SoundRestarting DEF Sound, Actors
<1>5. todo' \in [Actors -> Seq(StepsOf)]
  BY <1>2, <1>4 DEF TypeOK
<1>6. past' \in [Passes -> [Components -> 0..MaxRestarts]]
  <2>1. past[p] \in [Components -> 0..MaxRestarts] /\ past[p][c] \in 0..MaxRestarts
    BY <1>1 DEF TypeOK
  <2>2. CASE UNCHANGED past
    BY <2>2 DEF TypeOK
  <2>3. CASE past[p][c] < MaxRestarts /\ past' = [past EXCEPT ![p][c] = @ + 1]
    <3>1. past[p][c] + 1 \in 0..MaxRestarts
      BY <2>1, <2>3, SupervisionAssumption
    <3>2. [past[p] EXCEPT ![c] = past[p][c] + 1] \in [Components -> 0..MaxRestarts]
      BY <1>1, <2>1, <3>1
    <3>3. past' = [past EXCEPT ![p] = [past[p] EXCEPT ![c] = past[p][c] + 1]]
      BY <2>3
    <3> QED
      BY <3>2, <3>3 DEF TypeOK
  <2> QED
    BY <1>2, <2>2, <2>3
<1>0. tries \in [Components -> Nat] /\ spent \in [Components -> Nat]
  BY DEF TypeOK
<1>7. tries' \in [Components -> Nat]
  <2>1. CASE UNCHANGED tries
    BY <1>0, <2>1
  <2>2. CASE tries' = [tries EXCEPT ![c] = @ + 1]
    BY <1>0, <1>1, <2>2
  <2> QED
    BY <1>2, <2>1, <2>2
<1>8. UNCHANGED <<up, marked, history, copy, taken, stage, orphan, seen, down, requests, faults,
                  slips, kept, touched>>
  BY DEF Look, files
<1>9. spent' \in [Components -> Nat]
  <2>1. UNCHANGED spent \/ spent' = [spent EXCEPT ![c] = @ + 1]
    BY SupervisionAssumption DEF Look, Spends, c
  <2> QED
    BY <1>0, <1>1, <2>1
<1> QED
  BY <1>3, <1>5, <1>6, <1>7, <1>8, <1>9 DEF TypeOK

LEMMA PassType ==
    ASSUME TypeOK, NEW p \in Passes, Begin(p) \/ Read(p) \/ Save(p) \/ Hang(p)
    PROVE  TypeOK'
<1>1. CASE Begin(p)
  <2>1. seen' \in [Passes -> SUBSET Components] /\ faults' \in 0..MaxFaults
    <3>1. CASE seen' = [seen EXCEPT ![p] = Alive] /\ UNCHANGED faults
      BY <3>1 DEF Alive, TypeOK
    <3>2. CASE Fault("ps_fails") /\ seen' = [seen EXCEPT ![p] = Components]
      <4>1. faults' \in 0..MaxFaults
        BY <3>2, FaultType
      <4> QED
        BY <3>2, <4>1 DEF TypeOK
    <3> QED
      BY <1>1, <3>1, <3>2 DEF Begin, List
  <2>2. left' \in [Passes -> Seq(Components)]
    BY <1>1, WatchedByPass DEF Begin, TypeOK
  <2>3. slips' \in Nat
    BY <1>1 DEF Begin, TypeOK
  <2> QED
    BY <1>1, <2>1, <2>2, <2>3 DEF Begin, files, script, TypeOK
<1>2. CASE Read(p)
  BY <1>2 DEF Read, files, script, ghosts, TypeOK
<1>3. CASE Save(p)
  <2>1. history' \in [Components -> 0..MaxRestarts]
    BY <1>3 DEF Save, TypeOK
  <2> QED
    BY <1>3, <2>1, EndsType DEF Save, script, TypeOK
<1>4. CASE Hang(p)
  <2>1. <<>> \in Seq(StepsOf)
    OBVIOUS
  <2>2. todo' \in [Actors -> Seq(StepsOf)]
    BY <1>4, <2>1 DEF Hang, TypeOK
  <2>3. slips' \in Nat /\ faults' \in 0..MaxFaults
    BY <1>4, FaultType DEF Hang, TypeOK
  <2> QED
    BY <1>4, <2>2, <2>3, EndsType DEF Hang, files, TypeOK
<1> QED
  BY <1>1, <1>2, <1>3, <1>4

LEMMA TypeStep == TypeOK /\ [Next]_vars => TypeOK'
<1> SUFFICES ASSUME TypeOK, [Next]_vars PROVE TypeOK'
  OBVIOUS
<1>1. ASSUME NEW p \in Passes, Supervise(p) \/ Hang(p) PROVE TypeOK'
  <2>1. p \in Actors
    BY DEF Actors
  <2> QED
    BY <1>1, <2>1, LookType, PassType, RunType DEF Supervise, Runs
<1>2. CASE Request
  <2>1. PICK r \in Requests :
           /\ todo' = [todo EXCEPT ![Op] = Script(r)]
           /\ kept' = [c \in Components |->
                         IF Step("start", c) \in Members(Script(r)) THEN "no" ELSE kept[c]]
    BY <1>2 DEF Request
  <2>2. Script(r) \in Seq(StepsOf) /\ Op \in Actors
    BY SoundScript DEF Sound, Actors
  <2>3. todo' \in [Actors -> Seq(StepsOf)] /\ kept' \in [Components -> {"no", "sure", "raced"}]
    BY <2>1, <2>2 DEF TypeOK
  <2>4. requests' \in 0..MaxRequests
    BY <1>2, SupervisionAssumption DEF Request, TypeOK
  <2> QED
    BY <1>2, <2>3, <2>4 DEF Request, files, pass, TypeOK
<1>3. CASE Runs(Op)
  <2>1. Op \in Actors
    BY DEF Actors
  <2> QED
    BY <1>3, <2>1, RunType DEF Runs
<1>4. ASSUME NEW c \in Components, Crash(c) PROVE TypeOK'
  <2>1. up' \in [Components -> 0..MaxCopies] /\ orphan' \subseteq Passes
    BY <1>4, SupervisionAssumption DEF Crash, Orphans, UnderWay, TypeOK
  <2> QED
    BY <1>4, <2>1 DEF Crash, files, script, ghosts, TypeOK
<1>5. CASE Hour
  BY <1>5, SupervisionAssumption DEF Hour, script, pass, TypeOK
<1>6. CASE UNCHANGED vars
  BY <1>6 DEF vars, files, script, pass, ghosts, TypeOK
<1> QED
  BY <1>1, <1>2, <1>3, <1>4, <1>5, <1>6 DEF Next

\* The processes, the halt file, the restart history and the scripts under way
\* keep their types, whoever runs; no history ever exceeds MAX_RESTARTS.
THEOREM TypeCorrect == Spec => []TypeOK
  BY TypeInit, TypeStep, PTL DEF Spec

---------------------------------------------------------------------------
(* Scripts under way. *)

\* Only the first step can be half done.
Shape == \A a \in Actors : \A i \in DOMAIN todo[a] : i > 1 => todo[a][i].op \in Plain

\* A pass restarts what it found dead and not halted, and is through with it.
PassWork ==
    \A p \in Passes : \A i \in DOMAIN todo[p] :
        /\ stage[p] = "read"
        /\ todo[p][i].op = "stop" => i = 1
        /\ todo[p][i].of \notin seen[p] \cup down[p]
        /\ todo[p][i].of \notin Members(left[p])

\* The operator lifts a halt only in a script that goes on to start the component,
\* and a component that he is about to start counts as not stopped.
OpWork ==
    \A i \in DOMAIN todo[Op] :
        /\ todo[Op][i].op \in {"clear", "start", "spawn"} => kept[todo[Op][i].of] = "no"
        /\ todo[Op][i].op = "clear" =>
              \E j \in DOMAIN todo[Op] : j > i /\ todo[Op][j] = Step("start", todo[Op][i].of)

\* A pass looks at each component of its host once.
LeftOnce ==
    \A p \in Passes :
        /\ stage[p] = "idle" => left[p] = <<>>
        /\ Members(left[p]) \subseteq Members(Watched(HostOf[p]))
        /\ Once(left[p])

Work == Shape /\ PassWork /\ OpWork /\ LeftOnce

LEMMA StepIs ==
    ASSUME NEW s \in StepsOf
    PROVE  s.of \in Components /\ s = Step(s.op, s.of)
  BY DEF StepsOf, Step

LEMMA OneActor == Op \in Actors /\ Op \notin Passes /\ Passes \subseteq Actors
                  /\ \A a \in Actors : a = Op \/ a \in Passes
  BY SupervisionAssumption DEF Actors

LEMMA OpWorkSame ==
    ASSUME TypeOK, OpWork, todo'[Op] = todo[Op],
           \A d \in Components : kept[d] = "no" => kept'[d] = "no"
    PROVE  OpWork'
<1>1. todo[Op] \in Seq(StepsOf)
  BY OneActor, ActorType
<1>2. \A i \in DOMAIN todo[Op] : todo[Op][i].of \in Components
  BY <1>1, StepIs
<1> SUFFICES ASSUME NEW i \in DOMAIN todo'[Op]
             PROVE  /\ todo'[Op][i].op \in {"clear", "start", "spawn"} =>
                          kept'[todo'[Op][i].of] = "no"
                    /\ todo'[Op][i].op = "clear" =>
                          \E j \in DOMAIN todo'[Op] :
                             j > i /\ todo'[Op][j] = Step("start", todo'[Op][i].of)
  BY DEF OpWork
<1>3. i \in DOMAIN todo[Op] /\ todo'[Op][i] = todo[Op][i]
  OBVIOUS
<1>4. /\ todo[Op][i].op \in {"clear", "start", "spawn"} => kept[todo[Op][i].of] = "no"
      /\ todo[Op][i].op = "clear" =>
            \E j \in DOMAIN todo[Op] : j > i /\ todo[Op][j] = Step("start", todo[Op][i].of)
  BY <1>3 DEF OpWork
<1> QED
  BY <1>2, <1>3, <1>4

LEMMA WorkPopped ==
    ASSUME TypeOK, Work, NEW a \in Actors, todo[a] # <<>>,
           todo' = [todo EXCEPT ![a] = Tail(todo[a])],
           UNCHANGED <<stage, seen, down, left>>,
           \A d \in Components : (kept[d] = "no" => kept'[d] = "no") \/
              /\ a = Op /\ todo[Op][1].op = "stop"
              /\ \A i \in DOMAIN todo[Op] : todo[Op][i] # Step("start", d)
    PROVE  Work'
<1>1. todo[a] \in Seq(StepsOf)
  BY ActorType
<1>2. /\ \A b \in Actors : b # a => todo'[b] = todo[b]
      /\ todo'[a] = Tail(todo[a])
  BY DEF TypeOK
<1>3. /\ \A i \in DOMAIN todo'[a] :
           i \in Nat \ {0} /\ i + 1 \in DOMAIN todo[a] /\ todo'[a][i] = todo[a][i + 1]
      /\ \A i \in DOMAIN todo[a] :
           i = 1 \/ (i - 1 \in DOMAIN todo'[a] /\ todo[a][i] = todo'[a][i - 1])
  <2> DEFINE t == Tail(todo[a])
  <2>1. /\ \A i \in DOMAIN t : i \in Nat \ {0} /\ i + 1 \in DOMAIN todo[a] /\ t[i] = todo[a][i + 1]
        /\ \A i \in DOMAIN todo[a] : i = 1 \/ (i - 1 \in DOMAIN t /\ todo[a][i] = t[i - 1])
    BY <1>1, Rest
  <2>2. todo'[a] = t
    BY <1>2
  <2> HIDE DEF t
  <2> QED
    BY <2>1, <2>2
<1>4. Shape'
  <2> SUFFICES ASSUME NEW b \in Actors, NEW i \in DOMAIN todo'[b], i > 1
               PROVE  todo'[b][i].op \in Plain
    BY DEF Shape
  <2>1. CASE b = a
    <3>1. i + 1 > 1 /\ i + 1 \in DOMAIN todo[a] /\ todo'[a][i] = todo[a][i + 1]
      BY <1>3, <2>1
    <3> QED
      BY <2>1, <3>1 DEF Work, Shape
  <2>2. CASE b # a
    BY <1>2, <2>2 DEF Work, Shape
  <2> QED
    BY <2>1, <2>2
<1>5. PassWork'
  <2> SUFFICES ASSUME NEW p \in Passes, NEW i \in DOMAIN todo'[p]
               PROVE  /\ stage[p] = "read"
                      /\ todo'[p][i].op = "stop" => i = 1
                      /\ todo'[p][i].of \notin seen[p] \cup down[p]
                      /\ todo'[p][i].of \notin Members(left[p])
    BY DEF PassWork
  <2>1. CASE p = a
    <3>1. i \in Nat \ {0} /\ i + 1 \in DOMAIN todo[p] /\ todo'[p][i] = todo[p][i + 1]
      BY <1>3, <2>1
    <3>2. i + 1 # 1
      BY <3>1
    <3> QED
      BY <3>1, <3>2 DEF Work, PassWork
  <2>2. CASE p # a
    BY <1>2, <2>2, OneActor DEF Work, PassWork
  <2> QED
    BY <2>1, <2>2
<1>6. OpWork'
  <2>1. CASE a = Op
    <3> SUFFICES ASSUME NEW i \in DOMAIN todo'[Op]
                 PROVE  /\ todo'[Op][i].op \in {"clear", "start", "spawn"} =>
                              kept'[todo'[Op][i].of] = "no"
                        /\ todo'[Op][i].op = "clear" =>
                              \E j \in DOMAIN todo'[Op] :
                                 j > i /\ todo'[Op][j] = Step("start", todo'[Op][i].of)
      BY DEF OpWork
    <3>1. i \in Nat \ {0} /\ i + 1 \in DOMAIN todo[Op] /\ todo'[Op][i] = todo[Op][i + 1]
      BY <1>3, <2>1
    <3> DEFINE s == todo[Op][i + 1]
    <3>2. s \in StepsOf /\ s.of \in Components /\ s = Step(s.op, s.of)
      BY <1>1, <2>1, <3>1, StepIs
    <3>3. s.op \in Plain
      BY <3>1, OneActor DEF Work, Shape
    <3>4. s.op = "clear" =>
             \E j \in DOMAIN todo[Op] : j > i + 1 /\ todo[Op][j] = Step("start", s.of)
      BY <3>1 DEF Work, OpWork
    <3>5. s.op \in {"clear", "start", "spawn"} => kept[s.of] = "no"
      BY <3>1 DEF Work, OpWork
    <3> HIDE DEF s
    <3>6. ASSUME s.op \in {"clear", "start"} PROVE kept[s.of] = "no" => kept'[s.of] = "no"
      <4>1. \E j \in DOMAIN todo[Op] : todo[Op][j] = Step("start", s.of)
        <5>1. CASE s.op = "clear"
          BY <3>4, <5>1
        <5>2. CASE s.op = "start"
          BY <3>1, <3>2, <5>2 DEF s
        <5> QED
          BY <3>6, <5>1, <5>2
      <4> QED
        BY <3>2, <4>1
    <3>7. s.op = "clear" =>
             \E j \in DOMAIN todo'[Op] : j > i /\ todo'[Op][j] = Step("start", s.of)
      <4> SUFFICES ASSUME s.op = "clear"
                   PROVE  \E j \in DOMAIN todo'[Op] : j > i /\ todo'[Op][j] = Step("start", s.of)
        OBVIOUS
      <4>1. PICK j \in DOMAIN todo[Op] : j > i + 1 /\ todo[Op][j] = Step("start", s.of)
        BY <3>4
      <4>2. DOMAIN todo[Op] \subseteq Nat
        BY <1>1, <2>1
      <4>3. j \in Nat /\ j # 1
        BY <3>1, <4>1, <4>2
      <4>4. j - 1 \in DOMAIN todo'[Op] /\ todo'[Op][j - 1] = Step("start", s.of)
        BY <1>3, <2>1, <4>1, <4>3
      <4>5. j - 1 > i
        BY <3>1, <4>1, <4>3
      <4> QED
        BY <4>4, <4>5
    <3> QED
      BY <3>1, <3>3, <3>5, <3>6, <3>7 DEF s, Plain
  <2>2. CASE a # Op
    <3>1. todo'[Op] = todo[Op] /\ \A d \in Components : kept[d] = "no" => kept'[d] = "no"
      BY <1>2, <2>2, OneActor
    <3> QED
      BY <3>1, OpWorkSame DEF Work
  <2> QED
    BY <2>1, <2>2
<1> QED
  BY <1>4, <1>5, <1>6 DEF Work, LeftOnce

LEMMA WorkHalved ==
    ASSUME TypeOK, Work, NEW a \in Actors, NEW c \in Components, todo[a] # <<>>,
           todo[a][1].of = c,
           NEW op \in {"write", "spawn"}, op = "spawn" => todo[a][1].op = "start",
           todo' = [todo EXCEPT ![a] = <<Step(op, c)>> \o Tail(todo[a])],
           UNCHANGED <<stage, seen, down, left, kept>>
    PROVE  Work'
<1>1. todo[a] \in Seq(StepsOf) /\ Step(op, c) \in StepsOf /\ Step(op, c).op = op /\ Step(op, c).of = c
  BY ActorType, StepType
<1>0. 1 \in DOMAIN todo[a]
  BY <1>1, Rest
<1>2. /\ \A b \in Actors : b # a => todo'[b] = todo[b]
      /\ todo'[a] = <<Step(op, c)>> \o Tail(todo[a])
  BY DEF TypeOK
<1>3. /\ DOMAIN todo'[a] = DOMAIN todo[a] /\ todo'[a][1] = Step(op, c)
      /\ \A i \in DOMAIN todo[a] : i # 1 => todo'[a][i] = todo[a][i]
  BY <1>1, <1>2, Halved
<1>4. Shape'
  BY <1>2, <1>3 DEF Work, Shape
<1>5. PassWork'
  <2> SUFFICES ASSUME NEW p \in Passes, NEW i \in DOMAIN todo'[p]
               PROVE  /\ stage[p] = "read"
                      /\ todo'[p][i].op = "stop" => i = 1
                      /\ todo'[p][i].of \notin seen[p] \cup down[p]
                      /\ todo'[p][i].of \notin Members(left[p])
    BY DEF PassWork
  <2>1. CASE p = a /\ i = 1
    BY <1>0, <1>1, <1>3, <2>1 DEF Work, PassWork
  <2>2. CASE p = a /\ i # 1
    BY <1>3, <2>2 DEF Work, PassWork
  <2>3. CASE p # a
    BY <1>2, <2>3, OneActor DEF Work, PassWork
  <2> QED
    BY <2>1, <2>2, <2>3
<1>6. OpWork'
  <2>1. CASE a = Op
    <3> SUFFICES ASSUME NEW i \in DOMAIN todo'[Op]
                 PROVE  /\ todo'[Op][i].op \in {"clear", "start", "spawn"} =>
                              kept[todo'[Op][i].of] = "no"
                        /\ todo'[Op][i].op = "clear" =>
                              \E j \in DOMAIN todo'[Op] :
                                 j > i /\ todo'[Op][j] = Step("start", todo'[Op][i].of)
      BY DEF OpWork
    <3>1. CASE i = 1
      <4>1. todo'[Op][i] = Step(op, c) /\ op # "clear"
        BY <1>3, <2>1, <3>1
      <4>2. op = "spawn" => kept[c] = "no"
        BY <1>0, <2>1 DEF Work, OpWork
      <4> QED
        BY <1>1, <4>1, <4>2
    <3>2. CASE i # 1
      <4>1. i \in DOMAIN todo[Op] /\ todo'[Op][i] = todo[Op][i]
        BY <1>3, <2>1, <3>2
      <4>2. todo[Op][i].op = "clear" =>
               \E j \in DOMAIN todo[Op] : j > i /\ todo[Op][j] = Step("start", todo[Op][i].of)
        BY <4>1 DEF Work, OpWork
      <4>3. ASSUME NEW j \in DOMAIN todo[Op], j > i PROVE j # 1
        <5>1. i \in Nat \ {0} /\ j \in Nat
          BY <1>1, <2>1, <4>1
        <5> QED
          BY <4>3, <5>1
      <4>4. todo[Op][i].op = "clear" =>
               \E j \in DOMAIN todo'[Op] : j > i /\ todo'[Op][j] = Step("start", todo[Op][i].of)
        BY <1>3, <2>1, <4>2, <4>3
      <4> QED
        BY <4>1, <4>4 DEF Work, OpWork
    <3> QED
      BY <3>1, <3>2
  <2>2. CASE a # Op
    <3>1. todo'[Op] = todo[Op] /\ \A d \in Components : kept[d] = "no" => kept'[d] = "no"
      BY <1>2, <2>2, OneActor
    <3> QED
      BY <3>1, OpWorkSame DEF Work
  <2> QED
    BY <2>1, <2>2
<1> QED
  BY <1>4, <1>5, <1>6 DEF Work, LeftOnce

LEMMA WorkDropped ==
    ASSUME TypeOK, Work, NEW a \in Actors, todo' = [todo EXCEPT ![a] = <<>>],
           UNCHANGED <<stage, seen, down, left>>,
           \A d \in Components : kept[d] = "no" => kept'[d] = "no"
    PROVE  Work'
<1>1. /\ \A b \in Actors : b # a => todo'[b] = todo[b]
      /\ todo'[a] = <<>> /\ DOMAIN <<>> = {}
  BY DEF TypeOK
<1>2. Shape'
  BY <1>1 DEF Work, Shape
<1>3. PassWork'
  BY <1>1, OneActor DEF Work, PassWork
<1>4. OpWork'
  <2>1. CASE a = Op
    BY <1>1, <2>1 DEF OpWork
  <2>2. CASE a # Op
    BY <1>1, <2>2, OneActor, OpWorkSame DEF Work
  <2> QED
    BY <2>1, <2>2
<1> QED
  BY <1>2, <1>3, <1>4 DEF Work, LeftOnce

\* Nothing of a script changes.
LEMMA WorkKept ==
    ASSUME Work, UNCHANGED <<todo, stage, seen, down, left, kept>>
    PROVE  Work'
  BY DEF Work, Shape, PassWork, OpWork, LeftOnce

\* A step of a pass leaves the other passes and the operator alone.
LEMMA WorkPass ==
    ASSUME TypeOK, Work, NEW p \in Passes, UNCHANGED kept,
           \A q \in Passes : q # p =>
              stage'[q] = stage[q] /\ seen'[q] = seen[q] /\ down'[q] = down[q] /\ left'[q] = left[q],
           \A a \in Actors : a # p => todo'[a] = todo[a],
           \A i \in DOMAIN todo'[p] :
              /\ stage'[p] = "read"
              /\ todo'[p][i].op \in Plain /\ (todo'[p][i].op = "stop" => i = 1)
              /\ todo'[p][i].of \notin seen'[p] \cup down'[p]
              /\ todo'[p][i].of \notin Members(left'[p]),
           stage'[p] = "idle" => left'[p] = <<>>,
           Members(left'[p]) \subseteq Members(Watched(HostOf[p])), Once(left'[p])
    PROVE  Work'
<1>1. Shape'
  <2> SUFFICES ASSUME NEW b \in Actors, NEW i \in DOMAIN todo'[b], i > 1
               PROVE  todo'[b][i].op \in Plain
    BY DEF Shape
  <2> QED
    BY DEF Work, Shape
<1>2. PassWork'
  <2> SUFFICES ASSUME NEW q \in Passes, NEW i \in DOMAIN todo'[q]
               PROVE  /\ stage'[q] = "read"
                      /\ todo'[q][i].op = "stop" => i = 1
                      /\ todo'[q][i].of \notin seen'[q] \cup down'[q]
                      /\ todo'[q][i].of \notin Members(left'[q])
    BY Zenon DEF PassWork, Members
  <2>1. CASE q = p
    BY <2>1
  <2>2. CASE q # p
    <3>1. todo'[q] = todo[q] /\ q \in Actors
      BY <2>2, OneActor
    <3>2. stage'[q] = stage[q] /\ seen'[q] = seen[q] /\ down'[q] = down[q] /\ left'[q] = left[q]
      BY <2>2
    <3> QED
      BY <3>1, <3>2 DEF Work, PassWork
  <2> QED
    BY <2>1, <2>2
<1>3. OpWork'
  <2>1. todo'[Op] = todo[Op]
    BY OneActor
  <2> QED
    BY <2>1, OpWorkSame DEF Work
<1>4. LeftOnce'
  <2> SUFFICES ASSUME NEW q \in Passes
               PROVE  /\ stage'[q] = "idle" => left'[q] = <<>>
                      /\ Members(left'[q]) \subseteq Members(Watched(HostOf[q]))
                      /\ Once(left'[q])
    BY Zenon DEF LeftOnce, Members, Once, Watched, Here
  <2>1. CASE q = p
    BY <2>1
  <2>2. CASE q # p
    <3>1. stage'[q] = stage[q] /\ left'[q] = left[q]
      BY <2>2
    <3> QED
      BY <3>1 DEF Work, LeftOnce
  <2> QED
    BY <2>1, <2>2
<1> QED
  BY <1>1, <1>2, <1>3, <1>4 DEF Work

LEMMA WorkRuns ==
    ASSUME TypeOK, Work, NEW a \in Actors, NEW c \in Components,
           \/ Stop(a, c) \/ Mark(a, c) \/ Clear(a, c)
           \/ Write(a, c) \/ WriteShared(a, c) \/ WriteMoved(a, c)
           \/ Start(a, c) \/ Spawn(a, c)
    PROVE  Work'
<1>1. CASE Stop(a, c)
  <2>1. todo[a] # <<>> /\ todo[a][1].op = "stop"
    BY <1>1, RunTodo DEF Stop, Plain
  <2>2. todo' = [todo EXCEPT ![a] = Tail(todo[a])] /\ UNCHANGED <<stage, seen, down, left>>
    BY <1>1 DEF Stop, Done
  <2>3. ASSUME NEW d \in Components
        PROVE  (kept[d] = "no" => kept'[d] = "no") \/
                 /\ a = Op /\ todo[Op][1].op = "stop"
                 /\ \A i \in DOMAIN todo[Op] : todo[Op][i] # Step("start", d)
    <3>1. CASE a # Op \/ ~\A i \in DOMAIN todo[a] : todo[a][i] # Step("start", c)
      BY <1>1, <3>1 DEF Stop
    <3>2. CASE a = Op /\ \A i \in DOMAIN todo[a] : todo[a][i] # Step("start", c)
      <4>1. d # c => kept'[d] = kept[d]
        BY <1>1, <3>2 DEF Stop, TypeOK
      <4> QED
        BY <2>1, <3>2, <4>1
    <3> QED
      BY <3>1, <3>2
  <2> QED
    BY <2>1, <2>2, <2>3, WorkPopped
<1>2. CASE Mark(a, c) \/ Clear(a, c)
  <2>1. todo[a] # <<>> /\ todo[a][1].of = c
    BY <1>2, RunTodo DEF Mark, Clear, Plain
  <2>2. todo' = [todo EXCEPT ![a] = <<Step("write", c)>> \o Tail(todo[a])]
        /\ UNCHANGED <<stage, seen, down, left, kept>>
    BY <1>2 DEF Mark, Clear, pass, ghosts
  <2> QED
    BY <2>1, <2>2, WorkHalved
<1>3. CASE Write(a, c)
  <2>1. todo[a] # <<>>
    BY <1>3, RunTodo DEF Write
  <2>2. todo' = [todo EXCEPT ![a] = Tail(todo[a])] /\ UNCHANGED <<stage, seen, down, left, kept>>
    BY <1>3 DEF Write, Done, pass, ghosts
  <2> QED
    BY <2>1, <2>2, WorkPopped
<1>6. CASE WriteShared(a, c)
  <2>1. todo[a] # <<>>
    BY <1>6, RunTodo DEF WriteShared
  <2>2. /\ todo' = [todo EXCEPT ![a] = Tail(todo[a])] /\ UNCHANGED <<stage, seen, down, left>>
        /\ \A d \in Components : kept[d] = "no" => kept'[d] = "no"
    BY <1>6 DEF WriteShared, Done, MayLose, pass
  <2> QED
    BY <2>1, <2>2, WorkPopped
<1>7. CASE WriteMoved(a, c)
  <2>1. /\ todo' = [todo EXCEPT ![a] = <<>>] /\ UNCHANGED <<stage, seen, down, left>>
        /\ \A d \in Components : kept[d] = "no" => kept'[d] = "no"
    BY <1>7 DEF WriteMoved, MayLose, pass
  <2> QED
    BY <2>1, WorkDropped
<1>4. CASE Start(a, c)
  <2>1. todo[a] # <<>> /\ todo[a][1].op = "start" /\ todo[a][1].of = c
    BY <1>4, RunTodo DEF Start, Plain
  <2>2. UNCHANGED <<stage, seen, down, left, kept>>
    BY <1>4 DEF Start, pass
  <2>3. CASE todo' = [todo EXCEPT ![a] = Tail(todo[a])]
    BY <2>1, <2>2, <2>3, WorkPopped
  <2>4. CASE todo' = [todo EXCEPT ![a] = <<Step("spawn", c)>> \o Tail(todo[a])]
    BY <2>1, <2>2, <2>4, WorkHalved
  <2> QED
    BY <1>4, <2>3, <2>4 DEF Start, Done
<1>5. CASE Spawn(a, c)
  <2>1. todo[a] # <<>>
    BY <1>5, RunTodo DEF Spawn
  <2>2. UNCHANGED <<stage, seen, down, left, kept>>
    BY <1>5 DEF Spawn, pass
  <2>3. CASE todo' = [todo EXCEPT ![a] = Tail(todo[a])]
    BY <2>1, <2>2, <2>3, WorkPopped
  <2>4. CASE todo' = [todo EXCEPT ![a] = <<>>]
    BY <2>2, <2>4, WorkDropped
  <2> QED
    BY <1>5, <2>3, <2>4 DEF Spawn, Done
<1> QED
  BY <1>1, <1>2, <1>3, <1>4, <1>5, <1>6, <1>7

\* A pass that is not past reading has no script to do.
LEMMA NoScript ==
    ASSUME TypeOK, Work, NEW p \in Passes, stage[p] # "read"
    PROVE  todo[p] = <<>>
<1>1. todo[p] \in Seq(StepsOf)
  BY OneActor, ActorType
<1>2. \A i \in DOMAIN todo[p] : FALSE
  BY DEF Work, PassWork
<1>3. todo[p] # <<>> => 1 \in DOMAIN todo[p]
  BY <1>1, Rest
<1> QED
  BY <1>2, <1>3

LEMMA NoMembers == DOMAIN <<>> = {} /\ Members(<<>>) = {} /\ Once(<<>>)
  BY DEF Members, Once

LEMMA TailMembers ==
    ASSUME NEW s \in Seq(Components), s # <<>>, Once(s)
    PROVE  /\ Members(Tail(s)) \subseteq Members(s) /\ Once(Tail(s))
           /\ Head(s) \in Members(s) /\ Head(s) \notin Members(Tail(s))
           /\ Members(s) = Members(Tail(s)) \cup {Head(s)}
<1> DEFINE t == Tail(s)
<1>1. /\ 1 \in DOMAIN s /\ Head(s) = s[1]
      /\ \A i \in DOMAIN t : i \in Nat \ {0} /\ i + 1 \in DOMAIN s /\ t[i] = s[i + 1]
      /\ \A i \in DOMAIN s : i = 1 \/ (i - 1 \in DOMAIN t /\ s[i] = t[i - 1])
  BY Rest
<1> HIDE DEF t
<1>2. Members(t) \subseteq Members(s)
  BY <1>1 DEF Members
<1>3. Once(t)
  <2> SUFFICES ASSUME NEW i \in DOMAIN t, NEW j \in DOMAIN t, t[i] = t[j] PROVE i = j
    BY DEF Once
  <2>1. i + 1 = j + 1
    BY <1>1 DEF Once
  <2> QED
    BY <1>1, <2>1
<1>4. Head(s) \in Members(s)
  BY <1>1 DEF Members
<1>5. ASSUME Head(s) \in Members(t) PROVE FALSE
  <2>1. PICK i \in DOMAIN t : Head(s) = t[i]
    BY <1>5 DEF Members
  <2>2. i + 1 = 1
    BY <1>1, <2>1 DEF Once
  <2> QED
    BY <1>1, <2>2
<1>6. Members(s) \subseteq Members(t) \cup {Head(s)}
  BY <1>1 DEF Members
<1> QED
  BY <1>2, <1>3, <1>4, <1>5, <1>6 DEF t

LEMMA WorkPasses ==
    ASSUME TypeOK, Work, NEW p \in Passes,
           Begin(p) \/ Read(p) \/ Look(p) \/ Save(p) \/ Hang(p)
    PROVE  Work'
<1>0. p \in Actors /\ DOMAIN <<>> = {}
  BY OneActor
<1>1. CASE Begin(p)
  <2>1. todo[p] = <<>>
    BY <1>1, NoScript DEF Begin
  <2>2. /\ \A q \in Passes : q # p =>
             stage'[q] = stage[q] /\ seen'[q] = seen[q] /\ down'[q] = down[q] /\ left'[q] = left[q]
        /\ stage'[p] = "listed" /\ left'[p] = Watched(HostOf[p])
        /\ UNCHANGED <<todo, kept>>
    BY <1>1 DEF Begin, List, script, TypeOK
  <2>3. Once(left'[p])
    BY <2>2, WatchedByPass
  <2> QED
    BY <1>0, <2>1, <2>2, <2>3, WorkPass
<1>2. CASE Read(p)
  <2>1. todo[p] = <<>>
    BY <1>2, NoScript DEF Read
  <2>2. /\ \A q \in Passes : q # p =>
             stage'[q] = stage[q] /\ seen'[q] = seen[q] /\ down'[q] = down[q] /\ left'[q] = left[q]
        /\ stage'[p] = "read" /\ left'[p] = left[p]
        /\ UNCHANGED <<todo, kept>>
    BY <1>2 DEF Read, script, ghosts, TypeOK
  <2>3. Members(left[p]) \subseteq Members(Watched(HostOf[p])) /\ Once(left[p])
    BY DEF Work, LeftOnce
  <2> QED
    BY <1>0, <2>1, <2>2, <2>3, WorkPass
<1>3. CASE Look(p)
  <2> DEFINE c == Head(left[p])
  <2>1. left[p] \in Seq(Components) /\ left[p] # <<>> /\ c \in Components
        /\ left' = [left EXCEPT ![p] = Tail(left[p])] /\ todo[p] = <<>> /\ stage[p] = "read"
        /\ \/ c \notin seen[p] \cup down[p] /\ todo' = [todo EXCEPT ![p] = Restarting(c)]
           \/ UNCHANGED todo
    BY <1>3, LookHead
  <2>2. /\ \A q \in Passes : q # p =>
             stage'[q] = stage[q] /\ seen'[q] = seen[q] /\ down'[q] = down[q] /\ left'[q] = left[q]
        /\ stage'[p] = "read" /\ left'[p] = Tail(left[p])
        /\ seen'[p] = seen[p] /\ down'[p] = down[p] /\ UNCHANGED kept
    BY <1>3, <2>1 DEF Look, TypeOK
  <2>3. /\ Members(left[p]) \subseteq Members(Watched(HostOf[p])) /\ Once(left[p])
    BY DEF Work, LeftOnce
  <2>4. Members(left'[p]) \subseteq Members(Watched(HostOf[p])) /\ Once(left'[p])
        /\ c \notin Members(left'[p])
    BY <2>1, <2>2, <2>3, TailMembers
  <2> HIDE DEF c
  <2>5. \A a \in Actors : a # p => todo'[a] = todo[a]
    BY <1>0, <2>1 DEF TypeOK
  <2>6. CASE c \notin seen[p] \cup down[p] /\ todo' = [todo EXCEPT ![p] = Restarting(c)]
    <3>1. todo'[p] = Restarting(c)
      BY <1>0, <2>6 DEF TypeOK
    <3>2. \A i \in DOMAIN Restarting(c) :
             /\ Restarting(c)[i].op \in Plain /\ Restarting(c)[i].of = c
             /\ Restarting(c)[i].op = "stop" => i = 1
      BY <2>1, SoundRestarting DEF Sound
    <3> QED
      BY <2>2, <2>4, <2>5, <2>6, <3>1, <3>2, WorkPass
  <2>7. CASE UNCHANGED todo
    BY <1>0, <2>1, <2>2, <2>4, <2>7, WorkPass
  <2> QED
    BY <2>1, <2>6, <2>7
<1>4. ASSUME Ends(p), todo'[p] = <<>>, \A a \in Actors : a # p => todo'[a] = todo[a], UNCHANGED kept
      PROVE  Work'
  <2>1. /\ \A q \in Passes : q # p =>
             stage'[q] = stage[q] /\ seen'[q] = seen[q] /\ down'[q] = down[q] /\ left'[q] = left[q]
        /\ left'[p] = <<>>
    BY <1>4 DEF Ends, TypeOK
  <2> QED
    BY <1>0, <1>4, <2>1, NoMembers, WorkPass
<1>5. CASE Save(p)
  BY <1>4, <1>5 DEF Save, script
<1>6. CASE Hang(p)
  <2>1. todo'[p] = <<>> /\ \A a \in Actors : a # p => todo'[a] = todo[a]
    BY <1>0, <1>6 DEF Hang, TypeOK
  <2> QED
    BY <1>4, <1>6, <2>1 DEF Hang
<1> QED
  BY <1>1, <1>2, <1>3, <1>5, <1>6

LEMMA WorkRequest == ASSUME TypeOK, Work, Request PROVE Work'
<1>1. PICK r \in Requests :
         /\ todo' = [todo EXCEPT ![Op] = Script(r)]
         /\ kept' = [c \in Components |->
                       IF Step("start", c) \in Members(Script(r)) THEN "no" ELSE kept[c]]
  BY DEF Request
<1>2. Sound(Script(r))
  BY SoundScript
<1>3. todo'[Op] = Script(r) /\ \A a \in Actors : a # Op => todo'[a] = todo[a]
  BY <1>1, OneActor DEF TypeOK
<1>4. UNCHANGED <<stage, seen, down, left>>
  BY DEF Request, pass
<1> DEFINE s == Script(r)
<1> HIDE DEF s
<1>5. /\ s \in Seq(StepsOf) /\ todo'[Op] = s
      /\ \A i \in DOMAIN s :
            /\ s[i].op \in Plain /\ s[i] \in StepsOf
            /\ s[i].op = "clear" => \E j \in DOMAIN s : j > i /\ s[j] = Step("start", s[i].of)
      /\ \A c \in Components : Step("start", c) \in Members(s) => kept'[c] = "no"
  BY <1>1, <1>2, <1>3 DEF s, Sound
<1>6. Shape'
  <2> SUFFICES ASSUME NEW b \in Actors, NEW i \in DOMAIN todo'[b], i > 1
               PROVE  todo'[b][i].op \in Plain
    BY DEF Shape
  <2> QED
    BY <1>3, <1>5 DEF Work, Shape
<1>7. PassWork'
  <2> SUFFICES ASSUME NEW p \in Passes, NEW i \in DOMAIN todo'[p]
               PROVE  /\ stage[p] = "read"
                      /\ todo'[p][i].op = "stop" => i = 1
                      /\ todo'[p][i].of \notin seen[p] \cup down[p]
                      /\ todo'[p][i].of \notin Members(left[p])
    BY <1>4 DEF PassWork
  <2> QED
    BY <1>3, OneActor DEF Work, PassWork
<1>8. OpWork'
  <2> SUFFICES ASSUME NEW i \in DOMAIN s
               PROVE  /\ s[i].op \in {"clear", "start", "spawn"} => kept'[s[i].of] = "no"
                      /\ s[i].op = "clear" =>
                            \E j \in DOMAIN s : j > i /\ s[j] = Step("start", s[i].of)
    BY <1>5 DEF OpWork
  <2>1. s[i].of \in Components /\ s[i] = Step(s[i].op, s[i].of)
    BY <1>5, StepIs
  <2>2. s[i].op \in {"clear", "start", "spawn"} => Step("start", s[i].of) \in Members(s)
    <3>1. CASE s[i].op = "clear"
      BY <1>5, <3>1 DEF Members
    <3>2. CASE s[i].op = "start"
      BY <2>1, <3>2 DEF Members
    <3>3. s[i].op # "spawn"
      BY <1>5 DEF Plain
    <3> QED
      BY <3>1, <3>2, <3>3
  <2> QED
    BY <1>5, <2>1, <2>2
<1>9. LeftOnce'
  BY <1>4 DEF Work, LeftOnce
<1> QED
  BY <1>6, <1>7, <1>8, <1>9 DEF Work

LEMMA WorkInit == Init => Work
<1> SUFFICES ASSUME Init PROVE Work
  OBVIOUS
<1>1. \A a \in Actors : todo[a] = <<>>
  BY DEF Init
<1>2. \A p \in Passes : left[p] = <<>> /\ stage[p] = "idle"
  BY DEF Init
<1>3. Shape /\ PassWork /\ OpWork
  BY <1>1, NoMembers, OneActor DEF Shape, PassWork, OpWork
<1>4. LeftOnce
  BY <1>2, NoMembers DEF LeftOnce
<1> QED
  BY <1>3, <1>4 DEF Work

LEMMA WorkStep == TypeOK /\ Work /\ [Next]_vars => Work'
<1> SUFFICES ASSUME TypeOK, Work, [Next]_vars PROVE Work'
  OBVIOUS
<1>1. ASSUME NEW p \in Passes, Supervise(p) \/ Hang(p) PROVE Work'
  BY <1>1, OneActor, WorkPasses, WorkRuns DEF Supervise, Runs
<1>2. CASE Request
  BY <1>2, WorkRequest
<1>3. CASE Runs(Op)
  BY <1>3, OneActor, WorkRuns DEF Runs
<1>4. ASSUME NEW c \in Components, Crash(c) PROVE Work'
  BY <1>4, WorkKept DEF Crash, script, ghosts
<1>5. CASE Hour
  BY <1>5, WorkKept DEF Hour, script, pass
<1>6. CASE UNCHANGED vars
  BY <1>6, WorkKept DEF vars, script, pass, ghosts
<1> QED
  BY <1>1, <1>2, <1>3, <1>4, <1>5, <1>6 DEF Next

---------------------------------------------------------------------------
(* What the operator stopped. *)

\* It is down and marked; no copy of the halt file that is about to be written has
\* lost the mark, and no pass is past its reading of the file without having seen it.
Gone(c) ==
    /\ up[c] = 0 /\ c \in marked
    /\ \A a \in Actors : \A i \in DOMAIN todo[a] : todo[a][i].op = "write" => c \in copy[a]
    /\ \A p \in Passes : stage[p] = "read" => c \in down[p]

SureInv == \A c \in Components : kept[c] = "sure" => Gone(c)

\* Nobody is about to clear the mark of such a component or to start it.
LEMMA NobodyRevives ==
    ASSUME TypeOK, Work, SureInv, NEW a \in Actors, NEW c \in Components, NEW d \in Components,
           NEW op \in {"clear", "start", "spawn"}, Does(a, op, c), kept[d] = "sure"
    PROVE  c # d
<1> SUFFICES ASSUME c = d PROVE FALSE
  OBVIOUS
<1>1. 1 \in DOMAIN todo[a] /\ todo[a][1].op = op /\ todo[a][1].of = c
  BY RunTodo DEF Plain
<1>2. CASE a = Op
  <2>1. kept[c] = "no"
    BY <1>1, <1>2 DEF Work, OpWork
  <2> QED
    BY <2>1
<1>3. CASE a \in Passes
  <2>1. stage[a] = "read" /\ c \notin down[a]
    BY <1>1, <1>3 DEF Work, PassWork
  <2> QED
    BY <1>3, <2>1 DEF SureInv, Gone
<1> QED
  BY <1>2, <1>3, OneActor

\* What is left of a script after its first step has nothing half written.
LEMMA RestIsWhole ==
    ASSUME TypeOK, Work, NEW a \in Actors, todo[a] # <<>>
    PROVE  /\ \A i \in DOMAIN Tail(todo[a]) : Tail(todo[a])[i].op \in Plain
           /\ \A e \in StepsOf : \A i \in DOMAIN (<<e>> \o Tail(todo[a])) :
                 (<<e>> \o Tail(todo[a]))[i] = e \/ (<<e>> \o Tail(todo[a]))[i].op \in Plain
<1> DEFINE s == todo[a]
<1>1. s \in Seq(StepsOf) /\ s # <<>>
  BY ActorType
<1>2. \A i \in DOMAIN s : i > 1 => s[i].op \in Plain
  BY DEF Work, Shape
<1> HIDE DEF s
<1>3. \A i \in DOMAIN Tail(s) : Tail(s)[i].op \in Plain
  <2> SUFFICES ASSUME NEW i \in DOMAIN Tail(s) PROVE Tail(s)[i].op \in Plain
    OBVIOUS
  <2>1. i \in Nat \ {0} /\ i + 1 \in DOMAIN s /\ Tail(s)[i] = s[i + 1]
    BY <1>1, Rest
  <2>2. i + 1 > 1
    BY <2>1
  <2> QED
    BY <1>2, <2>1, <2>2
<1>4. ASSUME NEW e \in StepsOf
      PROVE  \A i \in DOMAIN (<<e>> \o Tail(s)) :
                (<<e>> \o Tail(s))[i] = e \/ (<<e>> \o Tail(s))[i].op \in Plain
  <2> DEFINE t == <<e>> \o Tail(s)
  <2>1. DOMAIN t = DOMAIN s /\ t[1] = e /\ \A i \in DOMAIN s : i # 1 => t[i] = s[i]
    BY <1>1, Halved
  <2> HIDE DEF t
  <2>2. \A i \in DOMAIN s : i = 1 \/ i > 1
    BY <1>1
  <2>3. \A i \in DOMAIN t : t[i] = e \/ t[i].op \in Plain
    BY <1>2, <2>1, <2>2
  <2> QED
    BY <2>3 DEF t
<1> QED
  BY <1>3, <1>4 DEF s

LEMMA SureRuns ==
    ASSUME TypeOK, Work, SureInv, NEW a \in Actors, NEW c \in Components,
           \/ Stop(a, c) \/ Mark(a, c) \/ Clear(a, c)
           \/ Write(a, c) \/ WriteShared(a, c) \/ WriteMoved(a, c)
           \/ Start(a, c) \/ Spawn(a, c)
    PROVE  SureInv'
<1> SUFFICES ASSUME NEW d \in Components, kept'[d] = "sure" PROVE Gone(d)'
  BY DEF SureInv
<1>o. \A b \in Actors : b # a => todo'[b] = todo[b]
  BY DEF Stop, Mark, Clear, Write, WriteShared, WriteMoved, Start, Spawn, Done, TypeOK
<1>r. todo[a] # <<>>
  BY DEF Stop, Mark, Clear, Write, WriteShared, WriteMoved, Start, Spawn, Does
<1>p. "write" \notin Plain
  BY DEF Plain
<1>t. ASSUME todo'[a] = Tail(todo[a])
      PROVE  \A i \in DOMAIN todo'[a] : todo'[a][i].op # "write"
  BY <1>r, <1>t, <1>p, RestIsWhole
<1>1. CASE Stop(a, c)
  <2>0. todo'[a] = Tail(todo[a]) /\ UNCHANGED <<marked, copy, stage, down>>
    BY <1>1 DEF Stop, Done, TypeOK, files
  <2>1. CASE kept[d] = "sure"
    <3>1. Gone(d)
      BY <2>1 DEF SureInv
    <3>2. up'[d] = 0
      BY <1>1, <3>1 DEF Gone, Stop, TypeOK
    <3>3. \A b \in Actors : \A i \in DOMAIN todo'[b] : todo'[b][i].op = "write" => d \in copy[b]
      BY <1>o, <1>t, <2>0, <3>1 DEF Gone
    <3> QED
      BY <2>0, <3>1, <3>2, <3>3 DEF Gone
  <2>2. CASE kept[d] # "sure"
    <3>1. a = Op /\ d = c /\ c \in marked /\ \A p \in Passes : stage[p] # "read"
      BY <1>1, <2>2 DEF Stop, TypeOK
    <3>2. up'[d] = 0
      BY <1>1, <3>1 DEF Stop, TypeOK
    <3>3. ASSUME NEW b \in Actors, NEW i \in DOMAIN todo'[b], todo'[b][i].op = "write"
          PROVE  d \in copy[b]
      <4>1. CASE b = a
        BY <1>t, <2>0, <3>3, <4>1
      <4>2. CASE b # a
        <5>1. b \in Passes /\ todo'[b] = todo[b]
          BY <1>o, <3>1, <4>2, OneActor
        <5> QED
          BY <3>1, <3>3, <5>1 DEF Work, PassWork
      <4> QED
        BY <4>1, <4>2
    <3> QED
      BY <2>0, <3>1, <3>2, <3>3 DEF Gone
  <2> QED
    BY <2>1, <2>2
<1>2. CASE Mark(a, c)
  <2>1. UNCHANGED <<up, marked, stage, down, kept>>
        /\ copy'[a] = marked \cup {c} /\ \A b \in Actors : b # a => copy'[b] = copy[b]
    BY <1>2 DEF Mark, files, pass, ghosts, TypeOK
  <2>2. Gone(d)
    BY <2>1 DEF SureInv
  <2> QED
    BY <1>o, <2>1, <2>2 DEF Gone
<1>3. CASE Clear(a, c)
  <2>1. UNCHANGED <<up, marked, stage, down, kept>>
        /\ copy'[a] = marked \ {c} /\ \A b \in Actors : b # a => copy'[b] = copy[b]
    BY <1>3 DEF Clear, files, pass, ghosts, TypeOK
  <2>2. Gone(d)
    BY <2>1 DEF SureInv
  <2>3. c # d
    BY <1>3, <2>1, NobodyRevives DEF Clear
  <2> QED
    BY <1>o, <2>1, <2>2, <2>3 DEF Gone
<1>4. CASE Write(a, c)
  <2>1. /\ UNCHANGED <<up, stage, down, kept>> /\ marked' = copy[a] /\ todo'[a] = Tail(todo[a])
        /\ \A b \in Actors : b # a => copy'[b] = copy[b]
    BY <1>4 DEF Write, Done, pass, ghosts, TypeOK
  <2>2. Gone(d)
    BY <2>1 DEF SureInv
  <2>3. 1 \in DOMAIN todo[a] /\ todo[a][1].op = "write"
    BY <1>4, RunTodo DEF Write
  <2>4. d \in marked'
    BY <2>1, <2>2, <2>3 DEF Gone
  <2> QED
    BY <1>o, <1>t, <2>1, <2>2, <2>4 DEF Gone
<1>5. CASE Start(a, c)
  <2>1. UNCHANGED <<up, marked, copy, stage, down, kept>>
    BY <1>5 DEF Start, files, pass
  <2>2. Gone(d)
    BY <2>1 DEF SureInv
  <2>3. \A i \in DOMAIN todo'[a] : todo'[a][i].op # "write"
    <3>1. CASE todo'[a] = Tail(todo[a])
      BY <1>t, <3>1
    <3>2. CASE todo'[a] = <<Step("spawn", c)>> \o Tail(todo[a])
      <4>1. Step("spawn", c) \in StepsOf /\ Step("spawn", c).op = "spawn"
        BY StepType
      <4>2. \A i \in DOMAIN todo'[a] : todo'[a][i] = Step("spawn", c) \/ todo'[a][i].op \in Plain
        BY <1>r, <3>2, <4>1, RestIsWhole
      <4> QED
        BY <1>p, <4>1, <4>2
    <3> QED
      BY <1>5, <3>1, <3>2 DEF Start, Done, TypeOK
  <2> QED
    BY <1>o, <2>1, <2>2, <2>3 DEF Gone
<1>6. CASE Spawn(a, c)
  <2>1. UNCHANGED <<marked, copy, stage, down, kept>>
    BY <1>6 DEF Spawn, files, pass
  <2>2. Gone(d)
    BY <2>1 DEF SureInv
  <2>3. c # d
    BY <1>6, <2>1, NobodyRevives DEF Spawn
  <2>4. up'[d] = 0
    BY <1>6, <2>2, <2>3 DEF Spawn, TypeOK, Gone
  <2>5. \A i \in DOMAIN todo'[a] : todo'[a][i].op # "write"
    <3>1. CASE todo'[a] = Tail(todo[a])
      BY <1>t, <3>1
    <3>2. CASE todo'[a] = <<>>
      BY <3>2, NoMembers
    <3> QED
      BY <1>6, <3>1, <3>2 DEF Spawn, Done, TypeOK
  <2> QED
    BY <1>o, <2>1, <2>2, <2>4, <2>5 DEF Gone
<1>7. CASE WriteShared(a, c) \/ WriteMoved(a, c)
  BY <1>7 DEF WriteShared, WriteMoved, MayLose
<1> QED
  BY <1>1, <1>2, <1>3, <1>4, <1>5, <1>6, <1>7

LEMMA SurePasses ==
    ASSUME TypeOK, Work, SureInv, NEW p \in Passes,
           Begin(p) \/ Read(p) \/ Look(p) \/ Save(p) \/ Hang(p)
    PROVE  SureInv'
<1> SUFFICES ASSUME NEW d \in Components, kept'[d] = "sure" PROVE Gone(d)'
  BY DEF SureInv
<1>1. UNCHANGED <<up, marked, copy, kept>>
  BY DEF Begin, Read, Look, Save, Hang, files, script, ghosts
<1>2. Gone(d)
  BY <1>1 DEF SureInv
<1>3. \A q \in Passes : stage'[q] = "read" => d \in down'[q]
  <2> SUFFICES ASSUME NEW q \in Passes, stage'[q] = "read" PROVE d \in down'[q]
    OBVIOUS
  <2>1. CASE Begin(p)
    BY <1>2, <2>1 DEF Begin, Gone, TypeOK
  <2>2. CASE Read(p)
    BY <1>2, <2>2 DEF Read, Gone, TypeOK
  <2>3. CASE Look(p)
    BY <1>2, <2>3 DEF Look, Gone, TypeOK
  <2>4. CASE Ends(p)
    BY <1>2, <2>4 DEF Ends, Gone, TypeOK
  <2> QED
    BY <2>1, <2>2, <2>3, <2>4 DEF Save, Hang
<1>4. ASSUME NEW b \in Actors, NEW i \in DOMAIN todo'[b], todo'[b][i].op = "write"
      PROVE  d \in copy[b]
  <2>1. CASE todo'[b] = todo[b]
    BY <1>2, <1>4, <2>1 DEF Gone
  <2>2. CASE todo'[b] = <<>>
    BY <1>4, <2>2, NoMembers
  <2>3. CASE Look(p) /\ b = p
    <3>1. Head(left[p]) \in Components
          /\ (todo' = [todo EXCEPT ![p] = Restarting(Head(left[p]))] \/ UNCHANGED todo)
      BY <2>3, LookHead
    <3>2. todo'[b] = Restarting(Head(left[p])) \/ todo'[b] = todo[b]
      BY <2>3, <3>1 DEF TypeOK
    <3>3. \A j \in DOMAIN Restarting(Head(left[p])) : Restarting(Head(left[p]))[j].op \in Plain
      BY <3>1, SoundRestarting DEF Sound
    <3> QED
      BY <1>4, <2>1, <3>2, <3>3 DEF Plain
  <2>4. (Look(p) /\ b = p) \/ todo'[b] = todo[b] \/ todo'[b] = <<>>
    BY OneActor DEF Begin, Read, Look, Save, Hang, script, TypeOK
  <2> QED
    BY <2>1, <2>2, <2>3, <2>4
<1> QED
  BY <1>1, <1>2, <1>3, <1>4 DEF Gone

LEMMA SureStep == TypeOK /\ Work /\ SureInv /\ [Next]_vars => SureInv'
<1> SUFFICES ASSUME TypeOK, Work, SureInv, [Next]_vars PROVE SureInv'
  OBVIOUS
<1>1. ASSUME NEW p \in Passes, Supervise(p) \/ Hang(p) PROVE SureInv'
  BY <1>1, OneActor, SurePasses, SureRuns DEF Supervise, Runs
<1>2. CASE Request
  <2> SUFFICES ASSUME NEW d \in Components, kept'[d] = "sure" PROVE Gone(d)'
    BY DEF SureInv
  <2>1. PICK r \in Requests :
           /\ todo' = [todo EXCEPT ![Op] = Script(r)]
           /\ kept' = [c \in Components |->
                         IF Step("start", c) \in Members(Script(r)) THEN "no" ELSE kept[c]]
    BY <1>2 DEF Request
  <2>2. Gone(d)
    BY <2>1 DEF SureInv
  <2>3. todo'[Op] = Script(r) /\ \A a \in Actors : a # Op => todo'[a] = todo[a]
    BY <2>1, OneActor DEF TypeOK
  <2>4. \A i \in DOMAIN Script(r) : Script(r)[i].op # "write"
    BY SoundScript DEF Sound, Plain
  <2>5. UNCHANGED <<up, marked, copy, stage, down>>
    BY <1>2 DEF Request, files, pass
  <2> QED
    BY <2>2, <2>3, <2>4, <2>5 DEF Gone
<1>3. CASE Runs(Op)
  BY <1>3, OneActor, SureRuns DEF Runs
<1>4. ASSUME NEW c \in Components, Crash(c) PROVE SureInv'
  <2>1. UNCHANGED <<marked, copy, todo, stage, down, kept>> /\ up[c] > 0
        /\ \A d \in Components : d # c => up'[d] = up[d]
    BY <1>4 DEF Crash, files, script, ghosts, TypeOK
  <2>2. \A d \in Components : kept[d] = "sure" => d # c
    BY <2>1 DEF SureInv, Gone
  <2> QED
    BY <2>1, <2>2 DEF SureInv, Gone
<1>5. CASE Hour
  BY <1>5 DEF Hour, script, pass, SureInv, Gone
<1>6. CASE UNCHANGED vars
  BY <1>6 DEF vars, files, script, pass, ghosts, SureInv, Gone
<1> QED
  BY <1>1, <1>2, <1>3, <1>4, <1>5, <1>6 DEF Next

\* A component that the operator stopped with its mark in the halt file, and with no
\* pass past its reading of the file, stays down until he asks for it: through
\* crashes, restarts of other components by anybody, and every update of the file
\* but one for which two scripts open its temporary file at once.
THEOREM OperatorPrevails == Spec => []OperatorWins
<1>1. Init => SureInv
  BY DEF Init, SureInv
<1>2. SureInv => OperatorWins
  BY DEF SureInv, Gone, OperatorWins
<1> QED
  BY <1>1, <1>2, WorkInit, WorkStep, SureStep, TypeCorrect, PTL DEF Spec

---------------------------------------------------------------------------
(* What a pass still means to stop. *)

WillStop(p, c) == \E i \in DOMAIN todo[p] : todo[p][i].op = "stop" /\ todo[p][i].of = c

\* It was dead when the pass listed the processes, or it was started by others since.
TouchedInv ==
    \A p \in Passes, c \in Components :
        /\ stage[p] # "idle" /\ c \notin seen[p]
        /\ c \in Members(left[p]) \/ WillStop(p, c)
        /\ up[c] > 0
        => c \in touched[p]

\* A run of restart.sh comes to stop nothing that its script did not have to stop.
LEMMA NothingMoreToStop ==
    ASSUME TypeOK, Work, NEW a \in Actors, NEW c \in Components,
           \/ Stop(a, c) \/ Mark(a, c) \/ Clear(a, c)
           \/ Write(a, c) \/ WriteShared(a, c) \/ WriteMoved(a, c)
           \/ Start(a, c) \/ Spawn(a, c)
    PROVE  /\ \A b \in Actors : b # a => todo'[b] = todo[b]
           /\ \A i \in DOMAIN todo'[a] : todo'[a][i].op = "stop" =>
                 \E j \in DOMAIN todo[a] : j > 1 /\ todo[a][j] = todo'[a][i]
<1> DEFINE s == todo[a]
           t == todo'[a]
<1>1. s \in Seq(StepsOf) /\ s # <<>>
  BY ActorType DEF Stop, Mark, Clear, Write, WriteShared, WriteMoved, Start, Spawn, Does
<1>2. \/ t = Tail(s) \/ t = <<>>
      \/ \E e \in {Step("write", c), Step("spawn", c)} : t = <<e>> \o Tail(s)
  BY DEF Stop, Mark, Clear, Write, WriteShared, WriteMoved, Start, Spawn, Done, TypeOK
<1>3. \A e \in {Step("write", c), Step("spawn", c)} : e \in StepsOf /\ e.op # "stop"
  BY StepType
<1>4. \A b \in Actors : b # a => todo'[b] = todo[b]
  BY DEF Stop, Mark, Clear, Write, WriteShared, WriteMoved, Start, Spawn, Done, TypeOK
<1> HIDE DEF s, t
<1>5. ASSUME NEW i \in DOMAIN t, t[i].op = "stop"
      PROVE  \E j \in DOMAIN s : j > 1 /\ s[j] = t[i]
  <2>1. CASE t = Tail(s)
    <3>1. i \in Nat \ {0} /\ i + 1 \in DOMAIN s /\ t[i] = s[i + 1]
      BY <1>1, <1>5, <2>1, Rest
    <3>2. i + 1 > 1
      BY <3>1
    <3> QED
      BY <3>1, <3>2
  <2>2. CASE t = <<>>
    BY <1>5, <2>2, NoMembers
  <2>3. ASSUME NEW e \in {Step("write", c), Step("spawn", c)}, t = <<e>> \o Tail(s)
        PROVE  \E j \in DOMAIN s : j > 1 /\ s[j] = t[i]
    <3>1. DOMAIN t = DOMAIN s /\ t[1] = e /\ \A k \in DOMAIN s : k # 1 => t[k] = s[k]
      BY <1>1, <1>3, <2>3, Halved
    <3>2. i \in DOMAIN s /\ i # 1
      BY <1>3, <1>5, <3>1
    <3>3. i > 1
      BY <1>1, <3>2
    <3> QED
      BY <3>1, <3>2, <3>3
  <2> QED
    BY <1>2, <2>1, <2>2, <2>3
<1> QED
  BY <1>4, <1>5 DEF s, t

LEMMA TouchedRuns ==
    ASSUME TypeOK, Work, TouchedInv, NEW a \in Actors, NEW c \in Components,
           \/ Stop(a, c) \/ Mark(a, c) \/ Clear(a, c)
           \/ Write(a, c) \/ WriteShared(a, c) \/ WriteMoved(a, c)
           \/ Start(a, c) \/ Spawn(a, c)
    PROVE  TouchedInv'
<1> SUFFICES ASSUME NEW p \in Passes, NEW d \in Components,
                    stage'[p] # "idle", d \notin seen'[p],
                    d \in Members(left'[p]) \/ WillStop(p, d)', up'[d] > 0
             PROVE  d \in touched'[p]
  BY DEF TouchedInv
<1>1. UNCHANGED <<stage, seen, left>>
  BY DEF Stop, Mark, Clear, Write, WriteShared, WriteMoved, Start, Spawn, pass
<1>2. p \in Actors
  BY OneActor
<1>3. WillStop(p, d)' => WillStop(p, d)
  BY <1>2, NothingMoreToStop DEF WillStop
<1>4. up[d] > 0 => d \in touched[p]
  BY <1>1, <1>3 DEF TouchedInv
<1>5. CASE UNCHANGED touched /\ up'[d] <= up[d]
  <2>1. up[d] \in Nat
    BY DEF TypeOK
  <2>2. TypeOK'
    BY RunType
  <2>3. up'[d] \in Nat
    BY <2>2 DEF TypeOK
  <2> QED
    BY <1>4, <1>5, <2>1, <2>3
<1>6. CASE Spawn(a, c) /\ ~UNCHANGED up
  <2>1. /\ up' = [up EXCEPT ![c] = @ + 1]
        /\ touched' = [q \in Passes |-> IF q = a THEN touched[q] ELSE touched[q] \cup {c}]
    BY <1>6 DEF Spawn
  <2>2. CASE d # c
    BY <1>4, <2>1, <2>2 DEF TypeOK
  <2>3. CASE d = c /\ p # a
    BY <2>1, <2>3
  <2>4. CASE d = c /\ p = a
    <3>1. 1 \in DOMAIN todo[p] /\ todo[p][1].of = c
      BY <1>6, <2>4, RunTodo DEF Spawn
    <3>2. c \notin Members(left[p])
      BY <3>1 DEF Work, PassWork
    <3>3. PICK i \in DOMAIN todo'[p] : todo'[p][i].op = "stop"
      BY <1>1, <2>4, <3>2 DEF WillStop
    <3>4. PICK j \in DOMAIN todo[p] : j > 1 /\ todo[p][j].op = "stop"
      BY <2>4, <3>3, NothingMoreToStop
    <3> QED
      BY <3>4 DEF Work, PassWork
  <2> QED
    BY <2>2, <2>3, <2>4
<1>7. Spawn(a, c) \/ (UNCHANGED touched /\ up'[d] <= up[d])
  <2>1. up[d] \in Nat
    BY DEF TypeOK
  <2>2. up' = up \/ up' = [up EXCEPT ![c] = 0] \/ Spawn(a, c)
    BY DEF Stop, Mark, Clear, Write, WriteShared, WriteMoved, Start
  <2>3. UNCHANGED touched \/ Spawn(a, c)
    BY DEF Stop, Mark, Clear, Write, WriteShared, WriteMoved, Start, ghosts
  <2>4. up'[d] = up[d] \/ up'[d] = 0 \/ Spawn(a, c)
    BY <2>2 DEF TypeOK
  <2> QED
    BY <2>1, <2>3, <2>4
<1>8. CASE Spawn(a, c) /\ UNCHANGED up
  <2>1. touched' = touched \/ \A q \in Passes : touched[q] \subseteq touched'[q]
    BY <1>8 DEF Spawn
  <2> QED
    BY <1>4, <1>8, <2>1
<1> QED
  BY <1>5, <1>6, <1>7, <1>8

LEMMA TouchedPasses ==
    ASSUME TypeOK, Work, TouchedInv, NEW p \in Passes,
           Begin(p) \/ Read(p) \/ Look(p) \/ Save(p) \/ Hang(p)
    PROVE  TouchedInv'
<1> SUFFICES ASSUME NEW q \in Passes, NEW d \in Components,
                    stage'[q] # "idle", d \notin seen'[q],
                    d \in Members(left'[q]) \/ WillStop(q, d)', up'[d] > 0
             PROVE  d \in touched'[q]
  BY DEF TouchedInv
<1>1. up' = up /\ q \in Actors
  BY OneActor DEF Begin, Read, Look, Save, Hang
<1>2. CASE q # p
  <2>1. /\ stage'[q] = stage[q] /\ seen'[q] = seen[q] /\ left'[q] = left[q]
        /\ touched'[q] = touched[q]
    BY <1>2 DEF Begin, List, Read, Look, Save, Hang, Ends, ghosts, TypeOK
  <2>2. todo'[q] = todo[q]
    BY <1>1, <1>2 DEF Begin, Read, Look, Save, Hang, script, TypeOK
  <2>3. WillStop(q, d)' => WillStop(q, d)
    BY <2>2 DEF WillStop
  <2> QED
    BY <1>1, <2>1, <2>3 DEF TouchedInv
<1>3. CASE q = p /\ Begin(p)
  <2>1. seen'[p] = Alive \/ seen'[p] = Components
    BY <1>3 DEF Begin, List, TypeOK
  <2> QED
    BY <1>1, <1>3, <2>1 DEF Alive
<1>4. CASE q = p /\ Read(p)
  <2>1. UNCHANGED <<seen, left, todo, touched>> /\ stage[p] # "idle"
    BY <1>4 DEF Read, script, ghosts
  <2>2. WillStop(q, d)' => WillStop(q, d)
    BY <2>1 DEF WillStop
  <2> QED
    BY <1>1, <1>4, <2>1, <2>2 DEF TouchedInv
<1>5. CASE q = p /\ Look(p)
  <2> DEFINE c == Head(left[p])
  <2>1. left[p] \in Seq(Components) /\ left[p] # <<>> /\ c \in Components
        /\ left' = [left EXCEPT ![p] = Tail(left[p])] /\ todo[p] = <<>> /\ stage[p] = "read"
        /\ (todo' = [todo EXCEPT ![p] = Restarting(c)] \/ UNCHANGED todo)
    BY <1>5, LookHead
  <2>2. UNCHANGED <<seen, touched>>
    BY <1>5 DEF Look
  <2>3. Once(left[p])
    BY DEF Work, LeftOnce
  <2>4. Members(Tail(left[p])) \subseteq Members(left[p]) /\ c \in Members(left[p])
    BY <2>1, <2>3, TailMembers
  <2>5. left'[p] = Tail(left[p])
    BY <2>1 DEF TypeOK
  <2> HIDE DEF c
  <2>6. WillStop(p, d)' => d = c
    <3>1. todo'[p] = Restarting(c) \/ todo'[p] = <<>>
      BY <1>1, <1>5, <2>1 DEF TypeOK
    <3>2. \A i \in DOMAIN Restarting(c) : Restarting(c)[i].of = c
      BY <2>1, SoundRestarting
    <3> QED
      BY <3>1, <3>2, NoMembers DEF WillStop
  <2>7. d \in Members(left[p])
    BY <1>5, <2>4, <2>5, <2>6
  <2> QED
    BY <1>1, <1>5, <2>1, <2>2, <2>7 DEF TouchedInv
<1>6. CASE q = p /\ (Save(p) \/ Hang(p))
  BY <1>6 DEF Save, Hang, Ends, TypeOK
<1> QED
  BY <1>2, <1>3, <1>4, <1>5, <1>6

LEMMA TouchedStep == TypeOK /\ Work /\ TouchedInv /\ [Next]_vars => TouchedInv'
<1> SUFFICES ASSUME TypeOK, Work, TouchedInv, [Next]_vars PROVE TouchedInv'
  OBVIOUS
<1>1. ASSUME NEW p \in Passes, Supervise(p) \/ Hang(p) PROVE TouchedInv'
  BY <1>1, OneActor, TouchedPasses, TouchedRuns DEF Supervise, Runs
<1>2. CASE Request
  <2>1. UNCHANGED <<up, stage, seen, left, touched>>
    BY <1>2 DEF Request, pass
  <2>2. \A p \in Passes : todo'[p] = todo[p]
    BY <1>2, OneActor DEF Request, TypeOK
  <2>3. \A p \in Passes, c \in Components : WillStop(p, c)' => WillStop(p, c)
    BY <2>2 DEF WillStop
  <2> QED
    BY <2>1, <2>3 DEF TouchedInv
<1>3. CASE Runs(Op)
  BY <1>3, OneActor, TouchedRuns DEF Runs
<1>4. ASSUME NEW c \in Components, Crash(c) PROVE TouchedInv'
  <2>1. UNCHANGED <<stage, seen, left, todo, touched>>
    BY <1>4 DEF Crash, script, ghosts
  <2>2. \A d \in Components : up'[d] > 0 => up[d] > 0
    BY <1>4 DEF Crash, TypeOK
  <2> QED
    BY <2>1, <2>2 DEF TouchedInv, WillStop
<1>5. CASE Hour
  BY <1>5 DEF Hour, script, pass, TouchedInv, WillStop
<1>6. CASE UNCHANGED vars
  BY <1>6 DEF vars, script, pass, ghosts, TouchedInv, WillStop
<1> QED
  BY <1>1, <1>2, <1>3, <1>4, <1>5, <1>6 DEF Next

\* A pass of the supervisor never kills a process that was running when it listed
\* the processes: whatever it stops was dead then, or was started by others since.
THEOREM StopsOnlyTheDead == Spec => HealthyIsLeftAlone
<1>1. Init => TouchedInv
  BY NoMembers DEF Init, TouchedInv
<1>2. TypeOK /\ Work /\ TouchedInv =>
         \A p \in Passes, c \in Components : Stop(p, c) /\ up[c] > 0 => c \in touched[p]
  <2> SUFFICES ASSUME TypeOK, Work, TouchedInv, NEW p \in Passes, NEW c \in Components,
                      Stop(p, c), up[c] > 0
               PROVE  c \in touched[p]
    OBVIOUS
  <2>1. 1 \in DOMAIN todo[p] /\ todo[p][1].op = "stop" /\ todo[p][1].of = c
    BY OneActor, RunTodo DEF Stop, Plain
  <2>2. stage[p] = "read" /\ c \notin seen[p] /\ WillStop(p, c)
    BY <2>1 DEF Work, PassWork, WillStop
  <2> QED
    BY <2>2 DEF TouchedInv
<1>3. TypeOK /\ Work /\ TouchedInv /\ [Next]_vars =>
         [\A p \in Passes, c \in Components : Stop(p, c) /\ up[c] > 0 => c \in touched[p]]_vars
  BY <1>2
<1>4. Spec => [](TypeOK /\ Work /\ TouchedInv)
  BY <1>1, WorkInit, WorkStep, TouchedStep, TypeCorrect, PTL DEF Spec
<1> QED
  BY <1>3, <1>4, PTL DEF Spec, HealthyIsLeftAlone

---------------------------------------------------------------------------
(* What supervision tried, and what the state files have of it. *)

\* The passes under way that look at a component.
Guard(c) == IF c = Sched THEN Loop ELSE Sched
Of(c)    == UnderWay(Guard(c))

\* lo restarts cannot be forgotten any more: the file and every pass past reading
\* it have them.  The passes in T have one more, their own, and are through with
\* the component; the others under way may still try it, once each.
Counted(c, lo, T) ==
    /\ lo <= history[c]
    /\ \A p \in Of(c) : stage[p] = "read" => lo <= past[p][c]
    /\ \A p \in T : stage[p] = "read" /\ lo < past[p][c] /\ c \notin Members(left[p])
    /\ tries[c] + Cardinality(Of(c) \ T) <= lo + slips + (IF Of(c) = {} THEN 0 ELSE 1)

CountOf(c) ==
    /\ tries[c] <= MaxRestarts + slips
    /\ \E lo \in Nat : \E T \in SUBSET Of(c) : Counted(c, lo, T)

LEMMA CountTypes ==
    ASSUME TypeOK, NEW c \in Components
    PROVE  /\ tries[c] \in Nat /\ slips \in Nat /\ history[c] \in Nat /\ MaxRestarts \in Nat
           /\ \A p \in Passes : past[p][c] \in Nat /\ past[p][c] <= MaxRestarts
           /\ Of(c) \subseteq Passes
           /\ \A S \in SUBSET Of(c) : IsFiniteSet(S) /\ Cardinality(S) \in Nat
<1>1. Of(c) \subseteq Passes /\ IsFiniteSet(Passes)
  BY SupervisionAssumption DEF Of, UnderWay
<1>2. \A S \in SUBSET Of(c) : IsFiniteSet(S)
  BY <1>1, FS_Subset
<1>3. \A S \in SUBSET Of(c) : Cardinality(S) \in Nat
  BY <1>2, FS_CardinalityType
<1>4. history[c] \in 0..MaxRestarts /\ \A p \in Passes : past[p][c] \in 0..MaxRestarts
  BY DEF TypeOK
<1>5. MaxRestarts \in Nat /\ tries[c] \in Nat /\ slips \in Nat
  BY SupervisionAssumption DEF TypeOK
<1> QED
  BY <1>1, <1>2, <1>3, <1>4, <1>5

\* Nothing that concerns the component happens, and no slip is forgotten.
LEMMA CountFrame ==
    ASSUME TypeOK, NEW c \in Components, CountOf(c), Of(c)' = Of(c),
           history'[c] = history[c], tries'[c] = tries[c], slips' \in Nat, slips <= slips',
           \A q \in Of(c) : /\ stage'[q] = stage[q] /\ past'[q][c] = past[q][c]
                            /\ Members(left'[q]) \subseteq Members(left[q])
    PROVE  CountOf(c)'
<1>1. PICK lo \in Nat : \E T \in SUBSET Of(c) : Counted(c, lo, T)
  BY DEF CountOf
<1>2. PICK T \in SUBSET Of(c) : Counted(c, lo, T)
  BY <1>1
<1>3. tries'[c] <= MaxRestarts + slips'
  BY CountTypes DEF CountOf
<1>4. tries'[c] + Cardinality(Of(c) \ T) <= lo + slips' + (IF Of(c) = {} THEN 0 ELSE 1)
  <2>1. Cardinality(Of(c) \ T) \in Nat
    BY CountTypes
  <2>2. tries[c] + Cardinality(Of(c) \ T) <= lo + slips + (IF Of(c) = {} THEN 0 ELSE 1)
    BY <1>2 DEF Counted
  <2> QED
    BY <2>1, <2>2, CountTypes
<1>5. Counted(c, lo, T)'
  BY <1>2, <1>4 DEF Counted
<1> QED
  BY <1>3, <1>5 DEF CountOf

LEMMA CountBegin ==
    ASSUME TypeOK, NEW c \in Components, CountOf(c), NEW p \in Passes, Begin(p)
    PROVE  CountOf(c)'
<1>1. /\ \A q \in Passes \ {p} : stage'[q] = stage[q] /\ left'[q] = left[q]
      /\ stage[p] = "idle" /\ stage'[p] = "listed"
      /\ UNCHANGED <<history, past, tries>>
      /\ slips' = IF UnderWay(HostOf[p]) = {} THEN slips ELSE slips + 1
  BY DEF Begin, files, TypeOK
<1>2. slips' \in Nat /\ slips <= slips'
  BY <1>1, CountTypes
<1>3. CASE HostOf[p] # Guard(c)
  <2>1. Of(c)' = Of(c) /\ p \notin Of(c)
    BY <1>1, <1>3 DEF Of, UnderWay
  <2> QED
    BY <1>1, <1>2, <2>1, CountTypes, CountFrame
<1>4. CASE HostOf[p] = Guard(c)
  <2>1. Of(c)' = Of(c) \cup {p} /\ p \notin Of(c)
    BY <1>1, <1>4 DEF Of, UnderWay
  <2>2. PICK lo \in Nat : \E T \in SUBSET Of(c) : Counted(c, lo, T)
    BY DEF CountOf
  <2>3. PICK T \in SUBSET Of(c) : Counted(c, lo, T)
    BY <2>2
  <2> DEFINE n == Cardinality(Of(c) \ T)
  <2>4. n \in Nat /\ Cardinality(Of(c)' \ T) = n + 1
    <3>1. Of(c)' \ T = (Of(c) \ T) \cup {p} /\ p \notin Of(c) \ T
      BY <2>1, <2>3
    <3>2. IsFiniteSet(Of(c) \ T) /\ n \in Nat
      BY CountTypes
    <3> QED
      BY <3>1, <3>2, FS_AddElement
  <2> HIDE DEF n
  <2>5. tries[c] + n <= lo + slips + (IF Of(c) = {} THEN 0 ELSE 1)
    BY <2>3 DEF Counted, n
  <2>6. slips' = IF Of(c) = {} THEN slips ELSE slips + 1
    BY <1>1, <1>4 DEF Of
  <2>7. tries'[c] + Cardinality(Of(c)' \ T) <= lo + slips' + (IF Of(c)' = {} THEN 0 ELSE 1)
    <3>1. Of(c)' # {}
      BY <2>1
    <3>2. tries[c] + (n + 1) <= lo + slips' + 1
      BY <2>4, <2>5, <2>6, CountTypes
    <3> QED
      BY <1>1, <2>4, <3>1, <3>2
  <2>8. \A q \in Of(c)' : stage'[q] = "read" => lo <= past'[q][c]
    BY <1>1, <2>1, <2>3, CountTypes DEF Counted
  <2>9. \A q \in T : stage'[q] = "read" /\ lo < past'[q][c] /\ c \notin Members(left'[q])
    BY <1>1, <2>1, <2>3, CountTypes DEF Counted
  <2>10. Counted(c, lo, T)' /\ T \in SUBSET Of(c)'
    BY <1>1, <2>1, <2>3, <2>7, <2>8, <2>9 DEF Counted
  <2>11. tries'[c] <= MaxRestarts + slips'
    BY <1>1, <1>2, CountTypes DEF CountOf
  <2> QED
    BY <2>10, <2>11 DEF CountOf
<1> QED
  BY <1>3, <1>4

LEMMA CountRead ==
    ASSUME TypeOK, NEW c \in Components, CountOf(c), NEW p \in Passes, Read(p)
    PROVE  CountOf(c)'
<1>1. /\ stage[p] = "listed" /\ stage' = [stage EXCEPT ![p] = "read"]
      /\ past' = [past EXCEPT ![p] = history] /\ UNCHANGED <<left, history, tries, slips>>
  BY DEF Read, files, ghosts
<1>2. /\ stage'[p] = "read" /\ past'[p] = history
      /\ \A q \in Passes : q # p => stage'[q] = stage[q] /\ past'[q] = past[q]
  BY <1>1 DEF TypeOK
<1>3. Of(c)' = Of(c)
  BY <1>1, <1>2 DEF Of, UnderWay
<1>4. PICK lo \in Nat : \E T \in SUBSET Of(c) : Counted(c, lo, T)
  BY DEF CountOf
<1>5. PICK T \in SUBSET Of(c) : Counted(c, lo, T)
  BY <1>4
<1>6. p \notin T
  BY <1>1, <1>5 DEF Counted
<1>7. \A q \in Of(c) : stage'[q] = "read" => lo <= past'[q][c]
  BY <1>2, <1>5, CountTypes DEF Counted
<1>8. \A q \in T : stage'[q] = "read" /\ lo < past'[q][c] /\ c \notin Members(left'[q])
  BY <1>1, <1>2, <1>5, <1>6, CountTypes DEF Counted
<1>9. Counted(c, lo, T)'
  BY <1>1, <1>3, <1>5, <1>7, <1>8 DEF Counted
<1> QED
  BY <1>1, <1>3, <1>9 DEF CountOf

LEMMA CountLook ==
    ASSUME TypeOK, Work, NEW c \in Components, CountOf(c), NEW p \in Passes, Look(p)
    PROVE  CountOf(c)'
<1> DEFINE h == Head(left[p])
<1>1. /\ left[p] \in Seq(Components) /\ left[p] # <<>> /\ h \in Components
      /\ left' = [left EXCEPT ![p] = Tail(left[p])] /\ stage[p] = "read"
      /\ \/ /\ past[p][h] < MaxRestarts
            /\ past' = [past EXCEPT ![p][h] = @ + 1]
            /\ tries' = [tries EXCEPT ![h] = @ + 1]
         \/ UNCHANGED <<past, tries>>
  BY LookHead
<1>2. UNCHANGED <<stage, history, slips>> /\ Of(c)' = Of(c)
  BY DEF Look, files, Of, UnderWay
<1>3. /\ Members(left[p]) \subseteq Members(Watched(HostOf[p])) /\ Once(left[p])
  BY DEF Work, LeftOnce
<1>4. /\ Members(Tail(left[p])) \subseteq Members(left[p]) /\ h \in Members(left[p])
      /\ h \notin Members(Tail(left[p]))
  BY <1>1, <1>3, TailMembers
<1>5. /\ left'[p] = Tail(left[p]) /\ \A q \in Passes : q # p => left'[q] = left[q]
  BY <1>1 DEF TypeOK
<1>6. HostOf[p] = Guard(h)
  BY <1>1, <1>3, <1>4, WatchedByPass DEF Guard
<1> HIDE DEF h
<1>7. CASE UNCHANGED <<past, tries>> \/ h # c
  <2>1. tries'[c] = tries[c] /\ \A q \in Passes : past'[q][c] = past[q][c]
    <3>1. CASE UNCHANGED <<past, tries>>
      BY <3>1
    <3>2. CASE /\ h # c
               /\ past' = [past EXCEPT ![p][h] = @ + 1]
               /\ tries' = [tries EXCEPT ![h] = @ + 1]
      <4>1. tries'[c] = tries[c]
        BY <3>2 DEF TypeOK
      <4>2. past'[p] = [past[p] EXCEPT ![h] = @ + 1] /\ past[p] \in [Components -> 0..MaxRestarts]
        BY <3>2 DEF TypeOK
      <4>3. \A q \in Passes : q # p => past'[q] = past[q]
        BY <3>2 DEF TypeOK
      <4>4. past'[p][c] = past[p][c]
        BY <3>2, <4>2
      <4> QED
        BY <4>1, <4>3, <4>4
    <3> QED
      BY <1>1, <1>7, <3>1, <3>2
  <2>2. \A q \in Passes : Members(left'[q]) \subseteq Members(left[q])
    BY <1>4, <1>5
  <2>3. \A q \in Of(c) : /\ stage'[q] = stage[q] /\ past'[q][c] = past[q][c]
                         /\ Members(left'[q]) \subseteq Members(left[q])
    BY <1>2, <2>1, <2>2, CountTypes
  <2>4. slips' \in Nat /\ slips <= slips'
    BY <1>2, CountTypes
  <2> QED
    BY <1>2, <2>1, <2>3, <2>4, CountFrame
<1>8. CASE ~(UNCHANGED <<past, tries>>) /\ h = c
  <2>1. /\ past[p][c] < MaxRestarts /\ past'[p][c] = past[p][c] + 1
        /\ tries'[c] = tries[c] + 1
        /\ \A q \in Passes : q # p => past'[q] = past[q]
    <3>1. tries \in [Components -> Nat] /\ past \in [Passes -> [Components -> 0..MaxRestarts]]
      BY DEF TypeOK
    <3>2. past[p] \in [Components -> 0..MaxRestarts]
      BY <3>1
    <3> QED
      BY <1>1, <1>8, <3>1, <3>2
  <2>2. p \in Of(c)
    BY <1>1, <1>6, <1>8 DEF Of, UnderWay
  <2>3. PICK lo \in Nat : \E T \in SUBSET Of(c) : Counted(c, lo, T)
    BY DEF CountOf
  <2>4. PICK T \in SUBSET Of(c) : Counted(c, lo, T)
    BY <2>3
  <2>5. p \notin T
    BY <1>4, <1>8, <2>4 DEF Counted
  <2> DEFINE n == Cardinality(Of(c) \ T)
             U == T \cup {p}
  <2>6. n \in Nat /\ Cardinality(Of(c) \ U) = n - 1 /\ n - 1 \in Nat
    <3>1. Of(c) \ U = (Of(c) \ T) \ {p} /\ p \in Of(c) \ T
      BY <2>2, <2>5
    <3>2. IsFiniteSet(Of(c) \ T) /\ n \in Nat
      BY CountTypes
    <3> DEFINE D == Of(c) \ T
    <3>d. Of(c) \ U = D \ {p} /\ p \in D /\ IsFiniteSet(D) /\ n = Cardinality(D)
      BY <3>1, <3>2
    <3> HIDE DEF D, n, U
    <3>3. Cardinality(Of(c) \ U) = n - 1
      BY <3>d, FS_RemoveElement
    <3>4. Cardinality(Of(c) \ U) \in Nat
      BY CountTypes
    <3> QED
      BY <3>2, <3>3, <3>4
  <2> HIDE DEF n
  <2>7. tries[c] + n <= lo + slips + 1 /\ lo <= past[p][c]
    BY <1>1, <2>2, <2>4 DEF Counted, n
  <2>8. tries'[c] + Cardinality(Of(c) \ U) <= lo + slips + 1
    BY <2>1, <2>6, <2>7, CountTypes
  <2>9. tries'[c] <= MaxRestarts + slips
    <3>1. past[p][c] \in Nat /\ slips \in Nat /\ tries[c] \in Nat /\ MaxRestarts \in Nat
      BY CountTypes
    <3>2. lo + 1 <= MaxRestarts
      BY <2>1, <2>7, <3>1
    <3> QED
      BY <2>1, <2>6, <2>7, <3>1, <3>2
  <2>10. \A q \in Of(c) : stage[q] = "read" => lo <= past'[q][c]
    <3> SUFFICES ASSUME NEW q \in Of(c), stage[q] = "read" PROVE lo <= past'[q][c]
      OBVIOUS
    <3>1. CASE q = p
      BY <2>1, <2>7, <3>1, CountTypes
    <3>2. CASE q # p
      BY <2>1, <2>4, <3>2, CountTypes DEF Counted
    <3> QED
      BY <3>1, <3>2
  <2>11. \A q \in U : stage[q] = "read" /\ lo < past'[q][c] /\ c \notin Members(left'[q])
    <3>1. stage[p] = "read" /\ lo < past'[p][c] /\ c \notin Members(left'[p])
      BY <1>1, <1>4, <1>5, <1>8, <2>1, <2>7, CountTypes
    <3>2. \A q \in T : stage[q] = "read" /\ lo < past'[q][c] /\ c \notin Members(left'[q])
      BY <1>5, <2>1, <2>4, <2>5, CountTypes DEF Counted
    <3> QED
      BY <3>1, <3>2
  <2>12. lo <= history[c]
    BY <2>4 DEF Counted
  <2>13. Of(c) # {} /\ U \in SUBSET Of(c)
    BY <2>2, <2>4
  <2> HIDE DEF U
  <2>14. Counted(c, lo, U)'
    BY <1>2, <2>8, <2>10, <2>11, <2>12, <2>13 DEF Counted
  <2> QED
    BY <1>2, <2>9, <2>13, <2>14 DEF CountOf
<1> QED
  BY <1>7, <1>8

LEMMA CountEnds ==
    ASSUME TypeOK, Work, NEW c \in Components, CountOf(c), NEW p \in Passes, Save(p) \/ Hang(p)
    PROVE  CountOf(c)'
<1>1. /\ stage[p] = "read" /\ Ends(p) /\ UNCHANGED tries
      /\ slips' = slips \/ (slips' = slips + 1 /\ UNCHANGED history)
  <2>1. stage[p] = "read"
    BY NoScript DEF Save, Hang
  <2> QED
    BY <2>1 DEF Save, Hang, files
<1>2. /\ stage'[p] = "idle"
      /\ \A q \in Passes : q # p =>
            stage'[q] = stage[q] /\ past'[q] = past[q] /\ left'[q] = left[q]
  BY <1>1 DEF Ends, TypeOK
<1>3. slips' \in Nat /\ slips <= slips'
  BY <1>1, CountTypes
<1>4. /\ HostOf[p] # Guard(c) => history'[c] = history[c]
      /\ HostOf[p] = Guard(c) => slips' = slips + 1 \/ history'[c] = past[p][c]
  <2>1. c \in Members(Watched(HostOf[p])) <=> HostOf[p] = Guard(c)
    BY WatchedByPass DEF Guard
  <2> QED
    BY <2>1 DEF Save, Hang, files
<1>5. CASE HostOf[p] # Guard(c)
  <2>1. Of(c)' = Of(c) /\ p \notin Of(c)
    BY <1>2, <1>5 DEF Of, UnderWay
  <2>2. \A q \in Of(c) : /\ stage'[q] = stage[q] /\ past'[q][c] = past[q][c]
                         /\ Members(left'[q]) \subseteq Members(left[q])
    BY <1>2, <2>1, CountTypes
  <2> QED
    BY <1>1, <1>3, <1>4, <1>5, <2>1, <2>2, CountFrame
<1>6. CASE HostOf[p] = Guard(c)
  <2>1. Of(c)' = Of(c) \ {p} /\ p \in Of(c)
    BY <1>1, <1>2, <1>6 DEF Of, UnderWay
  <2>2. PICK lo \in Nat : \E T \in SUBSET Of(c) : Counted(c, lo, T)
    BY DEF CountOf
  <2>3. PICK T \in SUBSET Of(c) : Counted(c, lo, T)
    BY <2>2
  <2> DEFINE D == Of(c) \ T
             n == Cardinality(D)
             U == T \ {p}
             m == Cardinality(Of(c)' \ U)
             M == IF p \in T /\ Of(c)' = {} /\ slips' = slips THEN lo + 1 ELSE lo
  <2>4. /\ n \in Nat /\ m \in Nat
        /\ m = IF p \in T THEN n ELSE n - 1
    <3>1. Of(c)' \ U = D \ {p} /\ (p \in D <=> p \notin T)
      BY <2>1, <2>3
    <3>2. IsFiniteSet(D) /\ n \in Nat
      BY CountTypes
    <3>3. Of(c)' \ U \in SUBSET Of(c)
      BY <2>1
    <3>4. m \in Nat
      BY <3>3, CountTypes
    <3> HIDE DEF D
    <3>5. Cardinality(D \ {p}) = IF p \in D THEN n - 1 ELSE n
      BY <3>2, FS_RemoveElement
    <3> QED
      BY <3>1, <3>2, <3>4, <3>5
  <2>5. /\ tries[c] + n <= lo + slips + 1
        /\ lo <= history[c] /\ lo <= past[p][c] /\ (p \in T => lo < past[p][c])
    BY <1>1, <2>1, <2>3 DEF Counted
  <2> HIDE DEF n, m
  <2>6. /\ M \in Nat /\ (Of(c)' # {} => M = lo)
        /\ M <= history'[c]
    BY <1>1, <1>4, <1>6, <2>5, CountTypes
  <2>7. tries'[c] + m <= M + slips' + (IF Of(c)' = {} THEN 0 ELSE 1)
    <3>1. tries'[c] = tries[c] /\ tries[c] \in Nat /\ slips \in Nat
      BY <1>1, CountTypes
    <3>2. CASE slips' = slips + 1
      BY <2>4, <2>5, <3>1, <3>2
    <3>3. CASE slips' = slips /\ p \in T
      BY <2>4, <2>5, <3>1, <3>3
    <3>4. CASE slips' = slips /\ p \notin T
      BY <2>4, <2>5, <3>1, <3>4
    <3> QED
      BY <1>1, <3>2, <3>3, <3>4
  <2>8. \A q \in Of(c)' : stage'[q] = "read" => M <= past'[q][c]
    <3> SUFFICES ASSUME NEW q \in Of(c)', stage'[q] = "read" PROVE M <= past'[q][c]
      OBVIOUS
    <3>1. M = lo /\ q \in Of(c) /\ q # p /\ q \in Passes
      BY <2>1, <2>6, CountTypes
    <3> HIDE DEF M
    <3> QED
      BY <1>2, <2>3, <3>1 DEF Counted
  <2>9. \A q \in U : stage'[q] = "read" /\ M < past'[q][c] /\ c \notin Members(left'[q])
    <3> SUFFICES ASSUME NEW q \in U
                 PROVE  stage'[q] = "read" /\ M < past'[q][c] /\ c \notin Members(left'[q])
      OBVIOUS
    <3>1. q \in T /\ q # p /\ q \in Of(c)' /\ q \in Passes
      BY <2>1, <2>3, CountTypes
    <3>2. M = lo
      BY <2>6, <3>1
    <3> HIDE DEF M
    <3> QED
      BY <1>2, <2>3, <3>1, <3>2 DEF Counted
  <2>10. U \in SUBSET Of(c)'
    BY <2>1, <2>3
  <2> HIDE DEF M, U
  <2>11. PICK l \in Nat : l = M
    BY <2>6
  <2>12. Counted(c, l, U)'
    BY <2>6, <2>7, <2>8, <2>9, <2>10, <2>11 DEF Counted, m
  <2>13. tries'[c] <= MaxRestarts + slips'
    BY <1>1, <1>3, CountTypes DEF CountOf
  <2> QED
    BY <2>10, <2>12, <2>13 DEF CountOf
<1> QED
  BY <1>5, <1>6

CountInv == \A c \in Components : CountOf(c)

LEMMA CountInit == Init => CountInv
<1> SUFFICES ASSUME Init, NEW c \in Components PROVE CountOf(c)
  BY DEF CountInv
<1>1. Of(c) = {} /\ tries[c] = 0 /\ history[c] = 0 /\ slips = 0
  BY DEF Init, Of, UnderWay
<1>2. Counted(c, 0, {})
  BY <1>1, FS_EmptySet DEF Counted
<1> QED
  BY <1>1, <1>2, SupervisionAssumption DEF CountOf

LEMMA CountHour == ASSUME Hour PROVE CountInv'
<1> SUFFICES ASSUME NEW c \in Components PROVE CountOf(c)'
  BY DEF CountInv
<1>1. Of(c)' = {} /\ tries'[c] = 0 /\ history'[c] = 0 /\ slips' = 0
  BY DEF Hour, pass, Of, UnderWay
<1>2. Counted(c, 0, {})'
  BY <1>1, FS_EmptySet DEF Counted
<1> QED
  BY <1>1, <1>2, SupervisionAssumption DEF CountOf

LEMMA CountKept ==
    ASSUME TypeOK, CountInv, UNCHANGED <<stage, left, past, history, tries, slips>>
    PROVE  CountInv'
<1> SUFFICES ASSUME NEW c \in Components PROVE CountOf(c)'
  BY DEF CountInv
<1>1. Of(c)' = Of(c) /\ slips' \in Nat /\ slips <= slips'
  BY CountTypes DEF Of, UnderWay
<1> QED
  BY <1>1, CountFrame DEF CountInv

LEMMA CountStep == TypeOK /\ Work /\ CountInv /\ [Next]_vars => CountInv'
<1> SUFFICES ASSUME TypeOK, Work, CountInv, [Next]_vars PROVE CountInv'
  OBVIOUS
<1>1. ASSUME NEW a \in Actors, Runs(a) PROVE CountInv'
  <2>1. UNCHANGED <<stage, left, past, history, tries, slips>>
    BY <1>1 DEF Runs, Stop, Mark, Clear, Write, WriteShared, WriteMoved, Start, Spawn, files, pass, ghosts
  <2> QED
    BY <2>1, CountKept
<1>2. ASSUME NEW p \in Passes, Begin(p) \/ Read(p) \/ Look(p) \/ Save(p) \/ Hang(p)
      PROVE  CountInv'
  BY <1>2, CountBegin, CountRead, CountLook, CountEnds DEF CountInv
<1>3. CASE Request
  BY <1>3, CountKept DEF Request, files, pass
<1>4. ASSUME NEW c \in Components, Crash(c) PROVE CountInv'
  BY <1>4, CountKept DEF Crash, files, ghosts
<1>5. CASE Hour
  BY <1>5, CountHour
<1>6. CASE UNCHANGED vars
  BY <1>6, CountKept DEF vars, files, pass, ghosts
<1> QED
  BY <1>1, <1>2, <1>3, <1>4, <1>5, <1>6, OneActor DEF Next, Supervise

\* A crash loop ends: within an hour supervision tries a component MAX_RESTARTS
\* times, and once more at most for each pass that died of its restart and for each
\* that began beside another of its host; however many overlap, and in whatever
\* order they read and replace the state file.
THEOREM GivesUp == Spec => []CrashLoopEnds
<1>1. CountInv => CrashLoopEnds
  BY DEF CountInv, CountOf, CrashLoopEnds
<1> QED
  BY <1>1, CountInit, CountStep, WorkInit, WorkStep, TypeCorrect, PTL DEF Spec
=============================================================================
