-------------------------- MODULE IdsTopologyProofs --------------------------
(***************************************************************************)
(* Proofs about IdsTopology for every number of adapters and of scripts    *)
(* cut short, and for every order in which the scripts are run.            *)
(***************************************************************************)
EXTENDS IdsTopology, SequenceTheorems, TLAPS

-----------------------------------------------------------------------------
(* The calls and their sequences.                                          *)

\* Every call a script makes is one of these.
Calls ==
  {<<what, n>> : what \in {"create", "delete", "start", "stop"}, n \in Tap}
  \cup {<<what, l>> : what \in {"forget", "restore"}, l \in Leaves}
  \cup {<<"unlink", ls>> : ls \in SUBSET Links}
  \cup {<<"link", k>> : k \in Links}
  \cup {<<"nat", IDS>>}

\* Those that leave the IDS where it is: the calls of 12, 13 and 14.
Sparing == Calls \ {<<"delete", IDS>>}

LEMMA CallFacts ==
  /\ \A n \in Tap : {<<"create", n>>, <<"delete", n>>, <<"start", n>>, <<"stop", n>>}
                      \subseteq Calls
  /\ \A l \in Leaves : {<<"forget", l>>, <<"restore", l>>} \subseteq Calls
  /\ \A ls \in SUBSET Links : <<"unlink", ls>> \in Calls
  /\ \A k \in Links : <<"link", k>> \in Calls
  /\ <<"nat", IDS>> \in Calls
BY DEF Calls

\* What a call is about.
LEMMA OfFacts ==
  ASSUME NEW c \in Calls
  PROVE  /\ c[1] \in {"create", "delete", "start", "stop"} => c[2] \in Tap
         /\ c[1] \in {"forget", "restore"} => c[2] \in Leaves
         /\ c[1] = "unlink" => c[2] \subseteq Links
         /\ c[1] = "link" => c[2] \in Links
BY DEF Calls

LEMMA NameFacts ==
  /\ Leaves = {"LEAF-1", "LEAF-2"} /\ "LEAF-1" \in Leaves /\ "LEAF-2" \in Leaves
  /\ Second = {"Hub2", "Hub2b"} /\ Hubs = {"Hub1", "Hub2", "Hub2b"}
  /\ Tap = {"Hub1", "Hub2", "Hub2b", "IDS"} /\ IDS = "IDS"
  /\ \A h \in Hubs : LeafOf(h) \in Leaves
BY DEF Leaves, LeafOf, Second, Hubs, Tap, IDS

LEMMA LinkFacts ==
  /\ \A l \in Leaves : {Direct(l), LeafIds(l)} \subseteq Links
  /\ \A h \in Hubs : {SpineHub(h), HubLeaf(h), HubIds(h)} \subseteq Links
  /\ \A a \in 0..(Adapters - 1) : Nat1Ids(a) \in Links
BY DEF Links, Direct, SpineHub, HubLeaf, HubIds, LeafIds, Nat1Ids

LEMMA One ==
  ASSUME NEW S, NEW c \in S, NEW s \in Seq(S)
  PROVE  /\ <<c>> \in Seq(S) /\ <<c>> \o s \in Seq(S) /\ <<c>> \o s # <<>>
         /\ Head(<<c>> \o s) = c /\ Tail(<<c>> \o s) = s
<1>1. <<c>> \in Seq(S) /\ Len(<<c>>) = 1 /\ <<c>>[1] = c /\ Len(s) \in Nat
  BY LenProperties
<1> DEFINE t == <<c>> \o s
<1>2. /\ t \in Seq(S) /\ Len(t) = 1 + Len(s)
      /\ \A i \in 1..(1 + Len(s)) : t[i] = IF i <= 1 THEN <<c>>[i] ELSE s[i - 1]
  <2> DEFINE u == <<c>>
  <2>1. u \in Seq(S) /\ Len(u) = 1
    BY <1>1
  <2> HIDE DEF u
  <2>2. /\ u \o s \in Seq(S) /\ Len(u \o s) = Len(u) + Len(s)
        /\ \A i \in 1..(Len(u) + Len(s)) : (u \o s)[i] = IF i <= Len(u) THEN u[i] ELSE s[i - Len(u)]
    BY <2>1, ConcatProperties
  <2> QED
    BY <2>1, <2>2 DEF u
<1> HIDE DEF t
<1>3. t # <<>>
  BY <1>1, <1>2, EmptySeq
<1>4. t[1] = c
  <2>1. 1 \in 1..(1 + Len(s)) /\ 1 <= 1
    BY <1>1
  <2> QED
    BY <1>1, <1>2, <2>1
<1>5. Head(t) = c
  BY <1>2, <1>4
<1>6. /\ Tail(t) \in Seq(S) /\ Len(Tail(t)) = Len(s)
      /\ \A i \in 1..Len(Tail(t)) : Tail(t)[i] = t[i + 1]
  BY <1>1, <1>2, <1>3, HeadTailProperties
<1>7. \A i \in 1..Len(s) : Tail(t)[i] = s[i]
  <2> SUFFICES ASSUME NEW i \in 1..Len(s) PROVE Tail(t)[i] = s[i]
    OBVIOUS
  <2>1. i + 1 \in 1..(1 + Len(s)) /\ ~(i + 1 <= 1) /\ (i + 1) - 1 = i
    BY <1>1
  <2> QED
    BY <1>2, <1>6, <2>1
<1>8. Tail(t) = s
  BY <1>6, <1>7, SeqEqual
<1> QED
  BY <1>1, <1>2, <1>3, <1>5, <1>8 DEF t

LEMMA Two ==
  ASSUME NEW S, NEW a \in S, NEW b \in S
  PROVE  <<a>> \o <<b>> = <<a, b>> /\ <<a, b>> \in Seq(S)
<1>1. <<a>> \in Seq(S) /\ <<b>> \in Seq(S) /\ <<a, b>> \in Seq(S)
  OBVIOUS
<1>2. <<a>> \o <<b>> = <<a, b>>
  <2> DEFINE u == <<a>>
             v == <<b>>
             w == <<a, b>>
  <2>1. /\ u \in Seq(S) /\ Len(u) = 1 /\ u[1] = a
        /\ v \in Seq(S) /\ Len(v) = 1 /\ v[1] = b
        /\ w \in Seq(S) /\ Len(w) = 2 /\ w[1] = a /\ w[2] = b
    OBVIOUS
  <2> HIDE DEF u, v, w
  <2>2. /\ u \o v \in Seq(S) /\ Len(u \o v) = 2
        /\ \A i \in 1..2 : (u \o v)[i] = IF i <= 1 THEN u[i] ELSE v[i - 1]
    <3>1. /\ u \o v \in Seq(S) /\ Len(u \o v) = Len(u) + Len(v)
          /\ \A i \in 1..(Len(u) + Len(v)) :
               (u \o v)[i] = IF i <= Len(u) THEN u[i] ELSE v[i - Len(u)]
      BY <2>1, ConcatProperties
    <3> QED
      BY <2>1, <3>1
  <2>3. \A i \in 1..2 : (u \o v)[i] = w[i]
    BY <2>1, <2>2
  <2>4. u \o v = w
    BY <2>1, <2>2, <2>3, SeqEqual
  <2> QED
    BY <2>4 DEF u, v, w
<1> QED
  BY <1>1, <1>2

-----------------------------------------------------------------------------
(* Types.                                                                  *)

Listed == todo \in Seq(Calls)

\* Between two scripts something may be said of the last one that ended.
Fresh == script # "none" => ended = <<"none", "done">>

Typed(calls) == calls \in Seq(Calls) /\ calls # <<>>

LEMMA Joined ==
  ASSUME NEW s \in Seq(Calls), NEW t \in Seq(Calls)
  PROVE  /\ s \o t \in Seq(Calls)
         /\ s # <<>> \/ t # <<>> => s \o t # <<>>
BY ConcatProperties, ConcatEqualIffEmpty

LEMMA Regrouped ==
  ASSUME NEW s \in Seq(Calls), NEW t \in Seq(Calls), NEW u \in Seq(Calls)
  PROVE  (s \o t) \o u = s \o (t \o u)
BY ConcatAssociative

\* The same of four and of five sequences, as predicates that the provers need
\* not look into.
Grouping(s, t, u) == (s \o t) \o u = s \o (t \o u)
GroupingFour(s, t, u, v) == ((s \o t) \o u) \o v = s \o (t \o (u \o v))
GroupingFive(s, t, u, v, w) ==
  (((s \o t) \o u) \o v) \o w = s \o (t \o (u \o (v \o w)))

LEMMA Grouped ==
  /\ \A s, t, u \in Seq(Calls) : s \o t \in Seq(Calls) /\ Grouping(s, t, u)
  /\ \A s, t, u, v \in Seq(Calls) : GroupingFour(s, t, u, v)
  /\ \A s, t, u, v, w \in Seq(Calls) : GroupingFive(s, t, u, v, w)
<1>1. ASSUME NEW s \in Seq(Calls), NEW t \in Seq(Calls), NEW u \in Seq(Calls)
      PROVE  s \o t \in Seq(Calls) /\ Grouping(s, t, u)
  BY Joined, Regrouped DEF Grouping
<1>2. ASSUME NEW s \in Seq(Calls), NEW t \in Seq(Calls), NEW u \in Seq(Calls),
             NEW v \in Seq(Calls)
      PROVE  GroupingFour(s, t, u, v)
  <2>1. s \o t \in Seq(Calls) /\ u \o v \in Seq(Calls)
    BY Joined
  <2>2. Grouping(s \o t, u, v) /\ Grouping(s, t, u \o v)
    BY <1>1, <2>1
  <2> QED
    BY <2>2 DEF Grouping, GroupingFour
<1>3. ASSUME NEW s \in Seq(Calls), NEW t \in Seq(Calls), NEW u \in Seq(Calls),
             NEW v \in Seq(Calls), NEW w \in Seq(Calls)
      PROVE  GroupingFive(s, t, u, v, w)
  <2>1. s \o t \in Seq(Calls) /\ v \o w \in Seq(Calls)
    BY Joined
  <2>2. u \o (v \o w) \in Seq(Calls)
    BY <2>1, Joined
  <2>3. GroupingFour(s \o t, u, v, w) /\ Grouping(s, t, u \o (v \o w))
    BY <1>1, <1>2, <2>1, <2>2
  <2> QED
    BY <2>3 DEF Grouping, GroupingFour, GroupingFive
<1> QED
  BY <1>1, <1>2, <1>3

LEMMA IfFoundTyped ==
  ASSUME NEW S, NEW n, NEW hidden, NEW calls \in Seq(S)
  PROVE  IfFound(n, hidden, calls) \in Seq(S)
BY DEF IfFound

LEMMA DeployTyped ==
  ASSUME NEW second \in Second
  PROVE  Typed(DeployCalls(second))
<1> DEFINE A == <<<<"create", "Hub1">>, <<"create", second>>, <<"create", IDS>>,
                  <<"forget", "LEAF-1">>, <<"forget", "LEAF-2">>>>
           C == <<<<"start", "Hub1">>, <<"start", second>>, <<"start", IDS>>>>
<1>1. A \in Seq(Calls) /\ A # <<>> /\ C \in Seq(Calls)
  <2>1. second \in Tap /\ "Hub1" \in Tap /\ IDS \in Tap
    BY NameFacts
  <2>2. /\ {<<"create", "Hub1">>, <<"create", second>>, <<"create", IDS>>} \subseteq Calls
        /\ {<<"forget", "LEAF-1">>, <<"forget", "LEAF-2">>} \subseteq Calls
        /\ {<<"start", "Hub1">>, <<"start", second>>, <<"start", IDS>>} \subseteq Calls
    BY <2>1, CallFacts, NameFacts
  <2> QED
    BY <2>2
<1>2. ASSUME NEW h \in Hubs PROVE HubCalls(h) \in Seq(Calls)
  <2>1. {<<"link", SpineHub(h)>>, <<"link", HubLeaf(h)>>, <<"link", HubIds(h)>>} \subseteq Calls
    BY CallFacts, LinkFacts
  <2> QED
    BY <2>1 DEF HubCalls
<1> DEFINE X == HubCalls("Hub1")
           Y == HubCalls(second)
<1>3. X \in Seq(Calls) /\ Y \in Seq(Calls)
  BY <1>2, NameFacts
<1>4. DeployCalls(second) = ((A \o X) \o Y) \o C
  BY DEF DeployCalls
<1> HIDE DEF A, X, Y, C
<1>5. A \o X \in Seq(Calls) /\ A \o X # <<>>
  BY <1>1, <1>3, Joined
<1>6. (A \o X) \o Y \in Seq(Calls) /\ (A \o X) \o Y # <<>>
  BY <1>3, <1>5, Joined
<1>7. ((A \o X) \o Y) \o C \in Seq(Calls) /\ ((A \o X) \o Y) \o C # <<>>
  BY <1>1, <1>6, Joined
<1> QED
  BY <1>4, <1>7 DEF Typed

LEMMA TouchingFacts ==
  ASSUME NEW ls \in SUBSET Links, NEW ns
  PROVE  Touching(ls, ns) \in SUBSET Links
BY DEF Touching

LEMMA RollbackTyped ==
  ASSUME links \subseteq Links, NEW hidden
  PROVE  Typed(RollbackCalls(hidden))
<1> DEFINE On(n, what) == IfFound(n, hidden, <<<<what, n>>>>)
           Each(what) == On("Hub1", what) \o On("Hub2", what) \o On("Hub2b", what)
                         \o On(IDS, what)
           U == <<<<"unlink", Touching(links, Tap \ hidden)>>>>
           F(l) == <<<<"link", Direct(l)>>>>
           B == Both([l \in Leaves |-> F(l)])
<1>1. ASSUME NEW what \in {"stop", "delete"}, NEW n \in Tap PROVE On(n, what) \in Seq(Calls)
  <2>1. <<what, n>> \in Calls
    BY CallFacts
  <2> HIDE DEF Calls
  <2>2. <<<<what, n>>>> \in Seq(Calls)
    BY <2>1
  <2> QED
    BY <2>2, IfFoundTyped
<1>2. U \in Seq(Calls) /\ U # <<>>
  <2>1. <<"unlink", Touching(links, Tap \ hidden)>> \in Calls
    BY CallFacts, TouchingFacts
  <2> HIDE DEF Calls
  <2> QED
    BY <2>1
<1>3. F("LEAF-1") \in Seq(Calls) /\ F("LEAF-2") \in Seq(Calls)
  <2>1. <<"link", Direct("LEAF-1")>> \in Calls /\ <<"link", Direct("LEAF-2")>> \in Calls
    BY CallFacts, LinkFacts, NameFacts
  <2> QED
    BY <2>1
<1>4. B = F("LEAF-1") \o F("LEAF-2")
  BY NameFacts DEF Both
<1>5. RollbackCalls(hidden) = Each("stop") \o U \o Each("delete") \o B
  BY DEF RollbackCalls
<1> HIDE DEF On, U, F, B
<1>6. ASSUME NEW what \in {"stop", "delete"} PROVE Each(what) \in Seq(Calls)
  <2>1. /\ On("Hub1", what) \in Seq(Calls) /\ On("Hub2", what) \in Seq(Calls)
        /\ On("Hub2b", what) \in Seq(Calls) /\ On(IDS, what) \in Seq(Calls)
    BY <1>1, NameFacts
  <2>2. On("Hub1", what) \o On("Hub2", what) \in Seq(Calls)
    BY <2>1, Joined
  <2>3. (On("Hub1", what) \o On("Hub2", what)) \o On("Hub2b", what) \in Seq(Calls)
    BY <2>1, <2>2, Joined
  <2> QED
    BY <2>1, <2>3, Joined
<1> HIDE DEF Each
<1>7. B \in Seq(Calls) /\ Each("stop") \in Seq(Calls) /\ Each("delete") \in Seq(Calls)
  BY <1>3, <1>4, <1>6, Joined
<1>8. Each("stop") \o U \in Seq(Calls) /\ Each("stop") \o U # <<>>
  BY <1>2, <1>7, Joined
<1>9. (Each("stop") \o U) \o Each("delete") \in Seq(Calls)
      /\ (Each("stop") \o U) \o Each("delete") # <<>>
  BY <1>7, <1>8, Joined
<1>10. ((Each("stop") \o U) \o Each("delete")) \o B \in Seq(Calls)
       /\ ((Each("stop") \o U) \o Each("delete")) \o B # <<>>
  BY <1>7, <1>9, Joined
<1> QED
  BY <1>5, <1>10 DEF Typed

-----------------------------------------------------------------------------
(* What the scripts that are proved about have still to do.                *)

\* 12 once it has unlinked the tap: the hubs it found, then the direct links
\* and those of the IDS.
Restore1 == <<<<"restore", "LEAF-1">>, <<"restore", "LEAF-2">>,
              <<"link", LeafIds("LEAF-1")>>, <<"link", LeafIds("LEAF-2")>>, <<"start", IDS>>>>
Restore2 == <<<<"restore", "LEAF-2">>,
              <<"link", LeafIds("LEAF-1")>>, <<"link", LeafIds("LEAF-2")>>, <<"start", IDS>>>>
Wire1 == <<<<"link", LeafIds("LEAF-1")>>, <<"link", LeafIds("LEAF-2")>>, <<"start", IDS>>>>
Wire2 == <<<<"link", LeafIds("LEAF-2")>>, <<"start", IDS>>>>
Start == <<<<"start", IDS>>>>

Drop(h) == IfFound(h, {}, <<<<"stop", h>>, <<"delete", h>>>>)
DropHub2b == Drop("Hub2b") \o Restore1
DropHub2 == Drop("Hub2") \o DropHub2b
DropHubs == Drop("Hub1") \o DropHub2

LEMMA Lists ==
  /\ Restore1 \in Seq(Calls) /\ Head(Restore1) = <<"restore", "LEAF-1">>
  /\ Tail(Restore1) = Restore2 /\ Restore1 # <<>>
  /\ Restore2 \in Seq(Calls) /\ Head(Restore2) = <<"restore", "LEAF-2">>
  /\ Tail(Restore2) = Wire1 /\ Restore2 # <<>>
  /\ Wire1 \in Seq(Calls) /\ Head(Wire1) = <<"link", LeafIds("LEAF-1")>>
  /\ Tail(Wire1) = Wire2 /\ Wire1 # <<>>
  /\ Wire2 \in Seq(Calls) /\ Head(Wire2) = <<"link", LeafIds("LEAF-2")>>
  /\ Tail(Wire2) = Start /\ Wire2 # <<>>
  /\ Start \in Seq(Calls) /\ Head(Start) = <<"start", IDS>> /\ Tail(Start) = <<>>
  /\ Start # <<>>
<1> DEFINE a == <<"restore", "LEAF-1">>
           b == <<"restore", "LEAF-2">>
           c == <<"link", LeafIds("LEAF-1")>>
           d == <<"link", LeafIds("LEAF-2")>>
           e == <<"start", IDS>>
<1>1. a \in Calls /\ b \in Calls /\ c \in Calls /\ d \in Calls /\ e \in Calls
  BY CallFacts, LinkFacts, NameFacts
<1>2. /\ Restore1 = <<a, b, c, d, e>> /\ Restore2 = <<b, c, d, e>> /\ Wire1 = <<c, d, e>>
      /\ Wire2 = <<d, e>> /\ Start = <<e>>
  BY DEF Restore1, Restore2, Wire1, Wire2, Start
<1> HIDE DEF a, b, c, d, e
<1>3. Restore1 \in Seq(Calls) /\ Head(Restore1) = a /\ Tail(Restore1) = Restore2 /\ Restore1 # <<>>
  BY <1>1, <1>2
<1>4. Restore2 \in Seq(Calls) /\ Head(Restore2) = b /\ Tail(Restore2) = Wire1 /\ Restore2 # <<>>
  BY <1>1, <1>2
<1>5. Wire1 \in Seq(Calls) /\ Head(Wire1) = c /\ Tail(Wire1) = Wire2 /\ Wire1 # <<>>
  BY <1>1, <1>2
<1>6. Wire2 \in Seq(Calls) /\ Head(Wire2) = d /\ Tail(Wire2) = Start /\ Wire2 # <<>>
  BY <1>1, <1>2
<1>7. Start \in Seq(Calls) /\ Head(Start) = e /\ Tail(Start) = <<>> /\ Start # <<>>
  BY <1>1, <1>2
<1> QED
  BY <1>3, <1>4, <1>5, <1>6, <1>7 DEF a, b, c, d, e

LEMMA DropFacts ==
  ASSUME NEW h \in Hubs
  PROVE  /\ Drop(h) \in Seq(Calls)
         /\ ~Present(h) => Drop(h) = <<>>
         /\ <<"stop", h>> \in Calls /\ <<"delete", h>> \in Calls
         /\ \A s \in Seq(Calls) :
              Drop(h) \o s = IF Present(h) THEN <<<<"stop", h>>>> \o (<<<<"delete", h>>>> \o s)
                             ELSE s
<1>1. <<"stop", h>> \in Calls /\ <<"delete", h>> \in Calls
  BY CallFacts, NameFacts
<1> DEFINE a == <<"stop", h>>
           b == <<"delete", h>>
<1>2. Drop(h) = IF Present(h) THEN <<a, b>> ELSE <<>>
  BY DEF Drop, IfFound
<1>3. a \in Calls /\ b \in Calls
  BY <1>1
<1> HIDE DEF a, b
<1>4. Drop(h) \in Seq(Calls)
  BY <1>2, <1>3
<1>5. ASSUME NEW s \in Seq(Calls)
      PROVE  Drop(h) \o s = IF Present(h) THEN <<a>> \o (<<b>> \o s) ELSE s
  <2>1. <<a, b>> \o s = <<a>> \o (<<b>> \o s)
    <3> DEFINE u == <<a>>
               v == <<b>>
               w == <<a, b>>
    <3>1. u \o v = w /\ u \in Seq(Calls) /\ v \in Seq(Calls)
      BY <1>3, Two
    <3> HIDE DEF u, v, w
    <3>2. (u \o v) \o s = u \o (v \o s)
      BY <3>1, Regrouped, Zenon
    <3>3. w \o s = u \o (v \o s)
      BY <3>1, <3>2
    <3> QED
      BY <3>3 DEF u, v, w
  <2>2. <<>> \o s = s
    BY ConcatEmptySeq
  <2> QED
    BY <1>2, <2>1, <2>2
<1> QED
  BY <1>1, <1>2, <1>4, <1>5 DEF a, b

LEMMA DropTyped ==
  /\ DropHub2b \in Seq(Calls) /\ DropHub2 \in Seq(Calls) /\ DropHubs \in Seq(Calls)
  /\ DropHub2b # <<>> /\ DropHub2 # <<>> /\ DropHubs # <<>>
<1>1. /\ Drop("Hub1") \in Seq(Calls) /\ Drop("Hub2") \in Seq(Calls)
      /\ Drop("Hub2b") \in Seq(Calls)
  BY DropFacts, NameFacts
<1>2. DropHub2b \in Seq(Calls) /\ DropHub2b # <<>>
  BY <1>1, Joined, Lists DEF DropHub2b
<1>3. DropHub2 \in Seq(Calls) /\ DropHub2 # <<>>
  BY <1>1, <1>2, Joined DEF DropHub2
<1> QED
  BY <1>1, <1>2, <1>3, Joined DEF DropHubs

Untap == <<"unlink", Touching(links, Tap)>>

LEMMA RefactorList ==
  ASSUME links \subseteq Links
  PROVE  RefactorCalls({}) = <<Untap>> \o DropHubs /\ Untap \in Calls
<1> DEFINE U == <<Untap>>
           X == Drop("Hub1")
           Y == Drop("Hub2")
           Z == Drop("Hub2b")
           r == <<"restore", "LEAF-1">>
           q == <<"restore", "LEAF-2">>
           l == <<"link", LeafIds("LEAF-1")>>
           m == <<"link", LeafIds("LEAF-2")>>
           e == <<"start", IDS>>
<1>1. Untap \in Calls
  BY CallFacts, TouchingFacts DEF Untap
<1>2. r \in Calls /\ q \in Calls /\ l \in Calls /\ m \in Calls /\ e \in Calls
  BY CallFacts, LinkFacts, NameFacts
<1>3. X \in Seq(Calls) /\ Y \in Seq(Calls) /\ Z \in Seq(Calls)
  BY DropFacts, NameFacts
<1>4. RefactorCalls({}) = U \o X \o Y \o Z \o (<<r>> \o <<q>>) \o (<<l>> \o <<m>>) \o <<e>>
  <2>1. Tap \ {} = Tap
    OBVIOUS
  <2> QED
    BY <2>1, NameFacts DEF RefactorCalls, Both, Drop, Untap
<1>5. Restore1 = <<r, q, l, m, e>>
  BY DEF Restore1
<1> HIDE DEF X, Y, Z, r, q, l, m, e
<1>6. U \in Seq(Calls) /\ <<e>> \in Seq(Calls)
  BY <1>1, <1>2
<1>7. <<r>> \o <<q>> = <<r, q>> /\ <<r, q>> \in Seq(Calls)
      /\ <<l>> \o <<m>> = <<l, m>> /\ <<l, m>> \in Seq(Calls)
  BY <1>2, Two
<1>8. <<r, q>> \o (<<l, m>> \o <<e>>) = Restore1 /\ <<l, m>> \o <<e>> \in Seq(Calls)
  <2> DEFINE s == <<r, q>>
             t == <<l, m>>
             u == <<e>>
             w == <<r, q, l, m, e>>
  <2>1. /\ s \in Seq(Calls) /\ Len(s) = 2 /\ s[1] = r /\ s[2] = q
        /\ t \in Seq(Calls) /\ Len(t) = 2 /\ t[1] = l /\ t[2] = m
        /\ u \in Seq(Calls) /\ Len(u) = 1 /\ u[1] = e
    BY <1>2
  <2>2. /\ w \in Seq(Calls) /\ Len(w) = 5
        /\ w[1] = r /\ w[2] = q /\ w[3] = l /\ w[4] = m /\ w[5] = e
    BY <1>2
  <2> HIDE DEF s, t, u, w
  <2>3. /\ t \o u \in Seq(Calls) /\ Len(t \o u) = 3
        /\ \A i \in 1..3 : (t \o u)[i] = IF i <= 2 THEN t[i] ELSE u[i - 2]
    <3>1. /\ t \o u \in Seq(Calls) /\ Len(t \o u) = Len(t) + Len(u)
          /\ \A i \in 1..(Len(t) + Len(u)) :
               (t \o u)[i] = IF i <= Len(t) THEN t[i] ELSE u[i - Len(t)]
      BY <2>1, ConcatProperties
    <3> QED
      BY <2>1, <3>1
  <2> DEFINE v == t \o u
  <2>4. v \in Seq(Calls) /\ Len(v) = 3 /\ v[1] = l /\ v[2] = m /\ v[3] = e
    BY <2>1, <2>3
  <2> HIDE DEF v
  <2>5. /\ s \o v \in Seq(Calls) /\ Len(s \o v) = 5
        /\ \A i \in 1..5 : (s \o v)[i] = IF i <= 2 THEN s[i] ELSE v[i - 2]
    <3>1. /\ s \o v \in Seq(Calls) /\ Len(s \o v) = Len(s) + Len(v)
          /\ \A i \in 1..(Len(s) + Len(v)) :
               (s \o v)[i] = IF i <= Len(s) THEN s[i] ELSE v[i - Len(s)]
      BY <2>1, <2>4, ConcatProperties
    <3> QED
      BY <2>1, <2>4, <3>1
  <2>6. /\ (s \o v)[1] = w[1] /\ (s \o v)[2] = w[2] /\ (s \o v)[3] = w[3]
        /\ (s \o v)[4] = w[4] /\ (s \o v)[5] = w[5]
    BY <2>1, <2>2, <2>4, <2>5
  <2>7. \A i \in 1..5 : (s \o v)[i] = w[i]
    <3>1. \A i \in 1..5 : i = 1 \/ i = 2 \/ i = 3 \/ i = 4 \/ i = 5
      OBVIOUS
    <3> QED
      BY <2>6, <3>1
  <2>8. s \o v = w
    BY <2>2, <2>5, <2>7, SeqEqual
  <2> QED
    BY <1>5, <2>3, <2>8 DEF s, t, u, v, w
<1> DEFINE rq == <<r, q>>
           lm == <<l, m>>
           f == <<e>>
<1>9. RefactorCalls({}) = (((((U \o X) \o Y) \o Z) \o rq) \o lm) \o f
  BY <1>4, <1>7
<1>10. rq \in Seq(Calls) /\ lm \in Seq(Calls) /\ f \in Seq(Calls)
       /\ rq \o (lm \o f) = Restore1 /\ lm \o f \in Seq(Calls) /\ Restore1 \in Seq(Calls)
  BY <1>6, <1>7, <1>8, Lists
<1> HIDE DEF rq, lm, f, U
<1> DEFINE P == ((U \o X) \o Y) \o Z
<1>11. P \in Seq(Calls)
  <2>1. U \o X \in Seq(Calls)
    BY <1>3, <1>6, Joined
  <2>2. (U \o X) \o Y \in Seq(Calls)
    BY <1>3, <2>1, Joined
  <2> QED
    BY <1>3, <2>2, Joined
<1>12. P \o Restore1 = U \o (X \o (Y \o (Z \o Restore1)))
  <2>1. U \in Seq(Calls) /\ Restore1 \in Seq(Calls)
    BY <1>6, <1>10
  <2>2. GroupingFive(U, X, Y, Z, Restore1)
    BY <1>3, <2>1, Grouped
  <2> QED
    BY <2>2 DEF GroupingFive
<1>13. RefactorCalls({}) = ((P \o rq) \o lm) \o f
  BY <1>9
<1> HIDE DEF P
<1>14. ((P \o rq) \o lm) \o f = P \o (rq \o (lm \o f))
  <2>1. GroupingFour(P, rq, lm, f)
    BY <1>10, <1>11, Grouped
  <2> QED
    BY <2>1 DEF GroupingFour
<1>15. RefactorCalls({}) = U \o (X \o (Y \o (Z \o Restore1)))
  BY <1>10, <1>12, <1>13, <1>14, Zenon
<1> QED
  BY <1>1, <1>15 DEF U, X, Y, Z, DropHubs, DropHub2, DropHub2b

\* 13, when it found the link of LEAF-1, and 14.
Fix2 == <<<<"unlink", {LeafIds("LEAF-1")}>>, <<"link", LeafIds("LEAF-1")>>, <<"start", IDS>>>>
Fix3 == <<<<"link", LeafIds("LEAF-1")>>, <<"start", IDS>>>>
Web2 == <<<<"nat", IDS>>, <<"start", IDS>>>>

LEMMA FixLists ==
  /\ FixCalls \in Seq(Calls) /\ Head(FixCalls) = <<"stop", IDS>> /\ Tail(FixCalls) = Fix2
  /\ FixCalls # <<>>
  /\ Fix2 \in Seq(Calls) /\ Head(Fix2) = <<"unlink", {LeafIds("LEAF-1")}>>
  /\ Tail(Fix2) = Fix3 /\ Fix2 # <<>>
  /\ Fix3 \in Seq(Calls) /\ Head(Fix3) = <<"link", LeafIds("LEAF-1")>>
  /\ Tail(Fix3) = Start /\ Fix3 # <<>>
<1> DEFINE a == <<"stop", IDS>>
           b == <<"unlink", {LeafIds("LEAF-1")}>>
           c == <<"link", LeafIds("LEAF-1")>>
           d == <<"start", IDS>>
<1>1. a \in Calls /\ b \in Calls /\ c \in Calls /\ d \in Calls
  BY CallFacts, LinkFacts, NameFacts
<1>2. /\ FixCalls = <<a, b, c, d>> /\ Fix2 = <<b, c, d>> /\ Fix3 = <<c, d>>
      /\ Start = <<d>>
  BY DEF FixCalls, Fix2, Fix3, Start
<1> HIDE DEF a, b, c, d
<1>3. FixCalls \in Seq(Calls) /\ Head(FixCalls) = a /\ Tail(FixCalls) = Fix2 /\ FixCalls # <<>>
  BY <1>1, <1>2
<1>4. Fix2 \in Seq(Calls) /\ Head(Fix2) = b /\ Tail(Fix2) = Fix3 /\ Fix2 # <<>>
  BY <1>1, <1>2
<1>5. Fix3 \in Seq(Calls) /\ Head(Fix3) = c /\ Tail(Fix3) = Start /\ Fix3 # <<>>
  BY <1>1, <1>2
<1> QED
  BY <1>3, <1>4, <1>5 DEF a, b, c, d

LEMMA WebLists ==
  /\ WebApiCalls \in Seq(Calls) /\ Head(WebApiCalls) = <<"stop", IDS>>
  /\ Tail(WebApiCalls) = Web2 /\ WebApiCalls # <<>>
  /\ Web2 \in Seq(Calls) /\ Head(Web2) = <<"nat", IDS>> /\ Tail(Web2) = Start /\ Web2 # <<>>
<1> DEFINE a == <<"stop", IDS>>
           b == <<"nat", IDS>>
           d == <<"start", IDS>>
<1>1. a \in Calls /\ b \in Calls /\ d \in Calls
  BY CallFacts, NameFacts
<1>2. WebApiCalls = <<a, b, d>> /\ Web2 = <<b, d>> /\ Start = <<d>>
  BY DEF WebApiCalls, Web2, Start
<1> HIDE DEF a, b, d
<1>3. /\ WebApiCalls \in Seq(Calls) /\ Head(WebApiCalls) = a /\ Tail(WebApiCalls) = Web2
      /\ WebApiCalls # <<>>
  BY <1>1, <1>2
<1>4. Web2 \in Seq(Calls) /\ Head(Web2) = b /\ Tail(Web2) = Start /\ Web2 # <<>>
  BY <1>1, <1>2
<1> QED
  BY <1>3, <1>4 DEF a, b, d

LEMMA RelinkLists ==
  /\ RelinkCalls \in Seq(Calls) /\ Head(RelinkCalls) = <<"link", LeafIds("LEAF-1")>>
  /\ Tail(RelinkCalls) = <<>> /\ RelinkCalls # <<>>
<1> DEFINE c == <<"link", LeafIds("LEAF-1")>>
<1>1. c \in Calls
  BY CallFacts, LinkFacts, NameFacts
<1>2. RelinkCalls = <<c>>
  BY DEF RelinkCalls
<1> HIDE DEF c
<1> QED
  BY <1>1, <1>2 DEF c

\* Tails keep what a sequence is made of.
LEMMA SparingFacts ==
  /\ \A s \in Seq(Sparing) : s \in Seq(Calls)
  /\ \A c \in Calls : c[1] # "delete" \/ c[2] # IDS => c \in Sparing
  /\ \A c \in Sparing : c[1] = "delete" => c[2] # IDS
<1>1. Sparing \subseteq Calls
  BY DEF Sparing
<1>2. ASSUME NEW c \in Calls, c[1] # "delete" \/ c[2] # IDS PROVE c \in Sparing
  BY <1>2 DEF Sparing
<1>3. ASSUME NEW c \in Sparing, c[1] = "delete" PROVE c[2] # IDS
  BY <1>3 DEF Sparing, Calls
<1> QED
  BY <1>1, <1>2, <1>3

LEMMA SparingLists ==
  /\ FixCalls \in Seq(Sparing) /\ RelinkCalls \in Seq(Sparing) /\ WebApiCalls \in Seq(Sparing)
<1>1. /\ <<"stop", IDS>> \in Sparing /\ <<"unlink", {LeafIds("LEAF-1")}>> \in Sparing
      /\ <<"link", LeafIds("LEAF-1")>> \in Sparing /\ <<"start", IDS>> \in Sparing
      /\ <<"nat", IDS>> \in Sparing
  BY CallFacts, LinkFacts, NameFacts, SparingFacts
<1> QED
  BY <1>1 DEF FixCalls, RelinkCalls, WebApiCalls

\* 12 deletes hubs only, whichever it finds.
LEMMA RefactorTyped ==
  ASSUME links \subseteq Links, NEW hidden
  PROVE  RefactorCalls(hidden) \in Seq(Sparing) /\ Typed(RefactorCalls(hidden))
<1> DEFINE Off(h) == IfFound(h, hidden, <<<<"stop", h>>, <<"delete", h>>>>)
           U == <<<<"unlink", Touching(links, Tap \ hidden)>>>>
           R == <<<<"restore", "LEAF-1">>>> \o <<<<"restore", "LEAF-2">>>>
           L == <<<<"link", LeafIds("LEAF-1")>>>> \o <<<<"link", LeafIds("LEAF-2")>>>>
           E == <<<<"start", IDS>>>>
<1>1. ASSUME NEW h \in Hubs PROVE Off(h) \in Seq(Sparing)
  <2>1. <<"stop", h>> \in Sparing /\ <<"delete", h>> \in Sparing
    BY CallFacts, NameFacts, SparingFacts
  <2>2. <<<<"stop", h>>, <<"delete", h>>>> \in Seq(Sparing)
    BY <2>1
  <2> QED
    BY <2>2, IfFoundTyped
<1>2. U \in Seq(Sparing) /\ U # <<>>
  <2>1. <<"unlink", Touching(links, Tap \ hidden)>> \in Sparing
    BY CallFacts, TouchingFacts, SparingFacts
  <2> QED
    BY <2>1
<1>3. R \in Seq(Sparing) /\ L \in Seq(Sparing) /\ E \in Seq(Sparing)
  <2> DEFINE r == <<"restore", "LEAF-1">>
             q == <<"restore", "LEAF-2">>
             l == <<"link", LeafIds("LEAF-1")>>
             m == <<"link", LeafIds("LEAF-2")>>
             e == <<"start", IDS>>
  <2>1. /\ r \in Sparing /\ q \in Sparing /\ l \in Sparing /\ m \in Sparing /\ e \in Sparing
    BY CallFacts, LinkFacts, NameFacts, SparingFacts
  <2>2. R = <<r>> \o <<q>> /\ L = <<l>> \o <<m>> /\ E = <<e>>
    OBVIOUS
  <2> HIDE DEF r, q, l, m, e, R, L, E
  <2> QED
    BY <2>1, <2>2, Two
<1>4. RefactorCalls(hidden) = U \o Off("Hub1") \o Off("Hub2") \o Off("Hub2b") \o R \o L \o E
  BY NameFacts DEF RefactorCalls, Both
<1>5. /\ Off("Hub1") \in Seq(Sparing) /\ Off("Hub2") \in Seq(Sparing)
      /\ Off("Hub2b") \in Seq(Sparing)
  BY <1>1, NameFacts
<1> DEFINE A == Off("Hub1")
           B == Off("Hub2")
           C == Off("Hub2b")
<1> HIDE DEF Off, U, R, L, E, A, B, C
<1>6. \A s, t \in Seq(Sparing) : /\ s \o t \in Seq(Sparing)
                                /\ s # <<>> => s \o t # <<>>
  BY ConcatProperties, ConcatEqualIffEmpty
<1>7. A \in Seq(Sparing) /\ B \in Seq(Sparing) /\ C \in Seq(Sparing)
      /\ RefactorCalls(hidden) = (((((U \o A) \o B) \o C) \o R) \o L) \o E
  BY <1>4, <1>5 DEF A, B, C
<1>8. U \o A \in Seq(Sparing) /\ U \o A # <<>>
  BY <1>2, <1>6, <1>7
<1>9. (U \o A) \o B \in Seq(Sparing) /\ (U \o A) \o B # <<>>
  BY <1>6, <1>7, <1>8
<1>10. ((U \o A) \o B) \o C \in Seq(Sparing) /\ ((U \o A) \o B) \o C # <<>>
  BY <1>6, <1>7, <1>9
<1>11. (((U \o A) \o B) \o C) \o R \in Seq(Sparing) /\ (((U \o A) \o B) \o C) \o R # <<>>
  BY <1>3, <1>6, <1>10
<1>12. /\ ((((U \o A) \o B) \o C) \o R) \o L \in Seq(Sparing)
       /\ ((((U \o A) \o B) \o C) \o R) \o L # <<>>
  BY <1>3, <1>6, <1>11
<1>13. RefactorCalls(hidden) \in Seq(Sparing) /\ RefactorCalls(hidden) # <<>>
  BY <1>3, <1>6, <1>7, <1>12
<1> QED
  BY <1>13, SparingFacts DEF Typed

-----------------------------------------------------------------------------
(* The invariant: how far a script has come and what it has made so.       *)

Directs == {Direct(l) : l \in Leaves}
Final == UNION {{Direct(l), LeafIds(l)} : l \in Leaves}
NoHubs == ~Present("Hub1") /\ ~Present("Hub2") /\ ~Present("Hub2b")
Bare == links \subseteq Directs

\* 12: nothing of the tap is linked once its links are deleted; a hub is there
\* until it is deleted; then each link is there once it is made.
Untapping == todo = <<Untap>> \o DropHubs
Dropping == Bare /\ todo = DropHubs
Deleting1 == Bare /\ Present("Hub1") /\ todo = <<<<"delete", "Hub1">>>> \o DropHub2
Deleting2 ==
  Bare /\ ~Present("Hub1") /\ Present("Hub2") /\ todo = <<<<"delete", "Hub2">>>> \o DropHub2b
Deleting3 ==
  /\ Bare /\ ~Present("Hub1") /\ ~Present("Hub2") /\ Present("Hub2b")
  /\ todo = <<<<"delete", "Hub2b">>>> \o Restore1
Restoring == Bare /\ NoHubs /\ Direct("LEAF-1") \in links /\ todo = Restore2
Wiring1 == links = Directs /\ NoHubs /\ todo = Wire1
Wiring2 == links = Directs \cup {LeafIds("LEAF-1")} /\ NoHubs /\ todo = Wire2
Starting == links = Final /\ NoHubs /\ todo = Start
AtRefactor == \/ Untapping \/ Dropping \/ Deleting1 \/ Deleting2 \/ Deleting3
              \/ Restoring \/ Wiring1 \/ Wiring2 \/ Starting
RefactorStage == script = "refactor" /\ "twin" \notin mishaps => AtRefactor

\* 13 and 14 change the links of an IDS that is stopped, or that their stop did
\* not reach and that runs on.
Held == "unstopped" \notin mishaps
Stance == nodes[IDS] = (IF Held THEN "stopped" ELSE "started")
Fixing1 == todo = FixCalls /\ Held /\ LeafIds("LEAF-1") \in links
Fixing2 == todo = Fix2 /\ Stance /\ LeafIds("LEAF-1") \in links
Fixing3 == todo = Fix3 /\ Stance /\ 0 \notin Plugged(links)
Fixing4 == todo = Start /\ Stance /\ 0 \in Plugged(links) \ carrier
AtFix == Fixing1 \/ Fixing2 \/ Fixing3 \/ Fixing4
FixStage == script = "fix" => AtFix
RelinkStage == script = "relink" => todo = RelinkCalls
AtWeb == \/ todo = WebApiCalls /\ Held
         \/ todo = Web2 /\ Stance
         \/ todo = Start /\ Stance
WebStage == script = "webapi" => AtWeb

Stages == RefactorStage /\ FixStage /\ RelinkStage /\ WebStage

\* No two links share a port.
Apart == \A j, k \in links : j # k => Ends(j) \cap Ends(k) = {}

\* 12, 13 and 14 find the IDS and leave it where it is.
Using == {"refactor", "fix", "relink", "webapi"}
Spared == script \in Using => Present(IDS) /\ todo \in Seq(Sparing)

Wired == TypeOK /\ Listed /\ Fresh /\ Apart /\ Spared /\ Stages /\ RefactorRestores /\ ColdPlugged

LEMMA LinkKinds ==
  ASSUME NEW k \in Links
  PROVE  \/ \E l \in Leaves : k = Direct(l) \/ k = LeafIds(l)
         \/ \E h \in Hubs : k = SpineHub(h) \/ k = HubLeaf(h) \/ k = HubIds(h)
         \/ \E a \in 0..(Adapters - 1) : k = Nat1Ids(a)
BY DEF Links, Direct, SpineHub, HubLeaf, HubIds, LeafIds, Nat1Ids

LEMMA EndsFacts ==
  /\ \A l \in Leaves :
       /\ Ends(Direct(l)) = {<<"SPINE", l>>, <<l, "uplink">>}
       /\ Ends(LeafIds(l)) = {<<l, "mirror">>, <<IDS, Adapter(l)>>}
  /\ \A h \in Hubs :
       /\ Ends(SpineHub(h)) = {<<"SPINE", LeafOf(h)>>, <<h, 0>>}
       /\ Ends(HubLeaf(h)) = {<<h, 1>>, <<LeafOf(h), "uplink">>}
       /\ Ends(HubIds(h)) = {<<h, 2>>, <<IDS, Adapter(LeafOf(h))>>}
  /\ \A a \in 0..(Adapters - 1) : Ends(Nat1Ids(a)) = {<<"NAT1", a>>, <<IDS, a>>}
BY DEF Ends, Direct, SpineHub, HubLeaf, HubIds, LeafIds, Nat1Ids

\* The links of the tap are all but the two direct ones.
LEMMA TapFacts ==
  ASSUME NEW ls \in SUBSET Links
  PROVE  Touching(ls, Tap) = ls \ Directs
<1>1. ASSUME NEW k \in Links
      PROVE  (\E e \in Ends(k) : e[1] \in Tap) <=> k \notin Directs
  <2>1. ASSUME NEW l \in Leaves, k = Direct(l)
        PROVE  k \in Directs /\ ~(\E e \in Ends(k) : e[1] \in Tap)
    <3>1. "SPINE" \notin Tap /\ l \notin Tap
      BY NameFacts
    <3>2. \A e \in Ends(k) : e[1] = "SPINE" \/ e[1] = l
      BY <2>1, EndsFacts
    <3> QED
      BY <2>1, <3>1, <3>2 DEF Directs
  <2>2. ASSUME NEW h \in Hubs, k = SpineHub(h) \/ k = HubLeaf(h) \/ k = HubIds(h)
        PROVE  k \notin Directs /\ \E e \in Ends(k) : e[1] \in Tap
    <3>1. h \in Tap
      BY NameFacts
    <3>2. \E x : <<h, x>> \in Ends(k)
      BY <2>2, EndsFacts
    <3>3. k \notin Directs
      BY <2>2 DEF Directs, Direct, SpineHub, HubLeaf, HubIds
    <3> QED
      BY <3>1, <3>2, <3>3
  <2>3. ASSUME NEW l \in Leaves, k = LeafIds(l)
        PROVE  k \notin Directs /\ \E e \in Ends(k) : e[1] \in Tap
    <3>1. IDS \in Tap /\ <<IDS, Adapter(l)>> \in Ends(k)
      BY <2>3, EndsFacts, NameFacts
    <3>2. k \notin Directs
      BY <2>3 DEF Directs, Direct, LeafIds
    <3> QED
      BY <3>1, <3>2
  <2>4. ASSUME NEW a \in 0..(Adapters - 1), k = Nat1Ids(a)
        PROVE  k \notin Directs /\ \E e \in Ends(k) : e[1] \in Tap
    <3>1. IDS \in Tap /\ <<IDS, a>> \in Ends(k)
      BY <2>4, EndsFacts, NameFacts
    <3>2. k \notin Directs
      BY <2>4 DEF Directs, Direct, Nat1Ids
    <3> QED
      BY <3>1, <3>2
  <2> QED
    BY <2>1, <2>2, <2>3, <2>4, LinkKinds
<1> QED
  BY <1>1 DEF Touching

LEMMA PluggedFacts ==
  /\ \A ls : Plugged(ls) \subseteq 0..(Adapters - 1)
  /\ \A ls, ms : ls \subseteq ms => Plugged(ls) \subseteq Plugged(ms)
  /\ \A ls : \A l \in Leaves : Plugged(ls \ {Direct(l)}) = Plugged(ls)
<1>1. ASSUME NEW ls, NEW ms, ls \subseteq ms PROVE Plugged(ls) \subseteq Plugged(ms)
  BY <1>1 DEF Plugged
<1>2. ASSUME NEW ls, NEW l \in Leaves PROVE Plugged(ls \ {Direct(l)}) = Plugged(ls)
  <2>1. \A a : <<IDS, a>> \notin Ends(Direct(l))
    <3>1. IDS # "SPINE" /\ IDS # l
      BY NameFacts
    <3> QED
      BY <3>1, EndsFacts
  <2> QED
    BY <2>1 DEF Plugged
<1>3. \A ls : Plugged(ls) \subseteq 0..(Adapters - 1)
  BY DEF Plugged
<1> QED
  BY <1>1, <1>2, <1>3

LEMMA LowestFacts ==
  ASSUME FreeAdapters # {}
  PROVE  LowestFree \in FreeAdapters /\ \A b \in FreeAdapters : LowestFree <= b
<1>1. FreeAdapters \subseteq 0..4
  BY DEF FreeAdapters
<1>2. \E a \in FreeAdapters : \A b \in FreeAdapters : a <= b
  <2>1. CASE 0 \in FreeAdapters
    BY <1>1, <2>1
  <2>2. CASE 0 \notin FreeAdapters /\ 1 \in FreeAdapters
    BY <1>1, <2>2
  <2>3. CASE FreeAdapters \cap {0, 1} = {} /\ 2 \in FreeAdapters
    BY <1>1, <2>3
  <2>4. CASE FreeAdapters \cap {0, 1, 2} = {} /\ 3 \in FreeAdapters
    BY <1>1, <2>4
  <2>5. CASE FreeAdapters \cap {0, 1, 2, 3} = {}
    <3>1. \A b \in FreeAdapters : b = 4
      BY <1>1, <2>5
    <3> QED
      BY <3>1
  <2> QED
    BY <2>1, <2>2, <2>3, <2>4, <2>5
<1> QED
  BY <1>2 DEF LowestFree

\* The adapter that 14 plugs NAT1 into is free, and so is its port of NAT1: only
\* when no adapter is left is 14 refused.
LEMMA NatFacts ==
  ASSUME links \subseteq Links
  PROVE  /\ FreeAdapters = {} \/ LowestFree >= Adapters => Plugged(links) = 0..(Adapters - 1)
         /\ FreeAdapters # {} /\ ~(LowestFree >= Adapters) =>
              /\ Nat1Ids(LowestFree) \in Links
              /\ ~\E j \in links : Ends(j) \cap Ends(Nat1Ids(LowestFree)) # {}
<1>1. FreeAdapters = {a \in 0..4 : a \notin Plugged(links)}
  BY DEF FreeAdapters
<1>2. Adapters \in 2..5 /\ Plugged(links) \subseteq 0..(Adapters - 1)
  BY TopologyAssumption, PluggedFacts
<1>3. CASE FreeAdapters = {}
  <2>1. \A a \in 0..(Adapters - 1) : a \in 0..4
    BY <1>2
  <2>2. \A a \in 0..4 : a \in Plugged(links)
    BY <1>1, <1>3
  <2>3. Plugged(links) = 0..(Adapters - 1)
    BY <1>2, <2>1, <2>2
  <2> QED
    BY <1>3, <2>3
<1>4. CASE FreeAdapters # {} /\ LowestFree >= Adapters
  <2>1. LowestFree \in 0..4 /\ \A b \in FreeAdapters : LowestFree <= b
    BY <1>1, <1>4, LowestFacts
  <2>2. ASSUME NEW a \in 0..(Adapters - 1) PROVE a \in Plugged(links)
    <3>1. a \in 0..4 /\ ~(LowestFree <= a)
      BY <1>2, <1>4, <2>1
    <3>2. a \notin FreeAdapters
      BY <2>1, <3>1
    <3> QED
      BY <1>1, <3>1, <3>2
  <2> QED
    BY <1>2, <1>4, <2>2
<1>5. CASE FreeAdapters # {} /\ ~(LowestFree >= Adapters)
  <2>1. LowestFree \in 0..4 /\ LowestFree \notin Plugged(links)
    BY <1>1, <1>5, LowestFacts
  <2>2. LowestFree \in 0..(Adapters - 1)
    BY <1>2, <1>5, <2>1
  <2> DEFINE n == LowestFree
  <2>3. n \in 0..(Adapters - 1) /\ n \notin Plugged(links)
    BY <2>1, <2>2
  <2> HIDE DEF n
  <2>4. Ends(Nat1Ids(n)) = {<<"NAT1", n>>, <<IDS, n>>} /\ Nat1Ids(n) \in Links
    BY <2>3, EndsFacts, LinkFacts
  <2>5. ASSUME NEW j \in links PROVE <<IDS, n>> \notin Ends(j)
    BY <2>3 DEF Plugged
  <2>6. ASSUME NEW j \in links PROVE <<"NAT1", n>> \notin Ends(j)
    <3>1. j \in Links
      OBVIOUS
    <3>2. ASSUME NEW l \in Leaves, j = Direct(l) \/ j = LeafIds(l)
          PROVE  <<"NAT1", n>> \notin Ends(j)
      <4>1. l # "NAT1" /\ IDS # "NAT1"
        BY NameFacts
      <4> QED
        BY <3>2, <4>1, EndsFacts
    <3>3. ASSUME NEW h \in Hubs, j = SpineHub(h) \/ j = HubLeaf(h) \/ j = HubIds(h)
          PROVE  <<"NAT1", n>> \notin Ends(j)
      <4>1. h # "NAT1" /\ LeafOf(h) # "NAT1" /\ IDS # "NAT1"
        BY NameFacts
      <4> QED
        BY <3>3, <4>1, EndsFacts
    <3>4. ASSUME NEW a \in 0..(Adapters - 1), j = Nat1Ids(a)
          PROVE  <<"NAT1", n>> \notin Ends(j)
      <4>1. Ends(j) = {<<"NAT1", a>>, <<IDS, a>>}
        BY <3>4, EndsFacts
      <4>2. a # n
        BY <2>5, <4>1
      <4> QED
        BY <4>1, <4>2, NameFacts
    <3> QED
      BY <3>1, <3>2, <3>3, <3>4, LinkKinds
  <2>7. ~\E j \in links : Ends(j) \cap Ends(Nat1Ids(n)) # {}
    BY <2>4, <2>5, <2>6
  <2> QED
    BY <1>5, <2>4, <2>7 DEF n
<1> QED
  BY <1>3, <1>4, <1>5

\* The link of LEAF-1 and the IDS is the only one at its port of the leaf, and
\* takes adapter 0.
LEMMA MirrorFacts ==
  /\ LeafIds("LEAF-1") \in Links
  /\ \A ls \in SUBSET Links :
       /\ LeafIds("LEAF-1") \in ls => 0 \in Plugged(ls)
       /\ \A k \in Links : k \in ls /\ 0 \notin Plugged(ls) =>
                             Ends(k) \cap Ends(LeafIds("LEAF-1")) = {}
       /\ (\A j \in ls : Ends(j) \cap Ends(LeafIds("LEAF-1")) = {}) => 0 \notin Plugged(ls)
<1>1. /\ LeafIds("LEAF-1") \in Links
      /\ Ends(LeafIds("LEAF-1")) = {<<"LEAF-1", "mirror">>, <<IDS, 0>>}
  BY EndsFacts, LinkFacts, NameFacts DEF Adapter
<1>2. 0 \in 0..(Adapters - 1)
  BY TopologyAssumption
<1>3. ASSUME NEW k \in Links, <<"LEAF-1", "mirror">> \in Ends(k)
      PROVE  <<IDS, 0>> \in Ends(k)
  <2>1. ASSUME NEW l \in Leaves, k = Direct(l) PROVE FALSE
    <3>1. Ends(k) = {<<"SPINE", l>>, <<l, "uplink">>}
      BY <2>1, EndsFacts
    <3>2. <<"LEAF-1", "mirror">> # <<"SPINE", l>> /\ <<"LEAF-1", "mirror">> # <<l, "uplink">>
      OBVIOUS
    <3> QED
      BY <1>3, <3>1, <3>2
  <2>2. ASSUME NEW l \in Leaves, k = LeafIds(l) PROVE <<IDS, 0>> \in Ends(k)
    <3>1. Ends(k) = {<<l, "mirror">>, <<IDS, Adapter(l)>>} /\ IDS # "LEAF-1"
      BY <2>2, EndsFacts, NameFacts
    <3>2. l = "LEAF-1"
      BY <1>3, <3>1
    <3> QED
      BY <3>1, <3>2 DEF Adapter
  <2>3. ASSUME NEW h \in Hubs, k = SpineHub(h) \/ k = HubLeaf(h) \/ k = HubIds(h) PROVE FALSE
    <3>1. h # "LEAF-1" /\ IDS # "LEAF-1"
      BY NameFacts
    <3>2. \A e \in Ends(k) : e[1] \in {"SPINE", h, IDS} \/ e[2] = "uplink"
      BY <2>3, EndsFacts
    <3> QED
      BY <1>3, <3>1, <3>2
  <2>4. ASSUME NEW a \in 0..(Adapters - 1), k = Nat1Ids(a) PROVE FALSE
    <3>1. \A e \in Ends(k) : e[1] = "NAT1" \/ e[1] = IDS
      BY <2>4, EndsFacts
    <3> QED
      BY <1>3, <3>1, NameFacts
  <2> QED
    BY <2>1, <2>2, <2>3, <2>4, LinkKinds
<1>4. ASSUME NEW ls \in SUBSET Links, LeafIds("LEAF-1") \in ls PROVE 0 \in Plugged(ls)
  BY <1>1, <1>2, <1>4 DEF Plugged
<1>5. ASSUME NEW ls \in SUBSET Links, NEW k \in Links, k \in ls, 0 \notin Plugged(ls)
      PROVE  Ends(k) \cap Ends(LeafIds("LEAF-1")) = {}
  <2>1. <<IDS, 0>> \notin Ends(k)
    BY <1>2, <1>5 DEF Plugged
  <2> QED
    BY <1>1, <1>3, <2>1
<1>6. ASSUME NEW ls \in SUBSET Links,
             \A j \in ls : Ends(j) \cap Ends(LeafIds("LEAF-1")) = {}
      PROVE  0 \notin Plugged(ls)
  <2>1. \A j \in ls : <<IDS, 0>> \notin Ends(j)
    BY <1>1, <1>6
  <2> QED
    BY <2>1 DEF Plugged
<1> QED
  BY <1>1, <1>4, <1>5, <1>6

-----------------------------------------------------------------------------
(* What every call does to the bookkeeping and to the types.               *)

WireTypes ==
  /\ nodes \in [Tap -> {"absent", "stopped", "started"}]
  /\ links \subseteq Links /\ original \subseteq Leaves
  /\ carrier \subseteq Plugged(links)
  /\ mishaps \subseteq {"twin", "unstopped"}
Book ==
  /\ script \in Scripts \cup {"none"} /\ (script = "none") = (todo = <<>>)
  /\ ended \in (Scripts \cup {"none"}) \X {"done", "failed", "cut"}
  /\ cuts \in 0..MaxCuts
  /\ Listed /\ Fresh

\* A call leaves its script running, or is its last one.
Moved == \/ script' = script /\ ended' = ended
         \/ script' = "none" /\ ended' = <<script, "done">>
         \/ script' = "none" /\ ended' = <<script, "failed">>

\* It is taken off the list, or deletes one link of several.
Shrunk == \/ todo' = Tail(todo)
          \/ todo' = <<>> /\ script' = "none"
          \/ \E ls \in SUBSET Links : todo' = <<<<"unlink", ls>>>> \o Tail(todo)

\* It takes links away, or makes one on ports that are free.
Rewired == \/ links' \subseteq links
           \/ \E k \in Links : /\ links' = links \cup {k}
                               /\ \A j \in links : Ends(j) \cap Ends(k) = {}

\* Only the start of a script counts the second hubs.
SameTwin == ("twin" \in mishaps') <=> ("twin" \in mishaps)

CallGoal == Book' /\ WireTypes' /\ Moved /\ Shrunk /\ Rewired /\ SameTwin

LEMMA Running ==
  ASSUME Book, todo # <<>>
  PROVE  /\ script \in Scripts /\ script # "none" /\ ended = <<"none", "done">>
         /\ Head(todo) \in Calls /\ Tail(todo) \in Seq(Calls)
<1>1. script \in Scripts /\ script # "none" /\ todo \in Seq(Calls) /\ ended = <<"none", "done">>
  BY DEF Book, Listed, Fresh, Scripts
<1> QED
  BY <1>1, HeadTailProperties

LEMMA ThenFacts ==
  ASSUME Book, todo # <<>>, NEW rest \in Seq(Calls), Then(rest)
  PROVE  Book' /\ Moved /\ todo' = rest /\ (rest # <<>> => script' = script /\ ended' = ended)
         /\ (rest = <<>> => script' = "none" /\ ended' = <<script, "done">>)
<1>1. script \in Scripts /\ script # "none" /\ ended = <<"none", "done">>
  BY Running
<1>2. todo' = rest /\ cuts' = cuts
  BY DEF Then
<1>3. CASE rest = <<>>
  <2>1. script' = "none" /\ ended' = <<script, "done">>
    BY <1>3 DEF Then
  <2>2. ended' \in (Scripts \cup {"none"}) \X {"done", "failed", "cut"}
    BY <1>1, <2>1
  <2>3. (script' = "none") = (todo' = <<>>)
    BY <1>2, <1>3, <2>1
  <2> QED
    BY <1>2, <1>3, <2>1, <2>2, <2>3 DEF Book, Listed, Fresh, Moved
<1>4. CASE rest # <<>>
  <2>1. script' = script /\ ended' = ended
    BY <1>4 DEF Then
  <2>2. (script' = "none") = (todo' = <<>>)
    BY <1>1, <1>2, <1>4, <2>1
  <2> QED
    BY <1>1, <1>2, <1>4, <2>1, <2>2 DEF Book, Listed, Fresh, Moved
<1> QED
  BY <1>3, <1>4

LEMMA GoFacts ==
  ASSUME Book, todo # <<>>, Go
  PROVE  /\ Book' /\ Moved /\ Shrunk /\ todo' = Tail(todo)
         /\ Tail(todo) # <<>> => script' = script /\ ended' = ended
         /\ Tail(todo) = <<>> => script' = "none" /\ ended' = <<script, "done">>
<1>1. Tail(todo) \in Seq(Calls)
  BY Running
<1> QED
  BY <1>1, ThenFacts DEF Go, Shrunk

LEMMA Kept ==
  ASSUME WireTypes, UNCHANGED project, UNCHANGED mishaps
  PROVE  WireTypes' /\ Rewired /\ SameTwin
BY DEF WireTypes, project, Plugged, Rewired, SameTwin

LEMMA FailFacts ==
  ASSUME Book, WireTypes, todo # <<>>, Fail
  PROVE  CallGoal /\ script' = "none" /\ ended' = <<script, "failed">> /\ UNCHANGED project
<1>1. script \in Scripts
  BY Running
<1>2. /\ script' = "none" /\ todo' = <<>> /\ ended' = <<script, "failed">>
      /\ UNCHANGED project /\ mishaps' = mishaps /\ cuts' = cuts
  BY DEF Fail
<1>3. ended' \in (Scripts \cup {"none"}) \X {"done", "failed", "cut"}
  BY <1>1, <1>2
<1>4. (script' = "none") = (todo' = <<>>) /\ todo' \in Seq(Calls)
  BY <1>2
<1>5. Book' /\ Moved /\ Shrunk
  BY <1>2, <1>3, <1>4 DEF Book, Listed, Fresh, Moved, Shrunk
<1> QED
  BY <1>2, <1>5, Kept DEF CallGoal

LEMMA LinkedFacts ==
  ASSUME Book, WireTypes, todo # <<>>, NEW k \in Links, Linked(k)
  PROVE  CallGoal
<1>1. CASE Fail
  BY <1>1, FailFacts
<1>2. CASE /\ ~\E j \in links : Ends(j) \cap Ends(k) # {}
           /\ links' = links \cup {k} /\ Go /\ UNCHANGED <<nodes, original, carrier, mishaps>>
  <2>1. Plugged(links) \subseteq Plugged(links \cup {k})
    BY PluggedFacts
  <2>2. carrier' \subseteq Plugged(links')
    BY <1>2, <2>1 DEF WireTypes
  <2>3. WireTypes'
    BY <1>2, <2>2 DEF WireTypes
  <2>4. Rewired /\ SameTwin
    BY <1>2 DEF Rewired, SameTwin
  <2> QED
    BY <1>2, <2>3, <2>4, GoFacts DEF CallGoal
<1> QED
  BY <1>1, <1>2 DEF Linked

LEMMA Which ==
  ASSUME Call
  PROVE  /\ todo # <<>>
         /\ Head(todo)[1] = "create"  => CreateNode
         /\ Head(todo)[1] = "delete"  => DeleteNode
         /\ Head(todo)[1] = "forget"  => ForgetOriginal
         /\ Head(todo)[1] = "unlink"  => Unlink
         /\ Head(todo)[1] = "link"    => Link
         /\ Head(todo)[1] = "restore" => Restore
         /\ Head(todo)[1] = "nat"     => LinkNat
         /\ Head(todo)[1] = "start"   => StartNode
         /\ Head(todo)[1] = "stop"    => StopNode
BY DEF Call, CreateNode, DeleteNode, ForgetOriginal, Unlink, Link, Restore, LinkNat,
       StartNode, StopNode, Doing

LEMMA CallKeeps ==
  ASSUME Book, WireTypes, Call
  PROVE  CallGoal
<1>1. todo # <<>> /\ Head(todo) \in Calls /\ Tail(todo) \in Seq(Calls)
  BY Which, Running
<1>2. /\ Doing("create") \/ Doing("delete") \/ Doing("start") \/ Doing("stop") => Of \in Tap
      /\ Doing("forget") \/ Doing("restore") => Of \in Leaves
      /\ Doing("unlink") => Of \subseteq Links
      /\ Doing("link") => Of \in Links
  BY <1>1, OfFacts DEF Doing, Of
<1>3. ASSUME Go, WireTypes', links' \subseteq links, SameTwin PROVE CallGoal
  BY <1>1, <1>3, GoFacts DEF CallGoal, Rewired
<1>4. CASE CreateNode
  <2>1. nodes' = [nodes EXCEPT ![Of] = "stopped"] /\ Go
        /\ UNCHANGED <<links, original, carrier, mishaps>>
    BY <1>4 DEF CreateNode
  <2>2. WireTypes' /\ SameTwin
    BY <2>1 DEF WireTypes, Plugged, SameTwin
  <2> QED
    BY <1>3, <2>1, <2>2
<1>5. CASE DeleteNode
  <2>1. nodes' = [nodes EXCEPT ![Of] = "absent"] /\ Go /\ UNCHANGED <<original, mishaps>>
        /\ links' = links \ Touching(links, {Of}) /\ carrier' = carrier \cap Plugged(links')
    BY <1>5 DEF DeleteNode
  <2>2. WireTypes' /\ SameTwin
    BY <2>1 DEF WireTypes, SameTwin
  <2> QED
    BY <1>3, <2>1, <2>2
<1>6. CASE ForgetOriginal
  <2>1. original' = original \ {Of} /\ Go /\ UNCHANGED <<nodes, carrier, mishaps>>
        /\ links' = (IF Of \in original THEN links \ {Direct(Of)} ELSE links)
        /\ Of \in Leaves
    BY <1>2, <1>6 DEF ForgetOriginal
  <2>2. Plugged(links') = Plugged(links) /\ links' \subseteq links
    <3>1. Plugged(links \ {Direct(Of)}) = Plugged(links)
      BY <2>1, PluggedFacts
    <3>2. links' = links \ {Direct(Of)} \/ links' = links
      BY <2>1
    <3> QED
      BY <3>1, <3>2
  <2>3. WireTypes' /\ SameTwin
    BY <2>1, <2>2 DEF WireTypes, SameTwin
  <2> QED
    BY <1>3, <2>1, <2>2, <2>3
<1>7. CASE Unlink
  <2>1. UNCHANGED <<nodes, original, mishaps>> /\ Doing("unlink")
    BY <1>7 DEF Unlink
  <2>2. CASE Of = {} /\ Go /\ UNCHANGED <<links, carrier>>
    <3>1. WireTypes' /\ SameTwin
      BY <2>1, <2>2 DEF WireTypes, Plugged, SameTwin
    <3> QED
      BY <1>3, <2>2, <3>1
  <2>3. ASSUME NEW k \in Of, links' = links \ {k}, carrier' = carrier \cap Plugged(links'),
               Then(IF Of = {k} THEN Tail(todo)
                    ELSE <<<<"unlink", Of \ {k}>>>> \o Tail(todo))
        PROVE  CallGoal
    <3> DEFINE c == <<"unlink", Of \ {k}>>
               rest == IF Of = {k} THEN Tail(todo) ELSE <<c>> \o Tail(todo)
    <3>1. c \in Calls /\ Of \ {k} \in SUBSET Links
      BY <1>2, <2>1, CallFacts
    <3>2. <<c>> \o Tail(todo) \in Seq(Calls)
      <4> HIDE DEF c
      <4> QED
        BY <1>1, <3>1, One
    <3>3. rest \in Seq(Calls) /\ Then(rest)
      BY <1>1, <2>3, <3>2
    <3>4. rest = Tail(todo) \/ rest = <<<<"unlink", Of \ {k}>>>> \o Tail(todo)
      OBVIOUS
    <3> HIDE DEF rest
    <3>5. Book' /\ Moved /\ todo' = rest
      BY <1>1, <3>3, ThenFacts
    <3>6. Shrunk
      BY <3>1, <3>4, <3>5 DEF Shrunk
    <3>7. WireTypes' /\ SameTwin /\ Rewired
      BY <2>1, <2>3 DEF WireTypes, SameTwin, Rewired
    <3> QED
      BY <3>5, <3>6, <3>7 DEF CallGoal
  <2> QED
    BY <1>7, <2>2, <2>3 DEF Unlink
<1>8. CASE Link
  BY <1>1, <1>2, <1>8, LinkedFacts DEF Link
<1>9. CASE Restore
  <2>1. Of \in Leaves
    BY <1>2, <1>9 DEF Restore
  <2>2. CASE Go /\ UNCHANGED <<project, mishaps>>
    <3>1. WireTypes' /\ SameTwin
      BY <2>2, Kept
    <3>2. links' \subseteq links
      BY <2>2 DEF project
    <3> QED
      BY <1>3, <2>2, <3>1, <3>2
  <2>3. CASE Linked(Direct(Of))
    BY <1>1, <2>1, <2>3, LinkedFacts, LinkFacts
  <2> QED
    BY <1>9, <2>2, <2>3 DEF Restore
<1>10. CASE LinkNat
  <2>1. CASE Fail
    BY <1>1, <2>1, FailFacts
  <2>2. CASE FreeAdapters # {} /\ ~(LowestFree >= Adapters) /\ Linked(Nat1Ids(LowestFree))
    <3>1. Nat1Ids(LowestFree) \in Links
      BY <2>2, NatFacts DEF WireTypes
    <3> QED
      BY <1>1, <2>2, <3>1, LinkedFacts
  <2> QED
    BY <1>10, <2>1, <2>2 DEF LinkNat
<1>11. CASE StartNode
  <2>1. nodes' = [nodes EXCEPT ![Of] = "started"] /\ Go
        /\ carrier' = (IF Of = IDS /\ nodes[IDS] = "stopped" THEN Plugged(links) ELSE carrier)
        /\ UNCHANGED <<links, original, mishaps>>
    BY <1>11 DEF StartNode
  <2>2. carrier' \subseteq Plugged(links')
    BY <2>1 DEF WireTypes
  <2>3. WireTypes' /\ SameTwin
    BY <2>1, <2>2 DEF WireTypes, SameTwin
  <2> QED
    BY <1>3, <2>1, <2>3
<1>12. CASE StopNode
  <2>1. /\ Go /\ UNCHANGED <<links, original>>
        /\ nodes' = [nodes EXCEPT ![Of] = "stopped"] \/ nodes' = nodes
        /\ mishaps' = mishaps \/ mishaps' = mishaps \cup {"unstopped"}
    BY <1>12 DEF StopNode
  <2>2. carrier' \subseteq carrier
    BY <1>12 DEF StopNode
  <2>3. carrier' \subseteq Plugged(links')
    BY <2>1, <2>2 DEF WireTypes
  <2>4. WireTypes'
    BY <2>1, <2>3 DEF WireTypes
  <2>5. SameTwin
    BY <2>1 DEF SameTwin
  <2> QED
    BY <1>3, <2>1, <2>4, <2>5
<1> QED
  BY <1>4, <1>5, <1>6, <1>7, <1>8, <1>9, <1>10, <1>11, <1>12 DEF Call

LEMMA RunTyped ==
  ASSUME Book, WireTypes, NEW s \in Scripts, NEW calls, Typed(calls), Run(s, calls)
  PROVE  /\ Book' /\ WireTypes' /\ script' = s /\ todo' = calls
         /\ ended' = <<"none", "done">> /\ UNCHANGED project
         /\ mishaps' = (IF Second \subseteq Found THEN {"twin"} ELSE {})
<1>1. /\ script' = s /\ todo' = calls /\ ended' = <<"none", "done">>
      /\ UNCHANGED project /\ cuts' = cuts
      /\ mishaps' = (IF Second \subseteq Found THEN {"twin"} ELSE {})
  BY DEF Run
<1>2. s # "none" /\ (script' = "none") = (todo' = <<>>)
  BY <1>1 DEF Typed, Scripts
<1>3. Book'
  BY <1>1, <1>2 DEF Book, Listed, Fresh, Typed
<1>4. WireTypes'
  BY <1>1 DEF WireTypes, project, Plugged
<1> QED
  BY <1>1, <1>3, <1>4

LEMMA CutTyped ==
  ASSUME Book, WireTypes, Cut
  PROVE  /\ Book' /\ WireTypes' /\ script' = "none" /\ ended' = <<script, "cut">>
         /\ links' = links
<1>1. /\ script # "none" /\ cuts < MaxCuts /\ cuts' = cuts + 1 /\ UNCHANGED <<project, mishaps>>
      /\ script' = "none" /\ todo' = <<>> /\ ended' = <<script, "cut">>
  BY DEF Cut
<1>2. script \in Scripts /\ cuts' \in 0..MaxCuts
  BY <1>1, TopologyAssumption DEF Book
<1>3. ended' \in (Scripts \cup {"none"}) \X {"done", "failed", "cut"}
  BY <1>1, <1>2
<1>4. (script' = "none") = (todo' = <<>>) /\ todo' \in Seq(Calls)
  BY <1>1
<1>5. Book'
  BY <1>1, <1>2, <1>3, <1>4 DEF Book, Listed, Fresh
<1> QED
  BY <1>1, <1>5, Kept DEF project

-----------------------------------------------------------------------------
(* Ports are not shared, and the IDS stays where its scripts found it.     *)

LEMMA ApartStep ==
  ASSUME Apart, Rewired
  PROVE  Apart'
<1>1. CASE links' \subseteq links
  BY <1>1 DEF Apart
<1>2. ASSUME NEW k \in Links, links' = links \cup {k}, \A j \in links : Ends(j) \cap Ends(k) = {}
      PROVE  Apart'
  <2> SUFFICES ASSUME NEW i \in links', NEW j \in links', i # j
               PROVE  Ends(i) \cap Ends(j) = {}
    BY DEF Apart
  <2>1. CASE i \in links /\ j \in links
    BY <2>1 DEF Apart
  <2>2. CASE i = k /\ j \in links
    BY <1>2, <2>2
  <2>3. CASE j = k /\ i \in links
    BY <1>2, <2>3
  <2> QED
    BY <1>2, <2>1, <2>2, <2>3
<1> QED
  BY <1>1, <1>2 DEF Rewired

LEMMA SparedStep ==
  ASSUME Book, WireTypes, Spared, Call
  PROVE  Spared'
<1> SUFFICES ASSUME script' \in Using PROVE Present(IDS)' /\ todo' \in Seq(Sparing)
  BY DEF Spared
<1>1. todo # <<>> /\ Moved /\ Shrunk
  BY Which, CallKeeps DEF CallGoal
<1>2. script' = script /\ script' # "none"
  BY <1>1 DEF Moved, Using
<1>3. Present(IDS) /\ todo \in Seq(Sparing)
  BY <1>2 DEF Spared
<1>4. Head(todo) \in Sparing /\ Tail(todo) \in Seq(Sparing)
  BY <1>1, <1>3, HeadTailProperties
<1>5. todo' \in Seq(Sparing)
  <2>1. CASE todo' = Tail(todo)
    BY <1>4, <2>1
  <2>2. ASSUME NEW ls \in SUBSET Links, todo' = <<<<"unlink", ls>>>> \o Tail(todo)
        PROVE  todo' \in Seq(Sparing)
    <3> DEFINE c == <<"unlink", ls>>
    <3>1. c \in Sparing
      BY CallFacts, SparingFacts
    <3>2. todo' = <<c>> \o Tail(todo)
      BY <2>2
    <3> HIDE DEF c
    <3> QED
      BY <1>4, <3>1, <3>2, One
  <2> QED
    BY <1>1, <1>2, <2>1, <2>2 DEF Shrunk
<1>6. IDS \in Tap /\ nodes[IDS] # "absent" /\ nodes \in [Tap -> {"absent", "stopped", "started"}]
  BY <1>3, NameFacts DEF Present, WireTypes
<1>7. nodes'[IDS] # "absent"
  <2>1. Call
    OBVIOUS
  <2>2. CASE DeleteNode
    <3>1. Head(todo)[1] = "delete" /\ nodes' = [nodes EXCEPT ![Head(todo)[2]] = "absent"]
      BY <2>2 DEF DeleteNode, Doing, Of
    <3>2. Head(todo)[2] # IDS
      BY <1>4, <3>1, SparingFacts
    <3> QED
      BY <1>6, <3>1, <3>2
  <2>3. CASE CreateNode \/ StartNode \/ StopNode
    BY <1>6, <2>3 DEF CreateNode, StartNode, StopNode
  <2>4. ASSUME NEW k, Linked(k) PROVE nodes' = nodes
    BY <2>4 DEF Linked, Fail, project
  <2>5. CASE ForgetOriginal \/ Unlink \/ Link \/ Restore \/ LinkNat
    <3>1. nodes' = nodes
      BY <2>4, <2>5 DEF ForgetOriginal, Unlink, Link, Restore, LinkNat, Fail, project
    <3> QED
      BY <1>6, <3>1
  <2> QED
    BY <2>1, <2>2, <2>3, <2>5 DEF Call
<1> QED
  BY <1>5, <1>7 DEF Present

-----------------------------------------------------------------------------
(* 12, call by call.                                                       *)

\* What the first call of a list does when others follow it.
LEMMA GoesOn ==
  ASSUME Book, todo # <<>>, Go, Tail(todo) # <<>>
  PROVE  /\ todo' = Tail(todo) /\ script' = script /\ ended' = ended
         /\ ended = <<"none", "done">>
BY GoFacts, Running

LEMMA DirectApart ==
  ASSUME NEW ls \in SUBSET Directs, NEW l \in Leaves
  PROVE  /\ Direct(l) \notin ls => ~\E j \in ls : Ends(j) \cap Ends(Direct(l)) # {}
         /\ ~\E j \in ls : Ends(j) \cap Ends(LeafIds(l)) # {}
<1>1. \A m \in Leaves : m # "SPINE" /\ m # IDS
  BY NameFacts
<1>2. ASSUME NEW m \in Leaves, m # l PROVE Ends(Direct(m)) \cap Ends(Direct(l)) = {}
  BY <1>1, <1>2, EndsFacts
<1>3. ASSUME NEW m \in Leaves PROVE Ends(Direct(m)) \cap Ends(LeafIds(l)) = {}
  <2>1. /\ Ends(Direct(m)) = {<<"SPINE", m>>, <<m, "uplink">>}
        /\ Ends(LeafIds(l)) = {<<l, "mirror">>, <<IDS, Adapter(l)>>}
    BY EndsFacts
  <2>2. /\ <<"SPINE", m>> # <<l, "mirror">> /\ <<"SPINE", m>> # <<IDS, Adapter(l)>>
        /\ <<m, "uplink">> # <<l, "mirror">> /\ <<m, "uplink">> # <<IDS, Adapter(l)>>
    BY <1>1, NameFacts
  <2> QED
    BY <2>1, <2>2
<1> QED
  BY <1>2, <1>3 DEF Directs

LEMMA MirrorsApart ==
  Ends(LeafIds("LEAF-1")) \cap Ends(LeafIds("LEAF-2")) = {}
<1>1. /\ Ends(LeafIds("LEAF-1")) = {<<"LEAF-1", "mirror">>, <<IDS, 0>>}
      /\ Ends(LeafIds("LEAF-2")) = {<<"LEAF-2", "mirror">>, <<IDS, 1>>}
  BY EndsFacts, NameFacts DEF Adapter
<1> QED
  BY <1>1, NameFacts

\* The hubs that are left to delete, after a step that leaves them as they are.
LEMMA SameDrops ==
  ASSUME Present("Hub2b")' = Present("Hub2b")
  PROVE  /\ DropHub2b' = DropHub2b
         /\ Present("Hub2")' = Present("Hub2") => DropHub2' = DropHub2
BY DEF DropHub2b, DropHub2, Drop, IfFound

LEMMA UnlinkStep ==
  ASSUME Book, WireTypes, todo = <<Untap>> \o DropHubs, Call
  PROVE  /\ script' = script /\ ended' = ended
         /\ \/ todo' = (<<Untap>> \o DropHubs)'
            \/ Bare' /\ todo' = DropHubs'
<1>1. DropHubs \in Seq(Calls) /\ DropHubs # <<>>
  BY DropTyped
<1>2. Untap \in Calls
  BY RefactorList DEF WireTypes
<1>3. todo # <<>> /\ Head(todo) = Untap /\ Tail(todo) = DropHubs
  <2> DEFINE u == Untap
             d == DropHubs
  <2>1. u \in Calls /\ d \in Seq(Calls) /\ todo = <<u>> \o d
    BY <1>1, <1>2
  <2> HIDE DEF u, d
  <2>2. todo # <<>> /\ Head(todo) = u /\ Tail(todo) = d
    BY <2>1, One
  <2> QED
    BY <2>2 DEF u, d
<1>4. Head(todo)[1] = "unlink" /\ Of = Touching(links, Tap)
  BY <1>3 DEF Untap, Of
<1>5. Unlink
  BY <1>4, Which
<1>6. nodes' = nodes /\ DropHubs' = DropHubs
  BY <1>5 DEF Unlink, DropHubs, DropHub2, DropHub2b, Drop, IfFound, Present
<1>7. Of = links \ Directs /\ links \subseteq Links
  BY <1>4, TapFacts DEF WireTypes
<1>8. CASE Of = {}
  <2>1. Go /\ UNCHANGED <<links, carrier>>
    BY <1>5, <1>8 DEF Unlink
  <2>2. todo' = DropHubs /\ script' = script /\ ended' = ended
    BY <1>1, <1>3, <2>1, GoesOn
  <2>3. Bare'
    BY <1>7, <1>8, <2>1 DEF Bare, Directs
  <2> QED
    BY <1>6, <2>2, <2>3
<1>9. CASE Of # {}
  <2>1. PICK k \in Of : /\ links' = links \ {k}
                        /\ Then(IF Of = {k} THEN Tail(todo)
                                ELSE <<<<"unlink", Of \ {k}>>>> \o Tail(todo))
    BY <1>5, <1>9 DEF Unlink
  <2>2. Touching(links', Tap) = Of \ {k}
    <3>1. links' \in SUBSET Links
      BY <1>7, <2>1
    <3>2. Touching(links', Tap) = links' \ Directs
      BY <3>1, TapFacts
    <3> QED
      BY <1>7, <2>1, <3>2
  <2>3. CASE Of = {k}
    <3>1. Then(DropHubs)
      BY <1>3, <2>1, <2>3
    <3>2. todo' = DropHubs /\ script' = script /\ ended' = ended
      BY <1>1, <1>3, <3>1, ThenFacts
    <3>3. Bare'
      BY <1>7, <2>1, <2>3 DEF Bare, Directs
    <3> QED
      BY <1>6, <3>2, <3>3
  <2>4. CASE Of # {k}
    <3>1. Untap' = <<"unlink", Of \ {k}>>
      BY <2>2 DEF Untap
    <3> DEFINE c == <<"unlink", Of \ {k}>>
               rest == <<c>> \o DropHubs
    <3>2. c \in Calls
      BY <1>7, CallFacts
    <3>3. Then(rest)
      BY <1>3, <2>1, <2>4
    <3>4. Untap' = c
      BY <3>1
    <3> HIDE DEF c
    <3>5. rest \in Seq(Calls) /\ rest # <<>>
      BY <1>1, <3>2, One
    <3>6. (<<Untap>> \o DropHubs)' = rest
      BY <1>6, <3>4
    <3> HIDE DEF rest
    <3>7. todo' = rest /\ script' = script /\ ended' = ended
      BY <1>3, <3>3, <3>5, ThenFacts
    <3> QED
      BY <3>6, <3>7
  <2> QED
    BY <2>3, <2>4
<1> QED
  BY <1>8, <1>9

\* A hub is stopped, or runs on, and is then deleted; nothing is linked to it any
\* more.
LEMMA DropStep ==
  ASSUME Book, WireTypes, Bare, NEW h \in Hubs, Present(h), NEW s \in Seq(Calls), s # <<>>, Call,
         \/ todo = <<<<"stop", h>>>> \o (<<<<"delete", h>>>> \o s)
         \/ todo = <<<<"delete", h>>>> \o s
  PROVE  /\ script' = script /\ ended' = ended /\ Bare'
         /\ \A n \in Tap \ {h} : nodes'[n] = nodes[n]
         /\ \/ /\ todo = <<<<"stop", h>>>> \o (<<<<"delete", h>>>> \o s)
               /\ todo' = <<<<"delete", h>>>> \o s /\ Present(h)'
            \/ /\ todo = <<<<"delete", h>>>> \o s
               /\ todo' = s /\ ~Present(h)'
<1> DEFINE a == <<"stop", h>>
           b == <<"delete", h>>
<1>1. a \in Calls /\ b \in Calls /\ a[1] = "stop" /\ a[2] = h /\ b[1] = "delete" /\ b[2] = h
  BY DropFacts
<1>2. h \in Tap /\ h # IDS
  BY NameFacts
<1>3. todo = <<a>> \o (<<b>> \o s) \/ todo = <<b>> \o s
  OBVIOUS
<1> HIDE DEF a, b
<1>4. <<b>> \o s \in Seq(Calls) /\ <<b>> \o s # <<>> /\ Head(<<b>> \o s) = b /\ Tail(<<b>> \o s) = s
  BY <1>1, One
<1> DEFINE t == <<b>> \o s
<1>5. t \in Seq(Calls) /\ t # <<>> /\ Head(t) = b /\ Tail(t) = s
  BY <1>4
<1>6. todo = <<a>> \o t \/ todo = t
  BY <1>3
<1> HIDE DEF t
<1>7. CASE todo = <<a>> \o t
  <2>1. todo # <<>> /\ Head(todo) = a /\ Tail(todo) = t
    BY <1>1, <1>5, <1>7, One
  <2>2. StopNode /\ Of = h
    BY <1>1, <2>1, Which DEF Of
  <2>3. /\ Go /\ links' = links
        /\ nodes' = [nodes EXCEPT ![h] = "stopped"] \/ nodes' = nodes
    BY <2>2 DEF StopNode
  <2>4. todo' = t /\ script' = script /\ ended' = ended
    BY <1>5, <2>1, <2>3, GoesOn
  <2>5. Bare' /\ Present(h)' /\ \A n \in Tap \ {h} : nodes'[n] = nodes[n]
    BY <1>2, <2>3 DEF Bare, Directs, WireTypes, Present
  <2> QED
    BY <1>7, <2>4, <2>5 DEF t, a, b
<1>8. CASE todo = t
  <2>1. DeleteNode /\ Of = h
    BY <1>1, <1>5, <1>8, Which DEF Of
  <2>2. nodes' = [nodes EXCEPT ![h] = "absent"] /\ Go /\ links' \subseteq links
    BY <2>1 DEF DeleteNode
  <2>3. todo' = s /\ script' = script /\ ended' = ended
    BY <1>5, <1>8, <2>2, GoesOn
  <2>4. Bare' /\ ~Present(h)' /\ \A n \in Tap \ {h} : nodes'[n] = nodes[n]
    BY <1>2, <2>2 DEF Bare, Directs, WireTypes, Present
  <2> QED
    BY <1>8, <2>3, <2>4 DEF t, b
<1> QED
  BY <1>6, <1>7, <1>8

\* A direct link is made when it is not there, and is never refused.
LEMMA RestoreStep ==
  ASSUME Book, WireTypes, Bare, NEW l \in Leaves, NEW s \in Seq(Calls), s # <<>>,
         todo # <<>>, Head(todo) = <<"restore", l>>, Tail(todo) = s, Call
  PROVE  /\ script' = script /\ ended' = ended /\ todo' = s /\ nodes' = nodes
         /\ links' = links \cup {Direct(l)} /\ Bare'
<1>1. Restore /\ Of = l
  BY Which DEF Of
<1>2. ~Linked(Direct(l)) \/ Direct(l) \in links
      \/ (links' = links \cup {Direct(l)} /\ Go /\ UNCHANGED nodes)
  BY DirectApart DEF Linked, Bare
<1>3. CASE Direct(l) \in links
  <2>1. Go /\ UNCHANGED <<project, mishaps>>
    BY <1>1, <1>3 DEF Restore
  <2> QED
    BY <1>3, <2>1, GoesOn DEF project, Bare, Directs
<1>4. CASE Direct(l) \notin links
  <2>1. links' = links \cup {Direct(l)} /\ Go /\ UNCHANGED nodes
    BY <1>1, <1>2, <1>4 DEF Restore
  <2> QED
    BY <2>1, GoesOn DEF Bare, Directs
<1> QED
  BY <1>3, <1>4

\* The link from a leaf to the IDS, on ports that are free.
LEMMA WireStep ==
  ASSUME Book, WireTypes, NEW k \in Links,
         ~\E j \in links : Ends(j) \cap Ends(k) # {},
         NEW s \in Seq(Calls), s # <<>>,
         todo # <<>>, Head(todo) = <<"link", k>>, Tail(todo) = s, Call
  PROVE  /\ script' = script /\ ended' = ended /\ todo' = s /\ nodes' = nodes
         /\ links' = links \cup {k}
<1>1. Link /\ Of = k
  BY Which DEF Of
<1>2. links' = links \cup {k} /\ Go /\ UNCHANGED nodes
  BY <1>1 DEF Link, Linked
<1> QED
  BY <1>2, GoesOn

LEMMA RefactorStep ==
  ASSUME Book, WireTypes, AtRefactor, script = "refactor", ended = <<"none", "done">>, Call
  PROVE  /\ RefactorStage' /\ RefactorRestores'
         /\ \/ script' = "refactor"
            \/ script' = "none" /\ ended' = <<"refactor", "done">>
<1> DEFINE Goal == /\ RefactorStage' /\ RefactorRestores'
                   /\ \/ script' = "refactor"
                      \/ script' = "none" /\ ended' = <<"refactor", "done">>
<1>1. ASSUME script' = script, ended' = ended, AtRefactor' PROVE Goal
  BY <1>1 DEF RefactorStage, RefactorRestores
<1> SUFFICES Goal
  OBVIOUS
<1> HIDE DEF Goal
<1>2. /\ Directs = {Direct("LEAF-1"), Direct("LEAF-2")}
      /\ Final = Directs \cup {LeafIds("LEAF-1")} \cup {LeafIds("LEAF-2")}
      /\ "LEAF-1" \in Leaves /\ "LEAF-2" \in Leaves
      /\ "Hub1" \in Hubs /\ "Hub2" \in Hubs /\ "Hub2b" \in Hubs
      /\ "Hub1" \in Tap /\ "Hub2" \in Tap /\ "Hub2b" \in Tap
  BY NameFacts DEF Directs, Final, Leaves
<1>3. DropHub2 \in Seq(Calls) /\ DropHub2b \in Seq(Calls) /\ DropHub2 # <<>> /\ DropHub2b # <<>>
  BY DropTyped
<1>4. /\ DropHubs = IF Present("Hub1")
                    THEN <<<<"stop", "Hub1">>>> \o (<<<<"delete", "Hub1">>>> \o DropHub2) ELSE DropHub2
      /\ DropHub2 = IF Present("Hub2")
                    THEN <<<<"stop", "Hub2">>>> \o (<<<<"delete", "Hub2">>>> \o DropHub2b) ELSE DropHub2b
      /\ DropHub2b = IF Present("Hub2b")
                     THEN <<<<"stop", "Hub2b">>>> \o (<<<<"delete", "Hub2b">>>> \o Restore1) ELSE Restore1
  <2>1. DropHub2b = IF Present("Hub2b")
                    THEN <<<<"stop", "Hub2b">>>> \o (<<<<"delete", "Hub2b">>>> \o Restore1) ELSE Restore1
    BY <1>2, DropFacts, Lists DEF DropHub2b
  <2>2. DropHub2 = IF Present("Hub2")
                   THEN <<<<"stop", "Hub2">>>> \o (<<<<"delete", "Hub2">>>> \o DropHub2b) ELSE DropHub2b
    BY <1>2, <1>3, DropFacts DEF DropHub2
  <2>3. DropHubs = IF Present("Hub1")
                   THEN <<<<"stop", "Hub1">>>> \o (<<<<"delete", "Hub1">>>> \o DropHub2) ELSE DropHub2
    BY <1>2, <1>3, DropFacts DEF DropHubs
  <2> QED
    BY <2>1, <2>2, <2>3
<1>5. CASE Untapping
  <2>1. script' = script /\ ended' = ended /\ (Untapping' \/ Dropping')
    BY <1>5, UnlinkStep DEF Untapping, Dropping
  <2> QED
    BY <1>1, <2>1 DEF AtRefactor
<1>6. ASSUME Bare, Present("Hub1"),
             \/ todo = <<<<"stop", "Hub1">>>> \o (<<<<"delete", "Hub1">>>> \o DropHub2)
             \/ todo = <<<<"delete", "Hub1">>>> \o DropHub2
      PROVE  Goal
  <2>1. /\ script' = script /\ ended' = ended /\ Bare'
        /\ \A n \in Tap \ {"Hub1"} : nodes'[n] = nodes[n]
        /\ \/ todo' = <<<<"delete", "Hub1">>>> \o DropHub2 /\ Present("Hub1")'
           \/ todo' = DropHub2 /\ ~Present("Hub1")'
    BY <1>2, <1>3, <1>6, DropStep
  <2>2. Present("Hub2")' = Present("Hub2") /\ Present("Hub2b")' = Present("Hub2b")
    BY <1>2, <2>1 DEF Present
  <2>3. DropHub2' = DropHub2
    BY <2>2, SameDrops
  <2>4. CASE todo' = <<<<"delete", "Hub1">>>> \o DropHub2 /\ Present("Hub1")'
    <3>1. Deleting1'
      BY <2>1, <2>3, <2>4 DEF Deleting1
    <3> QED
      BY <1>1, <2>1, <3>1 DEF AtRefactor
  <2>5. CASE todo' = DropHub2 /\ ~Present("Hub1")'
    <3>1. Drop("Hub1")' = <<>>
      BY <2>5 DEF Drop, IfFound
    <3>2. DropHubs' = <<>> \o DropHub2
      BY <2>3, <3>1 DEF DropHubs
    <3>3. <<>> \o DropHub2 = DropHub2
      BY <1>3, ConcatEmptySeq
    <3>4. Dropping'
      BY <2>1, <2>5, <3>2, <3>3 DEF Dropping
    <3> QED
      BY <1>1, <2>1, <3>4 DEF AtRefactor
  <2> QED
    BY <2>1, <2>4, <2>5
<1>7. ASSUME Bare, ~Present("Hub1"), Present("Hub2"),
             \/ todo = <<<<"stop", "Hub2">>>> \o (<<<<"delete", "Hub2">>>> \o DropHub2b)
             \/ todo = <<<<"delete", "Hub2">>>> \o DropHub2b
      PROVE  Goal
  <2>1. /\ script' = script /\ ended' = ended /\ Bare'
        /\ \A n \in Tap \ {"Hub2"} : nodes'[n] = nodes[n]
        /\ \/ todo' = <<<<"delete", "Hub2">>>> \o DropHub2b /\ Present("Hub2")'
           \/ todo' = DropHub2b /\ ~Present("Hub2")'
    BY <1>2, <1>3, <1>7, DropStep
  <2>2. Present("Hub1")' = Present("Hub1") /\ Present("Hub2b")' = Present("Hub2b")
    BY <1>2, <2>1 DEF Present
  <2>3. DropHub2b' = DropHub2b /\ ~Present("Hub1")'
    BY <1>7, <2>2, SameDrops
  <2>4. CASE todo' = <<<<"delete", "Hub2">>>> \o DropHub2b /\ Present("Hub2")'
    <3>1. Deleting2'
      BY <2>1, <2>3, <2>4 DEF Deleting2
    <3> QED
      BY <1>1, <2>1, <3>1 DEF AtRefactor
  <2>5. CASE todo' = DropHub2b /\ ~Present("Hub2")'
    <3>1. Drop("Hub1")' = <<>> /\ Drop("Hub2")' = <<>>
      BY <2>3, <2>5 DEF Drop, IfFound
    <3>2. DropHubs' = <<>> \o (<<>> \o DropHub2b)
      BY <2>3, <3>1 DEF DropHubs, DropHub2
    <3>3. <<>> \o DropHub2b = DropHub2b
      BY <1>3, ConcatEmptySeq
    <3>4. Dropping'
      BY <2>1, <2>5, <3>2, <3>3 DEF Dropping
    <3> QED
      BY <1>1, <2>1, <3>4 DEF AtRefactor
  <2> QED
    BY <2>1, <2>4, <2>5
<1>8. ASSUME Bare, ~Present("Hub1"), ~Present("Hub2"), Present("Hub2b"),
              \/ todo = <<<<"stop", "Hub2b">>>> \o (<<<<"delete", "Hub2b">>>> \o Restore1)
              \/ todo = <<<<"delete", "Hub2b">>>> \o Restore1
       PROVE  Goal
  <2>1. /\ script' = script /\ ended' = ended /\ Bare'
        /\ \A n \in Tap \ {"Hub2b"} : nodes'[n] = nodes[n]
        /\ \/ todo' = <<<<"delete", "Hub2b">>>> \o Restore1 /\ Present("Hub2b")'
           \/ todo' = Restore1 /\ ~Present("Hub2b")'
    BY <1>2, <1>8, DropStep, Lists
  <2>2. ~Present("Hub1")' /\ ~Present("Hub2")'
    BY <1>2, <1>8, <2>1 DEF Present
  <2>3. CASE todo' = <<<<"delete", "Hub2b">>>> \o Restore1 /\ Present("Hub2b")'
    <3>1. Deleting3'
      BY <2>1, <2>2, <2>3 DEF Deleting3, Restore1
    <3> QED
      BY <1>1, <2>1, <3>1 DEF AtRefactor
  <2>4. CASE todo' = Restore1 /\ ~Present("Hub2b")'
    <3>1. Drop("Hub1")' = <<>> /\ Drop("Hub2")' = <<>> /\ Drop("Hub2b")' = <<>>
      BY <2>2, <2>4 DEF Drop, IfFound
    <3>2. DropHubs' = <<>> \o (<<>> \o (<<>> \o Restore1))
      BY <3>1 DEF DropHubs, DropHub2, DropHub2b, Restore1
    <3>3. <<>> \o Restore1 = Restore1
      BY Lists, ConcatEmptySeq
    <3>4. Dropping'
      BY <2>1, <2>4, <3>2, <3>3 DEF Dropping
    <3> QED
      BY <1>1, <2>1, <3>4 DEF AtRefactor
  <2> QED
    BY <2>1, <2>3, <2>4
<1>9. ASSUME Bare, NoHubs, todo = Restore1 PROVE Goal
  <2>1. /\ script' = script /\ ended' = ended /\ todo' = Restore2 /\ nodes' = nodes
        /\ links' = links \cup {Direct("LEAF-1")} /\ Bare'
    BY <1>2, <1>9, RestoreStep, Lists
  <2>2. Restoring'
    BY <1>9, <2>1 DEF NoHubs, Present, Restore2, Restoring
  <2> QED
    BY <1>1, <2>1, <2>2 DEF AtRefactor
<1>10. CASE Restoring
  <2>1. /\ script' = script /\ ended' = ended /\ todo' = Wire1 /\ nodes' = nodes
        /\ links' = links \cup {Direct("LEAF-2")} /\ Bare'
    BY <1>2, <1>10, RestoreStep, Lists DEF Restoring
  <2>2. Wiring1'
    BY <1>2, <1>10, <2>1 DEF NoHubs, Present, Wire1, Bare, Directs, Restoring, Wiring1
  <2> QED
    BY <1>1, <2>1, <2>2 DEF AtRefactor
<1>11. CASE Wiring1
  <2>1. LeafIds("LEAF-1") \in Links /\ ~\E j \in links : Ends(j) \cap Ends(LeafIds("LEAF-1")) # {}
    BY <1>2, <1>11, DirectApart, LinkFacts DEF Wiring1
  <2>2. /\ script' = script /\ ended' = ended /\ todo' = Wire2 /\ nodes' = nodes
        /\ links' = links \cup {LeafIds("LEAF-1")}
    BY <1>11, <2>1, WireStep, Lists DEF Wiring1
  <2>3. Wiring2'
    BY <1>11, <2>2 DEF NoHubs, Present, Wire2, Directs, Wiring1, Wiring2
  <2> QED
    BY <1>1, <2>2, <2>3 DEF AtRefactor
<1>12. CASE Wiring2
  <2>1. LeafIds("LEAF-2") \in Links /\ ~\E j \in links : Ends(j) \cap Ends(LeafIds("LEAF-2")) # {}
    <3>1. /\ ~\E j \in Directs : Ends(j) \cap Ends(LeafIds("LEAF-2")) # {}
          /\ LeafIds("LEAF-2") \in Links
      BY <1>2, DirectApart, LinkFacts
    <3> QED
      BY <1>12, <3>1, MirrorsApart DEF Wiring2
  <2>2. /\ script' = script /\ ended' = ended /\ todo' = Start /\ nodes' = nodes
        /\ links' = links \cup {LeafIds("LEAF-2")}
    BY <1>12, <2>1, WireStep, Lists DEF Wiring2
  <2>3. Starting'
    BY <1>2, <1>12, <2>2 DEF NoHubs, Present, Start, Final, Directs, Wiring2, Starting
  <2> QED
    BY <1>1, <2>2, <2>3 DEF AtRefactor
<1>13. CASE Starting
  <2>1. todo # <<>> /\ Head(todo) = <<"start", IDS>> /\ Tail(todo) = <<>>
    BY <1>13, Lists DEF Starting
  <2>2. StartNode /\ Of = IDS
    BY <2>1, Which DEF Of
  <2>3. nodes' = [nodes EXCEPT ![IDS] = "started"] /\ links' = links /\ Go
    BY <2>2 DEF StartNode
  <2>4. script' = "none" /\ ended' = <<"refactor", "done">>
    BY <2>1, <2>3, GoFacts
  <2>5. \A h \in Hubs : nodes'[h] = nodes[h]
    BY <1>2, <2>3, NameFacts DEF WireTypes
  <2>6. (\A n \in Hubs : ~Present(n))' /\ links' = Final
    BY <1>13, <2>3, <2>5, NameFacts DEF NoHubs, Present, Hubs, Starting
  <2> QED
    BY <2>4, <2>6 DEF Goal, RefactorStage, RefactorRestores, Final
<1>14. CASE Dropping
  <2>1. CASE Present("Hub1")
    BY <1>4, <1>6, <1>14, <2>1 DEF Dropping
  <2>2. CASE ~Present("Hub1") /\ Present("Hub2")
    BY <1>4, <1>7, <1>14, <2>2 DEF Dropping
  <2>3. CASE ~Present("Hub1") /\ ~Present("Hub2") /\ Present("Hub2b")
    BY <1>4, <1>14, <1>8, <2>3 DEF Dropping
  <2>4. CASE NoHubs
    BY <1>4, <1>9, <1>14, <2>4 DEF NoHubs, Dropping
  <2> QED
    BY <2>1, <2>2, <2>3, <2>4 DEF NoHubs
<1>15. CASE Deleting1
  BY <1>6, <1>15 DEF Deleting1
<1>16. CASE Deleting2
  BY <1>7, <1>16 DEF Deleting2
<1>17. CASE Deleting3
  BY <1>8, <1>17 DEF Deleting3
<1> QED
  BY <1>5, <1>10, <1>11, <1>12, <1>13, <1>14, <1>15, <1>16, <1>17 DEF AtRefactor, Goal

-----------------------------------------------------------------------------
(* 13 and 14, call by call.                                                *)

\* The stop takes the carriers away, or does not reach an IDS that runs.
LEMMA StopStep ==
  ASSUME Book, WireTypes, Held, NEW s \in Seq(Calls), s # <<>>,
         todo # <<>>, Tail(todo) = s, Call, Head(todo) = <<"stop", IDS>>
  PROVE  script' = script /\ ended' = ended /\ todo' = s /\ Stance' /\ links' = links
<1>1. StopNode /\ Of = IDS
  BY Which DEF Of
<1>2. Go /\ links' = links
  BY <1>1 DEF StopNode
<1>3. IDS \in Tap
  BY NameFacts
<1>4. CASE nodes' = [nodes EXCEPT ![IDS] = "stopped"] /\ mishaps' = mishaps
  <2>1. nodes'[IDS] = "stopped" /\ "unstopped" \notin mishaps'
    BY <1>3, <1>4 DEF WireTypes, Held
  <2> QED
    BY <1>2, <2>1, GoesOn DEF Stance, Held
<1>5. CASE nodes[IDS] = "started" /\ nodes' = nodes /\ mishaps' = mishaps \cup {"unstopped"}
  <2>1. nodes'[IDS] = "started" /\ "unstopped" \in mishaps'
    BY <1>5
  <2> QED
    BY <1>2, <2>1, GoesOn DEF Stance, Held
<1> QED
  BY <1>1, <1>4, <1>5 DEF StopNode

\* A start gives an IDS that was stopped its carriers, and an IDS that ran on none.
LEMMA StartStep ==
  ASSUME Book, WireTypes, Stance, todo = Start, Call
  PROVE  /\ script' = "none" /\ ended' = <<script, "done">> /\ mishaps' = mishaps
         /\ links' = links /\ nodes'[IDS] = "started"
         /\ carrier' = (IF Held THEN Plugged(links) ELSE carrier)
<1>1. todo # <<>> /\ Head(todo) = <<"start", IDS>> /\ Tail(todo) = <<>>
  BY Lists
<1>2. StartNode /\ Of = IDS
  BY <1>1, Which DEF Of
<1>3. /\ nodes' = [nodes EXCEPT ![IDS] = "started"] /\ Go /\ links' = links /\ mishaps' = mishaps
      /\ carrier' = (IF nodes[IDS] = "stopped" THEN Plugged(links) ELSE carrier)
  BY <1>2 DEF StartNode
<1>4. IDS \in Tap /\ nodes[IDS] = (IF Held THEN "stopped" ELSE "started")
  BY NameFacts DEF Stance
<1>5. nodes'[IDS] = "started"
  BY <1>3, <1>4 DEF WireTypes
<1>6. carrier' = (IF Held THEN Plugged(links) ELSE carrier)
  BY <1>3, <1>4
<1> QED
  BY <1>1, <1>3, <1>5, <1>6, GoFacts

\* What is said of 13 and 14 when they have ended is said of what they leave.
LEMMA FixStep ==
  ASSUME Book, WireTypes, Apart, AtFix, script = "fix", ended = <<"none", "done">>, Call
  PROVE  /\ FixStage' /\ ColdPlugged'
         /\ script' = "fix" \/ (script' = "none" /\ ended' = <<"fix", "done">>)
<1> DEFINE Goal == /\ FixStage' /\ ColdPlugged'
                   /\ script' = "fix" \/ (script' = "none" /\ ended' = <<"fix", "done">>)
           m == LeafIds("LEAF-1")
<1>1. ASSUME script' = script, ended' = ended, AtFix' PROVE Goal
  BY <1>1 DEF FixStage, ColdPlugged
<1>2. m \in Links /\ links \in SUBSET Links
  BY MirrorFacts DEF WireTypes
<1> SUFFICES Goal
  OBVIOUS
<1>3. CASE Fixing1
  <2>1. script' = script /\ ended' = ended /\ todo' = Fix2 /\ Stance' /\ links' = links
    BY <1>3, StopStep, FixLists DEF Fixing1
  <2>2. Fixing2'
    BY <1>3, <2>1 DEF Fixing1, Fixing2, Fix2
  <2> QED
    BY <1>1, <2>1, <2>2 DEF AtFix
<1>4. CASE Fixing2
  <2>1. todo # <<>> /\ Head(todo) = <<"unlink", {m}>> /\ Tail(todo) = Fix3 /\ Fix3 # <<>>
    BY <1>4, FixLists DEF Fixing2
  <2>2. Unlink /\ Of = {m}
    BY <2>1, Which DEF Of
  <2>3. links' = links \ {m} /\ Go /\ nodes' = nodes /\ mishaps' = mishaps
    <3>1. PICK k \in Of : /\ links' = links \ {k}
                          /\ Then(IF Of = {k} THEN Tail(todo)
                                  ELSE <<<<"unlink", Of \ {k}>>>> \o Tail(todo))
      BY <2>2 DEF Unlink
    <3>2. k = m /\ Of = {k}
      BY <2>2, <3>1
    <3> QED
      BY <2>2, <3>1, <3>2 DEF Unlink, Go
  <2>4. 0 \notin Plugged(links')
    <3>1. m \in links /\ links' \in SUBSET Links
      BY <1>2, <1>4, <2>3 DEF Fixing2
    <3>2. \A j \in links' : Ends(j) \cap Ends(m) = {}
      BY <2>3, <3>1 DEF Apart
    <3> HIDE DEF m
    <3> QED
      BY <3>1, <3>2, MirrorFacts DEF m
  <2>5. script' = script /\ ended' = ended /\ todo' = Fix3
    BY <2>1, <2>3, GoesOn
  <2>6. Fixing3'
    BY <1>4, <2>3, <2>4, <2>5 DEF Fixing2, Fixing3, Stance, Held, Fix3
  <2> QED
    BY <1>1, <2>5, <2>6 DEF AtFix
<1>5. CASE Fixing3
  <2>1. todo # <<>> /\ Head(todo) = <<"link", m>> /\ Tail(todo) = Start /\ Start # <<>>
    BY <1>5, FixLists, Lists DEF Fixing3
  <2>2. Linked(m)
    BY <2>1, Which DEF Link, Of
  <2>3. \A j \in links : Ends(j) \cap Ends(m) = {}
    BY <1>2, <1>5, MirrorFacts DEF Fixing3
  <2>4. links' = links \cup {m} /\ Go /\ nodes' = nodes /\ mishaps' = mishaps /\ carrier' = carrier
    BY <2>2, <2>3 DEF Linked
  <2>5. script' = script /\ ended' = ended /\ todo' = Start
    BY <2>1, <2>4, GoesOn
  <2>6. 0 \in Plugged(links') \ carrier'
    <3>1. links' \in SUBSET Links /\ m \in links'
      BY <1>2, <2>4
    <3>2. 0 \in Plugged(links')
      BY <3>1, MirrorFacts
    <3>3. 0 \notin carrier
      BY <1>5 DEF Fixing3, WireTypes
    <3> QED
      BY <2>4, <3>2, <3>3
  <2>7. Fixing4'
    BY <1>5, <2>4, <2>5, <2>6 DEF Fixing3, Fixing4, Stance, Held, Start
  <2> QED
    BY <1>1, <2>5, <2>7 DEF AtFix
<1>6. CASE Fixing4
  <2>1. /\ script' = "none" /\ ended' = <<"fix", "done">> /\ mishaps' = mishaps
        /\ links' = links /\ nodes'[IDS] = "started"
        /\ carrier' = (IF Held THEN Plugged(links) ELSE carrier)
    BY <1>6, StartStep DEF Fixing4
  <2>2. Plugged(links') = Plugged(links)
    BY <2>1
  <2>3. 0 \in Plugged(links) /\ 0 \notin carrier
    BY <1>6 DEF Fixing4
  <2>4. Held' <=> Held
    BY <2>1 DEF Held
  <2>5. Held => carrier' = Plugged(links') /\ 0 \in carrier'
    BY <2>1, <2>2, <2>3
  <2>6. ~Held => 0 \notin carrier'
    BY <2>1, <2>3
  <2>7. FixStage'
    BY <2>1 DEF FixStage
  <2>8. ColdPlugged'
    BY <2>1, <2>4, <2>5, <2>6 DEF ColdPlugged, Held
  <2> QED
    BY <2>1, <2>7, <2>8
<1> QED
  BY <1>3, <1>4, <1>5, <1>6 DEF AtFix

\* 13 plugs into a running IDS: no adapter that was free gets a carrier.
LEMMA RelinkStep ==
  ASSUME Book, WireTypes, todo = RelinkCalls, script = "relink", Call
  PROVE  /\ script' = "none" /\ ColdPlugged'
         /\ ended' \in {<<"relink", "done">>, <<"relink", "failed">>}
<1> DEFINE m == LeafIds("LEAF-1")
<1>1. todo # <<>> /\ Head(todo) = <<"link", m>> /\ Tail(todo) = <<>>
  BY RelinkLists
<1>2. Linked(m)
  BY <1>1, Which DEF Link, Of
<1>3. CASE Fail
  <2>1. script' = "none" /\ ended' = <<"relink", "failed">>
    BY <1>1, <1>3, FailFacts
  <2> QED
    BY <2>1 DEF ColdPlugged
<1>4. CASE /\ ~\E j \in links : Ends(j) \cap Ends(m) # {}
           /\ Go /\ carrier' = carrier
  <2>1. script' = "none" /\ ended' = <<"relink", "done">>
    BY <1>1, <1>4, GoFacts
  <2>2. links \in SUBSET Links /\ \A j \in links : Ends(j) \cap Ends(m) = {}
    BY <1>4 DEF WireTypes
  <2>3. 0 \notin Plugged(links)
    BY <2>2, MirrorFacts
  <2>4. 0 \notin carrier'
    BY <1>4, <2>3 DEF WireTypes
  <2> QED
    BY <2>1, <2>4 DEF ColdPlugged
<1> QED
  BY <1>2, <1>3, <1>4 DEF Linked

LEMMA WebStep ==
  ASSUME Book, WireTypes, AtWeb, script = "webapi", ended = <<"none", "done">>, Call
  PROVE  /\ WebStage' /\ ColdPlugged'
         /\ \/ script' = "webapi"
            \/ script' = "none" /\ ended' \in {<<"webapi", "done">>, <<"webapi", "failed">>}
<1> DEFINE Goal == /\ WebStage' /\ ColdPlugged'
                   /\ \/ script' = "webapi"
                      \/ /\ script' = "none"
                         /\ ended' \in {<<"webapi", "done">>, <<"webapi", "failed">>}
<1>1. ASSUME script' = script, ended' = ended, AtWeb' PROVE Goal
  BY <1>1 DEF WebStage, ColdPlugged
<1> SUFFICES Goal
  OBVIOUS
<1>2. CASE todo = WebApiCalls /\ Held
  <2>1. script' = script /\ ended' = ended /\ todo' = Web2 /\ Stance'
    BY <1>2, StopStep, WebLists
  <2>2. AtWeb'
    BY <2>1 DEF AtWeb, Web2
  <2> QED
    BY <1>1, <2>1, <2>2
<1>3. CASE todo = Web2 /\ Stance
  <2>1. todo # <<>> /\ Head(todo) = <<"nat", IDS>> /\ Tail(todo) = Start /\ Start # <<>>
    BY <1>3, WebLists, Lists
  <2>2. LinkNat /\ links \subseteq Links
    BY <2>1, Which DEF WireTypes
  <2>3. CASE FreeAdapters = {} \/ LowestFree >= Adapters
    <3>1. Fail
      BY <2>2, <2>3 DEF LinkNat
    <3>2. script' = "none" /\ ended' = <<"webapi", "failed">> /\ links' = links
      BY <2>1, <3>1, FailFacts DEF project
    <3>3. Plugged(links) = 0..(Adapters - 1)
      BY <2>2, <2>3, NatFacts
    <3>4. Plugged(links') = 0..(Adapters - 1)
      BY <3>2, <3>3
    <3> QED
      BY <3>2, <3>4 DEF WebStage, ColdPlugged
  <2>4. CASE FreeAdapters # {} /\ ~(LowestFree >= Adapters)
    <3>1. Linked(Nat1Ids(LowestFree))
      BY <2>2, <2>4 DEF LinkNat
    <3>2. ~\E j \in links : Ends(j) \cap Ends(Nat1Ids(LowestFree)) # {}
      BY <2>2, <2>4, NatFacts
    <3>3. Go /\ nodes' = nodes /\ mishaps' = mishaps
      BY <3>1, <3>2 DEF Linked
    <3>4. script' = script /\ ended' = ended /\ todo' = Start
      BY <2>1, <3>3, GoesOn
    <3>5. AtWeb'
      BY <1>3, <3>3, <3>4 DEF AtWeb, Stance, Held, Start
    <3> QED
      BY <1>1, <3>4, <3>5
  <2> QED
    BY <2>3, <2>4
<1>4. CASE todo = Start /\ Stance
  <2>1. /\ script' = "none" /\ ended' = <<"webapi", "done">> /\ mishaps' = mishaps
        /\ links' = links /\ nodes'[IDS] = "started"
        /\ carrier' = (IF Held THEN Plugged(links) ELSE carrier)
    BY <1>4, StartStep
  <2>2. Plugged(links') = Plugged(links) /\ (Held' <=> Held)
    BY <2>1 DEF Held
  <2>3. Held' => carrier' = Plugged(links')
    BY <2>1, <2>2
  <2> QED
    BY <2>1, <2>3 DEF WebStage, ColdPlugged, Held
<1> QED
  BY <1>2, <1>3, <1>4 DEF AtWeb

-----------------------------------------------------------------------------
(* The invariant.                                                          *)

LEMMA CallStages ==
  ASSUME Book, WireTypes, Apart, Stages, Call
  PROVE  Stages' /\ RefactorRestores' /\ ColdPlugged'
<1>1. Moved /\ SameTwin /\ script \in Scripts /\ script # "none" /\ ended = <<"none", "done">>
  BY Which, Running, CallKeeps DEF CallGoal
<1>2. \/ script' = script /\ ended' = ended
      \/ script' = "none" /\ ended' = <<script, "done">>
      \/ script' = "none" /\ ended' = <<script, "failed">>
  BY <1>1 DEF Moved
<1>3. ASSUME script # "refactor"
      PROVE  RefactorStage' /\ RefactorRestores'
  <2>1. script' # "refactor" /\ ended'[1] # "refactor"
    BY <1>1, <1>2, <1>3
  <2> QED
    BY <2>1 DEF RefactorStage, RefactorRestores
<1>4. CASE script = "refactor"
  <2>1. script' \in {"refactor", "none"}
        /\ ended' \in {<<"none", "done">>, <<"refactor", "done">>, <<"refactor", "failed">>}
    BY <1>1, <1>2, <1>4
  <2>2. FixStage' /\ RelinkStage' /\ WebStage' /\ ColdPlugged'
    BY <2>1 DEF FixStage, RelinkStage, WebStage, ColdPlugged
  <2>3. CASE "twin" \in mishaps
    <3>1. "twin" \in mishaps'
      BY <1>1, <2>3 DEF SameTwin
    <3> QED
      BY <2>2, <3>1 DEF Stages, RefactorStage, RefactorRestores
  <2>4. CASE "twin" \notin mishaps
    <3>1. AtRefactor
      BY <1>4, <2>4 DEF Stages, RefactorStage
    <3>2. RefactorStage' /\ RefactorRestores'
      BY <1>1, <1>4, <3>1, RefactorStep
    <3> QED
      BY <2>2, <3>2 DEF Stages
  <2> QED
    BY <2>3, <2>4
<1>5. CASE script = "fix"
  <2>1. FixStage' /\ ColdPlugged' /\ script' \in {"fix", "none"}
    BY <1>1, <1>5, FixStep DEF Stages, FixStage
  <2>2. RelinkStage' /\ WebStage'
    BY <2>1 DEF RelinkStage, WebStage
  <2> QED
    BY <1>3, <1>5, <2>1, <2>2 DEF Stages
<1>6. CASE script = "relink"
  <2>1. script' = "none" /\ ColdPlugged'
    BY <1>6, RelinkStep DEF Stages, RelinkStage
  <2>2. FixStage' /\ RelinkStage' /\ WebStage'
    BY <2>1 DEF FixStage, RelinkStage, WebStage
  <2> QED
    BY <1>3, <1>6, <2>1, <2>2 DEF Stages
<1>7. CASE script = "webapi"
  <2>1. WebStage' /\ ColdPlugged' /\ script' \in {"webapi", "none"}
    BY <1>1, <1>7, WebStep DEF Stages, WebStage
  <2>2. FixStage' /\ RelinkStage'
    BY <2>1 DEF FixStage, RelinkStage
  <2> QED
    BY <1>3, <1>7, <2>1, <2>2 DEF Stages
<1>8. CASE script \in {"deploy", "rollback"}
  <2>1. script' \in {"none", "deploy", "rollback"} /\ ended'[1] \in {"none", "deploy", "rollback"}
    BY <1>1, <1>2, <1>8
  <2>2. FixStage' /\ RelinkStage' /\ WebStage' /\ ColdPlugged'
    BY <2>1 DEF FixStage, RelinkStage, WebStage, ColdPlugged
  <2> QED
    BY <1>3, <1>8, <2>2 DEF Stages
<1> QED
  BY <1>1, <1>4, <1>5, <1>6, <1>7, <1>8 DEF Scripts

\* A script that begins has everything to do, and nothing is said of it yet.
LEMMA BeginStages ==
  ASSUME Book, WireTypes, Apart, NEW s \in Scripts, NEW calls, Typed(calls), Run(s, calls),
         s = "refactor" => \E hidden \in Hidings : calls = RefactorCalls(hidden),
         s = "fix" => calls = FixCalls /\ LeafIds("LEAF-1") \in links,
         s = "relink" => calls = RelinkCalls,
         s = "webapi" => calls = WebApiCalls,
         s \in Using => Present(IDS) /\ calls \in Seq(Sparing)
  PROVE  /\ Book' /\ WireTypes' /\ Apart' /\ Spared'
         /\ Stages' /\ RefactorRestores' /\ ColdPlugged'
<1>1. /\ Book' /\ WireTypes' /\ script' = s /\ todo' = calls /\ ended' = <<"none", "done">>
      /\ links' = links /\ nodes' = nodes
      /\ mishaps' = (IF Second \subseteq Found THEN {"twin"} ELSE {})
  BY RunTyped DEF project
<1>2. RefactorRestores' /\ ColdPlugged'
  BY <1>1 DEF RefactorRestores, ColdPlugged
<1>3. RefactorStage'
  <2> SUFFICES ASSUME s = "refactor", "twin" \notin mishaps' PROVE Untapping'
    BY <1>1 DEF RefactorStage, AtRefactor
  <2>1. Hidings = {{}}
    BY <1>1 DEF Hidings
  <2>2. todo' = RefactorCalls({})
    BY <1>1, <2>1
  <2>3. todo' = <<Untap>> \o DropHubs
    BY <2>2, RefactorList DEF WireTypes
  <2>4. Untap' = Untap /\ DropHubs' = DropHubs
    BY <1>1 DEF Untap, Touching, DropHubs, DropHub2, DropHub2b, Drop, IfFound, Present
  <2> QED
    BY <2>3, <2>4 DEF Untapping
<1>4. Held'
  BY <1>1 DEF Held
<1>5. FixStage' /\ RelinkStage' /\ WebStage'
  BY <1>1, <1>4 DEF FixStage, AtFix, Fixing1, RelinkStage, WebStage, AtWeb
<1>6. Spared'
  BY <1>1 DEF Spared, Present
<1>7. Apart'
  BY <1>1 DEF Apart
<1> QED
  BY <1>1, <1>2, <1>3, <1>5, <1>6, <1>7 DEF Stages

LEMMA WiredParts ==
  /\ Wired => Book /\ WireTypes /\ Apart /\ Spared /\ Stages /\ RefactorRestores /\ ColdPlugged
  /\ Book /\ WireTypes /\ Apart /\ Spared /\ Stages /\ RefactorRestores /\ ColdPlugged => Wired
BY DEF Wired, TypeOK, Book, WireTypes, Spared, Using

LEMMA WiredInit == Init => Wired
<1> SUFFICES ASSUME Init PROVE Wired
  OBVIOUS
<1>1. /\ script = "none" /\ todo = <<>> /\ ended = <<"none", "done">>
      /\ nodes = [n \in Tap |-> "absent"] /\ links = Directs /\ original = Leaves
      /\ carrier = {} /\ mishaps = {} /\ cuts = 0
  BY DEF Init, Directs
<1>2. links \subseteq Links
  BY <1>1, LinkFacts DEF Directs
<1>3. cuts \in 0..MaxCuts
  BY <1>1, TopologyAssumption
<1>4. Book /\ WireTypes
  BY <1>1, <1>2, <1>3 DEF Book, Listed, Fresh, WireTypes
<1>5. Apart
  <2> SUFFICES ASSUME NEW l \in Leaves, NEW m \in Leaves, l # m
               PROVE  Ends(Direct(l)) \cap Ends(Direct(m)) = {}
    BY <1>1 DEF Apart, Directs
  <2> QED
    BY EndsFacts, NameFacts
<1>6. Stages /\ Spared
  BY <1>1 DEF Stages, RefactorStage, FixStage, RelinkStage, WebStage, Spared, Using
<1>7. RefactorRestores /\ ColdPlugged
  BY <1>1 DEF RefactorRestores, ColdPlugged
<1> QED
  BY <1>4, <1>5, <1>6, <1>7, WiredParts

LEMMA WiredNext == Wired /\ [Next]_vars => Wired'
<1> SUFFICES ASSUME Wired, [Next]_vars PROVE Wired'
  OBVIOUS
<1> DEFINE Goal == /\ Book' /\ WireTypes' /\ Apart' /\ Spared'
                   /\ Stages' /\ RefactorRestores' /\ ColdPlugged'
<1>1. Book /\ WireTypes /\ Apart /\ Spared /\ Stages /\ RefactorRestores /\ ColdPlugged
  BY WiredParts
<1>2. links \subseteq Links
  BY <1>1 DEF WireTypes
<1>3. SUFFICES Goal
  BY DEF Wired, TypeOK, Book, WireTypes, Spared, Using
<1>4. CASE Deploy
  <2>1. PICK second \in Second : Run("deploy", DeployCalls(second))
    BY <1>4, NameFacts DEF Deploy
  <2> QED
    BY <1>1, <2>1, BeginStages, DeployTyped DEF Scripts, Using
<1>5. CASE Rollback
  <2>1. PICK hidden : Run("rollback", RollbackCalls(hidden))
    BY <1>5 DEF Rollback
  <2> QED
    BY <1>1, <1>2, <2>1, BeginStages, RollbackTyped DEF Scripts, Using
<1>6. CASE Refactor
  <2>1. PICK hidden \in Hidings : Run("refactor", RefactorCalls(hidden))
    BY <1>6 DEF Refactor
  <2>2. Present(IDS) /\ Typed(RefactorCalls(hidden)) /\ RefactorCalls(hidden) \in Seq(Sparing)
    BY <1>2, <1>6, RefactorTyped DEF Refactor
  <2> QED
    BY <1>1, <2>1, <2>2, BeginStages DEF Scripts
<1>7. CASE Fix
  <2>1. Present(IDS)
    BY <1>7 DEF Fix
  <2>2. CASE LeafIds("LEAF-1") \in links /\ Run("fix", FixCalls)
    <3>1. Typed(FixCalls) /\ FixCalls \in Seq(Sparing)
      BY FixLists, SparingLists DEF Typed
    <3> QED
      BY <1>1, <2>1, <2>2, <3>1, BeginStages DEF Scripts
  <2>3. CASE Run("relink", RelinkCalls)
    <3>1. Typed(RelinkCalls) /\ RelinkCalls \in Seq(Sparing)
      BY RelinkLists, SparingLists DEF Typed
    <3> QED
      BY <1>1, <2>1, <2>3, <3>1, BeginStages DEF Scripts
  <2> QED
    BY <1>7, <2>2, <2>3 DEF Fix
<1>8. CASE WebApi
  <2>1. Present(IDS) /\ Run("webapi", WebApiCalls)
    BY <1>8 DEF WebApi
  <2>2. Typed(WebApiCalls) /\ WebApiCalls \in Seq(Sparing)
    BY WebLists, SparingLists DEF Typed
  <2> QED
    BY <1>1, <2>1, <2>2, BeginStages DEF Scripts
<1>9. CASE Call
  BY <1>1, <1>9, CallKeeps, CallStages, ApartStep, SparedStep DEF CallGoal
<1>10. CASE Cut
  <2>1. Book' /\ WireTypes' /\ script' = "none" /\ ended' = <<script, "cut">> /\ links' = links
    BY <1>1, <1>10, CutTyped
  <2>2. Stages' /\ Spared'
    BY <2>1 DEF Stages, RefactorStage, FixStage, RelinkStage, WebStage, Spared, Using
  <2>3. RefactorRestores' /\ ColdPlugged'
    BY <2>1 DEF RefactorRestores, ColdPlugged
  <2>4. Apart'
    BY <1>1, <2>1 DEF Apart
  <2> QED
    BY <2>1, <2>2, <2>3, <2>4
<1>11. CASE UNCHANGED vars
  <2>1. /\ script' = script /\ todo' = todo /\ ended' = ended /\ nodes' = nodes
        /\ links' = links /\ original' = original /\ carrier' = carrier
        /\ mishaps' = mishaps /\ cuts' = cuts
    BY <1>11 DEF vars, project
  <2>2. Book' /\ WireTypes'
    BY <1>1, <2>1 DEF Book, Listed, Fresh, WireTypes, Plugged
  <2>3. RefactorRestores' /\ ColdPlugged'
    BY <1>1, <2>1 DEF RefactorRestores, ColdPlugged, Present, Plugged
  <2>4. DropHubs' = DropHubs /\ DropHub2' = DropHub2 /\ DropHub2b' = DropHub2b /\ Untap' = Untap
    BY <2>1 DEF Untap, Touching, DropHubs, DropHub2, DropHub2b, Drop, IfFound, Present
  <2>5. RefactorStage'
    BY <1>1, <2>1, <2>4
    DEF Stages, RefactorStage, AtRefactor, Untapping, Dropping, Deleting1, Deleting2, Deleting3,
        Restoring, Wiring1, Wiring2, Starting, Bare, NoHubs, Present, Directs, Final
  <2>6. FixStage' /\ RelinkStage' /\ WebStage'
    BY <1>1, <2>1
    DEF Stages, FixStage, RelinkStage, WebStage, AtFix, AtWeb, Fixing1, Fixing2, Fixing3, Fixing4,
        Stance, Held, Plugged
  <2>7. Apart' /\ Spared'
    BY <1>1, <2>1 DEF Apart, Spared, Present
  <2> QED
    BY <2>2, <2>3, <2>5, <2>6, <2>7 DEF Stages
<1> QED
  BY <1>4, <1>5, <1>6, <1>7, <1>8, <1>9, <1>10, <1>11 DEF Next

LEMMA AlwaysWired == Spec => []Wired
BY WiredInit, WiredNext, PTL DEF Spec

-----------------------------------------------------------------------------
(* The theorems.                                                           *)

\* The type invariant of the wiring: whatever order the scripts of dc-fabric-setup
\* are run in and wherever they are cut, a list of calls is running or none is,
\* an adapter of the IDS has a carrier only when a link is on it, and 12, 13 and
\* 14 never lose the IDS they found.
THEOREM TypeCorrect == Spec => []TypeOK
<1>1. Wired => TypeOK
  BY DEF Wired
<1> QED
  BY <1>1, AlwaysWired, PTL

\* 12-refactor-ids-direct.py repairs the wiring from whatever the other scripts
\* left half done: no link it makes is refused by GNS3 for a port in use, and
\* it ends with the hubs gone and its four links and no other; unless it found
\* two TAP-Hub2, of which it knows but one.
THEOREM RefactorAlwaysRestores == Spec => []RefactorRestores
<1>1. Wired => RefactorRestores
  BY DEF Wired
<1> QED
  BY <1>1, AlwaysWired, PTL

\* 13-fix-ids-full.py and 14-ids-webapi.py end with the IDS started, and with a
\* carrier on every adapter that has a link when GNS3 did stop it for them.  When
\* it did not (stop_node swallows the error), or when 13 found no link of LEAF-1,
\* 13 ends as if all were well with adapter 0 blind.  13 is never refused the link
\* it makes again, and 14 only when no adapter is left.
THEOREM AlwaysColdPlugged == Spec => []ColdPlugged
<1>1. Wired => ColdPlugged
  BY DEF Wired
<1> QED
  BY <1>1, AlwaysWired, PTL
=============================================================================
