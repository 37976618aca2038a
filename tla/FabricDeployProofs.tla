------------------------- MODULE FabricDeployProofs -------------------------
(***************************************************************************)
(* Proofs about FabricDeploy for every choice of hosts that are looked at  *)
(* and of hosts with sudo, and for every number of reboots and of runs cut *)
(* short.                                                                  *)
(***************************************************************************)
EXTENDS FabricDeploy, SequenceTheorems, TLAPS

-----------------------------------------------------------------------------
(* Where the commands of a node stand in the script.                       *)

\* The commands ops of node n stand in s after its first k steps, in order and
\* nowhere else; or none of them stands in it.
Marks(s, n, ops, k) ==
  /\ k \in Nat /\ k + Len(ops) <= Len(s)
  /\ \A j \in 1..Len(s), p \in 1..Len(ops) : s[j] = <<n, ops[p]>> <=> j = k + p
Free(s, n, ops) ==
  \A j \in 1..Len(s), p \in 1..Len(ops) : s[j] # <<n, ops[p]>>
Words == {"link", "ping", "verify", "look", "address", "kernel", "network",
          "fix-routes", "rc.local", "save", "net.start", "local", "apk",
          "flush", "drop", "rules", "iptables-save", "iptables.start"}
Steps(s) == s \in Seq((Sonic \cup Hosts) \X Words)

LEMMA Catenation ==
  ASSUME NEW s, NEW t, Steps(s), Steps(t)
  PROVE  /\ Steps(s \o t) /\ Len(s) \in Nat /\ Len(t) \in Nat
         /\ Len(s \o t) = Len(s) + Len(t)
         /\ \A j \in 1..Len(s) : (s \o t)[j] = s[j]
         /\ \A j \in 1..Len(t) : (s \o t)[Len(s) + j] = t[j]
         /\ \A j \in 1..(Len(s) + Len(t)) :
              j \in 1..Len(s) \/ \E i \in 1..Len(t) : j = Len(s) + i
<1>1. /\ Steps(s \o t) /\ Len(s) \in Nat /\ Len(t) \in Nat
      /\ Len(s \o t) = Len(s) + Len(t)
      /\ \A j \in 1..(Len(s) + Len(t)) :
           (s \o t)[j] = IF j <= Len(s) THEN s[j] ELSE t[j - Len(s)]
  BY ConcatProperties, LenProperties DEF Steps
<1>2. \A j \in 1..Len(s) : (s \o t)[j] = s[j]
  BY <1>1
<1>3. ASSUME NEW j \in 1..Len(t) PROVE (s \o t)[Len(s) + j] = t[j]
  <2>1. /\ Len(s) + j \in 1..(Len(s) + Len(t)) /\ ~(Len(s) + j <= Len(s))
        /\ Len(s) + j - Len(s) = j
    BY <1>1
  <2> QED
    BY <1>1, <2>1
<1>4. ASSUME NEW j \in 1..(Len(s) + Len(t)), j \notin 1..Len(s)
      PROVE  \E i \in 1..Len(t) : j = Len(s) + i
  <2>1. j - Len(s) \in 1..Len(t) /\ j = Len(s) + (j - Len(s))
    BY <1>1, <1>4
  <2> QED
    BY <2>1
<1> QED
  BY <1>1, <1>2, <1>3, <1>4

LEMMA FreeBoth ==
  ASSUME NEW s, NEW t, Steps(s), Steps(t), NEW n, NEW ops, Free(s, n, ops), Free(t, n, ops)
  PROVE  Free(s \o t, n, ops)
<1>1. SUFFICES ASSUME NEW j \in 1..Len(s \o t), NEW p \in 1..Len(ops)
               PROVE  (s \o t)[j] # <<n, ops[p]>>
  BY DEF Free
<1>2. j \in 1..Len(s) \/ \E i \in 1..Len(t) : j = Len(s) + i
  <2>1. Len(s \o t) = Len(s) + Len(t)
    BY Catenation
  <2> QED
    BY <2>1, Catenation
<1>3. CASE j \in 1..Len(s)
  BY <1>3, Catenation DEF Free
<1>4. ASSUME NEW i \in 1..Len(t), j = Len(s) + i PROVE (s \o t)[j] # <<n, ops[p]>>
  <2>1. (s \o t)[j] = t[i]
    BY <1>4, Catenation
  <2> QED
    BY <2>1 DEF Free
<1> QED
  BY <1>2, <1>3, <1>4

LEMMA MarksFirst ==
  ASSUME NEW s, NEW t, Steps(s), Steps(t), NEW n, NEW ops, Len(ops) \in Nat,
         NEW k, Marks(s, n, ops, k), Free(t, n, ops)
  PROVE  Marks(s \o t, n, ops, k)
<1>1. /\ k \in Nat /\ k + Len(ops) <= Len(s) /\ Len(s) \in Nat /\ Len(t) \in Nat
      /\ Len(s \o t) = Len(s) + Len(t)
  BY Catenation DEF Marks
<1>2. ASSUME NEW j \in 1..Len(s \o t), NEW p \in 1..Len(ops)
      PROVE  (s \o t)[j] = <<n, ops[p]>> <=> j = k + p
  <2>1. CASE j \in 1..Len(s)
    BY <2>1, Catenation DEF Marks
  <2>2. ASSUME NEW i \in 1..Len(t), j = Len(s) + i
        PROVE  (s \o t)[j] # <<n, ops[p]>> /\ j # k + p
    <3>1. (s \o t)[j] = t[i]
      BY <2>2, Catenation
    <3>2. j # k + p
      BY <1>1, <2>2
    <3> QED
      BY <3>1, <3>2 DEF Free
  <2> QED
    BY <1>1, <2>1, <2>2, Catenation
<1> QED
  BY <1>1, <1>2 DEF Marks

LEMMA MarksSecond ==
  ASSUME NEW s, NEW t, Steps(s), Steps(t), NEW n, NEW ops, Len(ops) \in Nat,
         NEW k, Marks(t, n, ops, k), Free(s, n, ops)
  PROVE  Marks(s \o t, n, ops, Len(s) + k)
<1>1. /\ k \in Nat /\ k + Len(ops) <= Len(t) /\ Len(s) \in Nat /\ Len(t) \in Nat
      /\ Len(s \o t) = Len(s) + Len(t)
  BY Catenation DEF Marks
<1>2. ASSUME NEW j \in 1..Len(s \o t), NEW p \in 1..Len(ops)
      PROVE  (s \o t)[j] = <<n, ops[p]>> <=> j = Len(s) + k + p
  <2>1. CASE j \in 1..Len(s)
    <3>1. (s \o t)[j] = s[j] /\ j # Len(s) + k + p
      <4>1. (s \o t)[j] = s[j]
        BY <2>1, Catenation
      <4> QED
        BY <1>1, <2>1, <4>1
    <3> QED
      BY <2>1, <3>1 DEF Free
  <2>2. ASSUME NEW i \in 1..Len(t), j = Len(s) + i
        PROVE  (s \o t)[j] = <<n, ops[p]>> <=> j = Len(s) + k + p
    <3>1. (s \o t)[j] = t[i]
      BY <2>2, Catenation
    <3>2. t[i] = <<n, ops[p]>> <=> i = k + p
      BY DEF Marks
    <3>3. i = k + p <=> j = Len(s) + k + p
      BY <1>1, <2>2
    <3> QED
      BY <3>1, <3>2, <3>3
  <2>3. j \in 1..Len(s) \/ \E i \in 1..Len(t) : j = Len(s) + i
    <3>1. j \in 1..Len(s) \/ j - Len(s) \in 1..Len(t)
      BY <1>1
    <3>2. j = Len(s) + (j - Len(s))
      BY <1>1
    <3> QED
      BY <3>1, <3>2, Zenon
  <2>4. CASE \E i \in 1..Len(t) : j = Len(s) + i
    <3>1. PICK i \in 1..Len(t) : j = Len(s) + i
      BY <2>4
    <3> QED
      BY <2>2, <3>1, Zenon
  <2> QED
    BY <2>1, <2>3, <2>4, Zenon
<1>3. Len(s) + k \in Nat /\ Len(s) + k + Len(ops) <= Len(s \o t)
  BY <1>1
<1> QED
  BY <1>2, <1>3 DEF Marks

\* What is typed at one node.
LEMMA OnSteps ==
  ASSUME NEW m, NEW cmds \in Seq(Words)
  PROVE  /\ Steps(On(m, cmds))
         /\ m \in Sonic \cup Hosts =>
              /\ Len(On(m, cmds)) = Len(cmds)
              /\ \A j \in 1..Len(cmds) : On(m, cmds)[j] = <<m, cmds[j]>>
         /\ m \notin Sonic \cup Hosts => On(m, cmds) = <<>>
<1>1. CASE m \in Sonic \cup Hosts
  <2>1. /\ DOMAIN cmds = 1..Len(cmds) /\ Len(cmds) \in Nat
        /\ \A j \in 1..Len(cmds) : cmds[j] \in Words
    BY LenProperties, ElementOfSeq
  <2> DEFINE s == [i \in 1..Len(cmds) |-> <<m, cmds[i]>>]
  <2>2. On(m, cmds) = s
    BY <1>1, <2>1 DEF On
  <2>3. s \in Seq((Sonic \cup Hosts) \X Words)
    <3>1. \A i \in 1..Len(cmds) : <<m, cmds[i]>> \in (Sonic \cup Hosts) \X Words
      BY <1>1, <2>1
    <3> QED
      BY <2>1, <3>1, IsASeq
  <2>4. Len(s) = Len(cmds)
    BY <2>1, <2>3, LenProperties
  <2> QED
    BY <1>1, <2>2, <2>3, <2>4 DEF Steps
<1>2. CASE m \notin Sonic \cup Hosts
  BY <1>2, EmptySeq DEF On, Steps
<1> QED
  BY <1>1, <1>2

Distinct(ops) == \A p, q \in 1..Len(ops) : ops[p] = ops[q] => p = q
Apart(ops, cmds) == \A p \in 1..Len(ops), q \in 1..Len(cmds) : ops[p] # cmds[q]

LEMMA OnMarks ==
  ASSUME NEW n \in Sonic \cup Hosts, NEW ops \in Seq(Words), Distinct(ops)
  PROVE  Marks(On(n, ops), n, ops, 0)
<1>1. /\ Len(On(n, ops)) = Len(ops) /\ Len(ops) \in Nat
      /\ \A j \in 1..Len(ops) : On(n, ops)[j] = <<n, ops[j]>>
  BY OnSteps, LenProperties
<1>2. \A j, p \in 1..Len(ops) : <<n, ops[j]>> = <<n, ops[p]>> <=> j = p
  BY DEF Distinct
<1>3. \A p \in 1..Len(ops) : 0 + p = p
  BY <1>1
<1>4. 0 \in Nat /\ 0 + Len(ops) <= Len(ops)
  BY <1>1
<1> HIDE DEF On
<1> QED
  BY <1>1, <1>2, <1>3, <1>4 DEF Marks

LEMMA OnFree ==
  ASSUME NEW m, NEW cmds \in Seq(Words), NEW n, NEW ops, m # n \/ Apart(ops, cmds)
  PROVE  Free(On(m, cmds), n, ops)
<1>1. CASE m \in Sonic \cup Hosts
  BY <1>1, OnSteps DEF Free, Apart
<1>2. CASE m \notin Sonic \cup Hosts
  <2>1. Len(<<>>) = 0
    OBVIOUS
  <2> QED
    BY <1>2, <2>1, OnSteps DEF Free
<1> QED
  BY <1>1, <1>2

HostNames == {"WEB1", "DB", "WEB2", "APP"}

LEMMA HostsSteps ==
  ASSUME NEW cmds \in Seq(Words)
  PROVE  /\ Steps(ForHosts(cmds))
         /\ \A n, ops : n \notin HostNames \/ Apart(ops, cmds)
                          => Free(ForHosts(cmds), n, ops)
<1> DEFINE W1 == On("WEB1", cmds)
           DB == On("DB", cmds)
           W2 == On("WEB2", cmds)
           AP == On("APP", cmds)
<1>1. Steps(W1) /\ Steps(DB) /\ Steps(W2) /\ Steps(AP)
  BY OnSteps
<1>2. \A n, ops : n \notin HostNames \/ Apart(ops, cmds) =>
        Free(W1, n, ops) /\ Free(DB, n, ops) /\ Free(W2, n, ops) /\ Free(AP, n, ops)
  <2>1. SUFFICES ASSUME NEW n, NEW ops, n \notin HostNames \/ Apart(ops, cmds)
                 PROVE  Free(W1, n, ops) /\ Free(DB, n, ops) /\ Free(W2, n, ops) /\ Free(AP, n, ops)
    OBVIOUS
  <2>2. ASSUME NEW m \in HostNames PROVE Free(On(m, cmds), n, ops)
    BY <2>1, OnFree
  <2> QED
    BY <2>2 DEF HostNames
<1>3. ForHosts(cmds) = ((W1 \o DB) \o W2) \o AP
  BY DEF ForHosts
<1> HIDE DEF W1, DB, W2, AP
<1>4. Steps(W1 \o DB) /\ Steps((W1 \o DB) \o W2)
  BY <1>1, Catenation
<1>5. Steps(((W1 \o DB) \o W2) \o AP)
  BY <1>1, <1>4, Catenation
<1>6. ASSUME NEW n, NEW ops, n \notin HostNames \/ Apart(ops, cmds)
      PROVE  Free(((W1 \o DB) \o W2) \o AP, n, ops)
  <2>1. Free(W1, n, ops) /\ Free(DB, n, ops) /\ Free(W2, n, ops) /\ Free(AP, n, ops)
    BY <1>2, <1>6
  <2>2. Free(W1 \o DB, n, ops)
    BY <1>1, <2>1, FreeBoth
  <2>3. Free((W1 \o DB) \o W2, n, ops)
    BY <1>1, <1>4, <2>1, <2>2, FreeBoth
  <2> QED
    BY <1>1, <1>4, <2>1, <2>3, FreeBoth
<1> QED
  BY <1>3, <1>5, <1>6

LEMMA HostsMark ==
  ASSUME NEW h \in Hosts, NEW ops \in Seq(Words), Distinct(ops)
  PROVE  \E k : Marks(ForHosts(ops), h, ops, k)
<1> DEFINE W1 == On("WEB1", ops)
           DB == On("DB", ops)
           W2 == On("WEB2", ops)
           AP == On("APP", ops)
<1>1. Steps(W1) /\ Steps(DB) /\ Steps(W2) /\ Steps(AP) /\ Len(ops) \in Nat
  BY OnSteps, LenProperties
<1>2. /\ h # "WEB1" => Free(W1, h, ops)
      /\ h # "DB"   => Free(DB, h, ops)
      /\ h # "WEB2" => Free(W2, h, ops)
      /\ h # "APP"  => Free(AP, h, ops)
  BY OnFree
<1>3. /\ h = "WEB1" => Marks(W1, h, ops, 0)
      /\ h = "DB"   => Marks(DB, h, ops, 0)
      /\ h = "WEB2" => Marks(W2, h, ops, 0)
      /\ h = "APP"  => Marks(AP, h, ops, 0)
  BY OnMarks
<1>4. ForHosts(ops) = ((W1 \o DB) \o W2) \o AP
  BY DEF ForHosts
<1>5. h \in {"WEB1", "DB", "WEB2", "APP"}
  BY DeployAssumption
<1> HIDE DEF W1, DB, W2, AP
<1>6. Steps(W1 \o DB) /\ Steps((W1 \o DB) \o W2)
  BY <1>1, Catenation
<1>7. CASE h = "WEB1" \/ h = "DB"
  <2>1. PICK k : Marks(W1 \o DB, h, ops, k)
    BY <1>1, <1>2, <1>3, <1>7, MarksFirst, MarksSecond
  <2>2. Marks((W1 \o DB) \o W2, h, ops, k)
    BY <1>1, <1>2, <1>6, <1>7, <2>1, MarksFirst
  <2>3. Marks(((W1 \o DB) \o W2) \o AP, h, ops, k)
    BY <1>1, <1>2, <1>6, <1>7, <2>2, MarksFirst
  <2> QED
    BY <1>4, <2>3
<1>8. CASE h = "WEB2" \/ h = "APP"
  <2>1. Free(W1 \o DB, h, ops)
    BY <1>1, <1>2, <1>8, FreeBoth
  <2>2. CASE h = "WEB2"
    <3>1. PICK k : Marks((W1 \o DB) \o W2, h, ops, k)
      BY <1>1, <1>3, <1>6, <2>1, <2>2, MarksSecond
    <3>2. Marks(((W1 \o DB) \o W2) \o AP, h, ops, k)
      BY <1>1, <1>2, <1>6, <2>2, <3>1, MarksFirst
    <3> QED
      BY <1>4, <3>2
  <2>3. CASE h = "APP"
    <3>1. Free((W1 \o DB) \o W2, h, ops)
      BY <1>1, <1>2, <1>6, <2>1, <2>3, FreeBoth
    <3>2. \E k : Marks(((W1 \o DB) \o W2) \o AP, h, ops, k)
      BY <1>1, <1>3, <1>6, <2>3, <3>1, MarksSecond
    <3> QED
      BY <1>4, <3>2
  <2> QED
    BY <1>8, <2>2, <2>3
<1> QED
  BY <1>5, <1>7, <1>8

\* The lists of commands name each command once, and each another.
LEMMA Commands ==
  /\ \A ops \in {SpineOps, LeafOps, AddressOps, PackageOps, PolicyOps} :
       ops \in Seq(Words) /\ Distinct(ops)
  /\ Apart(AddressOps, PackageOps) /\ Apart(AddressOps, PolicyOps)
  /\ Apart(PackageOps, AddressOps) /\ Apart(PackageOps, PolicyOps)
  /\ Apart(PolicyOps, AddressOps) /\ Apart(PolicyOps, PackageOps)
<1>1. SpineOps \in Seq(Words) /\ Len(SpineOps) = 6
  BY DEF SpineOps, Words
<1>2. LeafOps \in Seq(Words) /\ Len(LeafOps) = 7
  BY DEF LeafOps, Words
<1>3. AddressOps \in Seq(Words) /\ Len(AddressOps) = 4
  BY DEF AddressOps, Words
<1>4. PackageOps \in Seq(Words) /\ Len(PackageOps) = 1
  BY DEF PackageOps, Words
<1>5. PolicyOps \in Seq(Words) /\ Len(PolicyOps) = 5
  BY DEF PolicyOps, Words
<1>6. /\ Distinct(SpineOps) /\ Distinct(LeafOps) /\ Distinct(AddressOps)
      /\ Distinct(PackageOps) /\ Distinct(PolicyOps)
  BY DEF SpineOps, LeafOps, AddressOps, PackageOps, PolicyOps, Distinct
<1>7. /\ Apart(AddressOps, PackageOps) /\ Apart(AddressOps, PolicyOps)
      /\ Apart(PackageOps, AddressOps) /\ Apart(PackageOps, PolicyOps)
      /\ Apart(PolicyOps, AddressOps) /\ Apart(PolicyOps, PackageOps)
  BY DEF AddressOps, PackageOps, PolicyOps, Apart
<1> QED
  BY <1>1, <1>2, <1>3, <1>4, <1>5, <1>6, <1>7

-----------------------------------------------------------------------------
(* The script.                                                             *)

\* Links are made for leaves, packages are installed on hosts, and only leaves
\* and hosts are looked at.
Rightful(s) ==
  \A j \in 1..Len(s) : /\ s[j][2] = "link" => s[j][1] \in Leaves
                       /\ s[j][2] = "apk"  => s[j][1] \in Hosts
                       /\ s[j][2] = "look" => s[j][1] \in Leaves \cup Hosts

LEMMA RightfulBoth ==
  ASSUME NEW s, NEW t, Steps(s), Steps(t), Rightful(s), Rightful(t)
  PROVE  Rightful(s \o t)
<1> DEFINE Fine(x) == /\ x[2] = "link" => x[1] \in Leaves
                      /\ x[2] = "apk"  => x[1] \in Hosts
                      /\ x[2] = "look" => x[1] \in Leaves \cup Hosts
<1>1. /\ \A j \in 1..Len(s) : Fine(s[j])
      /\ \A j \in 1..Len(t) : Fine(t[j])
  BY DEF Rightful
<1> HIDE DEF Fine
<1>2. ASSUME NEW j \in 1..Len(s \o t) PROVE Fine((s \o t)[j])
  <2>1. j \in 1..(Len(s) + Len(t))
    <3>1. Len(s \o t) = Len(s) + Len(t)
      BY Catenation
    <3> QED
      BY <3>1
  <2>2. j \in 1..Len(s) \/ \E i \in 1..Len(t) : j = Len(s) + i
    BY <2>1, Catenation
  <2>3. CASE j \in 1..Len(s)
    <3>1. (s \o t)[j] = s[j]
      BY <2>3, Catenation
    <3> QED
      BY <1>1, <2>3, <3>1
  <2>4. ASSUME NEW i \in 1..Len(t), j = Len(s) + i PROVE Fine((s \o t)[j])
    <3>1. (s \o t)[j] = t[i]
      BY <2>4, Catenation
    <3> QED
      BY <1>1, <3>1
  <2> QED
    BY <2>2, <2>3, <2>4
<1> QED
  BY <1>2 DEF Rightful, Fine

LEMMA OnRightful ==
  ASSUME NEW m, NEW cmds \in Seq(Words),
         \A p \in 1..Len(cmds) : /\ cmds[p] # "link"
                                 /\ cmds[p] = "apk"  => m \in Hosts
                                 /\ cmds[p] = "look" => m \in Leaves \cup Hosts
  PROVE  Rightful(On(m, cmds))
<1>1. CASE m \in Sonic \cup Hosts
  BY <1>1, OnSteps DEF Rightful
<1>2. CASE m \notin Sonic \cup Hosts
  <2>1. Len(<<>>) = 0
    OBVIOUS
  <2> QED
    BY <1>2, <2>1, OnSteps DEF Rightful
<1> QED
  BY <1>1, <1>2

LEMMA HostsRightful ==
  ASSUME NEW cmds \in Seq(Words), \A p \in 1..Len(cmds) : cmds[p] # "link"
  PROVE  Rightful(ForHosts(cmds))
<1>1. ASSUME NEW m \in HostNames PROVE Rightful(On(m, cmds)) /\ Steps(On(m, cmds))
  <2>1. CASE m \in Hosts
    BY <2>1, OnRightful, OnSteps
  <2>2. CASE m \notin Hosts
    <3>1. m \notin Sonic \cup Hosts
      BY <2>2 DEF HostNames, Sonic, Spine, Leaves
    <3>2. On(m, cmds) = <<>> /\ Len(<<>>) = 0
      BY <3>1, OnSteps
    <3> QED
      BY <3>2, OnSteps DEF Rightful
  <2> QED
    BY <2>1, <2>2
<1> DEFINE W1 == On("WEB1", cmds)
           DB == On("DB", cmds)
           W2 == On("WEB2", cmds)
           AP == On("APP", cmds)
<1>2. /\ Rightful(W1) /\ Steps(W1) /\ Rightful(DB) /\ Steps(DB)
      /\ Rightful(W2) /\ Steps(W2) /\ Rightful(AP) /\ Steps(AP)
  BY <1>1 DEF HostNames
<1>3. ForHosts(cmds) = ((W1 \o DB) \o W2) \o AP
  BY DEF ForHosts
<1> HIDE DEF W1, DB, W2, AP
<1>4. Steps(W1 \o DB) /\ Rightful(W1 \o DB)
  BY <1>2, Catenation, RightfulBoth
<1>5. Steps((W1 \o DB) \o W2) /\ Rightful((W1 \o DB) \o W2)
  BY <1>2, <1>4, Catenation, RightfulBoth
<1>6. Rightful(((W1 \o DB) \o W2) \o AP)
  BY <1>2, <1>5, RightfulBoth
<1> QED
  BY <1>3, <1>6

\* The parts of the script, one after another.
Part1 == Precheck
Part2 == Part1 \o On(Spine, SpineOps)
Part3 == Part2 \o On("LEAF-1", LeafOps)
Part4 == Part3 \o On("LEAF-2", LeafOps)
Part5 == Part4 \o <<<<Spine, "ping">>>>
Part6 == Part5 \o ForHosts(AddressOps)
Part7 == Part6 \o ForHosts(PackageOps)
Part8 == Part7 \o ForHosts(PolicyOps)
Part9 == Part8 \o <<<<Spine, "verify">>>>

LEMMA Parts ==
  /\ Script = Part9
  /\ Steps(Part1) /\ Steps(Part2) /\ Steps(Part3) /\ Steps(Part4) /\ Steps(Part5)
  /\ Steps(Part6) /\ Steps(Part7) /\ Steps(Part8) /\ Steps(Part9)
  /\ Steps(<<<<Spine, "ping">>>>) /\ Steps(<<<<Spine, "verify">>>>)
  /\ Len(Part1) = 2
<1>1. Script = Part9
  BY DEF Script, Part1, Part2, Part3, Part4, Part5, Part6, Part7, Part8, Part9
<1>2. Steps(<<<<Spine, "ping">>>>) /\ Steps(<<<<Spine, "verify">>>>)
  <2>1. /\ <<Spine, "ping">> \in (Sonic \cup Hosts) \X Words
        /\ <<Spine, "verify">> \in (Sonic \cup Hosts) \X Words
    BY DEF Sonic, Words
  <2> QED
    BY <2>1 DEF Steps
<1>3. Steps(Part1) /\ Len(Part1) = 2
  <2>1. /\ <<"LEAF-1", "link">> \in (Sonic \cup Hosts) \X Words
        /\ <<"LEAF-2", "link">> \in (Sonic \cup Hosts) \X Words
    BY DEF Sonic, Leaves, Words
  <2> QED
    BY <2>1 DEF Steps, Part1, Precheck
<1>4. /\ Steps(On(Spine, SpineOps))
      /\ Steps(On("LEAF-1", LeafOps)) /\ Steps(On("LEAF-2", LeafOps))
  BY Commands, OnSteps
<1>5. /\ Steps(ForHosts(AddressOps)) /\ Steps(ForHosts(PackageOps))
      /\ Steps(ForHosts(PolicyOps))
  BY Commands, HostsSteps
<1>6. Steps(Part2)
  BY <1>3, <1>4, Catenation DEF Part2
<1>7. Steps(Part3)
  BY <1>4, <1>6, Catenation DEF Part3
<1>8. Steps(Part4)
  BY <1>4, <1>7, Catenation DEF Part4
<1>9. Steps(Part5)
  BY <1>2, <1>8, Catenation DEF Part5
<1>10. Steps(Part6)
  BY <1>5, <1>9, Catenation DEF Part6
<1>11. Steps(Part7)
  BY <1>5, <1>10, Catenation DEF Part7
<1>12. Steps(Part8)
  BY <1>5, <1>11, Catenation DEF Part8
<1>13. Steps(Part9)
  BY <1>2, <1>12, Catenation DEF Part9
<1> QED
  BY <1>1, <1>2, <1>3, <1>6, <1>7, <1>8, <1>9, <1>10, <1>11, <1>12, <1>13

LEMMA ScriptRightful == Rightful(Script)
<1>1. /\ Rightful(<<<<Spine, "ping">>>>) /\ Rightful(<<<<Spine, "verify">>>>)
      /\ Rightful(Part1)
  BY DEF Rightful, Part1, Precheck, Leaves
<1>2. /\ Rightful(On(Spine, SpineOps))
      /\ Rightful(On("LEAF-1", LeafOps)) /\ Rightful(On("LEAF-2", LeafOps))
  <2>1. \A p \in 1..Len(SpineOps) : SpineOps[p] \notin {"link", "apk", "look"}
    BY DEF SpineOps
  <2>2. \A p \in 1..Len(LeafOps) : LeafOps[p] \notin {"link", "apk"}
    BY DEF LeafOps
  <2>3. "LEAF-1" \in Leaves /\ "LEAF-2" \in Leaves
    BY DEF Leaves
  <2> QED
    BY <2>1, <2>2, <2>3, Commands, OnRightful
<1>3. /\ Rightful(ForHosts(AddressOps)) /\ Rightful(ForHosts(PackageOps))
      /\ Rightful(ForHosts(PolicyOps))
  <2>1. /\ \A p \in 1..Len(AddressOps) : AddressOps[p] # "link"
        /\ \A p \in 1..Len(PackageOps) : PackageOps[p] # "link"
        /\ \A p \in 1..Len(PolicyOps) : PolicyOps[p] # "link"
    BY DEF AddressOps, PackageOps, PolicyOps
  <2> QED
    BY <2>1, Commands, HostsRightful
<1>4. /\ Steps(On(Spine, SpineOps))
      /\ Steps(On("LEAF-1", LeafOps)) /\ Steps(On("LEAF-2", LeafOps))
      /\ Steps(ForHosts(AddressOps)) /\ Steps(ForHosts(PackageOps))
      /\ Steps(ForHosts(PolicyOps))
  BY Commands, OnSteps, HostsSteps
<1>5. Rightful(Part2)
  BY <1>1, <1>2, <1>4, Parts, RightfulBoth DEF Part2
<1>6. Rightful(Part3)
  BY <1>2, <1>4, <1>5, Parts, RightfulBoth DEF Part3
<1>7. Rightful(Part4)
  BY <1>2, <1>4, <1>6, Parts, RightfulBoth DEF Part4
<1>8. Rightful(Part5)
  BY <1>1, <1>7, Parts, RightfulBoth DEF Part5
<1>9. Rightful(Part6)
  BY <1>3, <1>4, <1>8, Parts, RightfulBoth DEF Part6
<1>10. Rightful(Part7)
  BY <1>3, <1>4, <1>9, Parts, RightfulBoth DEF Part7
<1>11. Rightful(Part8)
  BY <1>3, <1>4, <1>10, Parts, RightfulBoth DEF Part8
<1>12. Rightful(Part9)
  BY <1>1, <1>11, Parts, RightfulBoth DEF Part9
<1> QED
  BY <1>12, Parts

\* A switch is configured once, a host addressed, given packages and closed.
SwitchOps(n) == IF n = Spine THEN SpineOps ELSE LeafOps

LEMMA FreeRest ==
  ASSUME NEW n, NEW ops \in {SpineOps, LeafOps, AddressOps, PackageOps, PolicyOps}
  PROVE  /\ Free(Part1, n, ops)
         /\ Free(<<<<Spine, "ping">>>>, n, ops) /\ Free(<<<<Spine, "verify">>>>, n, ops)
<1>1. \A p \in 1..Len(ops) : ops[p] \notin {"link", "ping", "verify"}
  BY DEF SpineOps, LeafOps, AddressOps, PackageOps, PolicyOps
<1> QED
  BY <1>1 DEF Free, Part1, Precheck

LEMMA SwitchMark ==
  ASSUME NEW n \in Sonic
  PROVE  \E k : k >= 2 /\ Marks(Script, n, SwitchOps(n), k)
<1> DEFINE ops == SwitchOps(n)
           A == On(Spine, SpineOps)
           B == On("LEAF-1", LeafOps)
           C == On("LEAF-2", LeafOps)
<1>1. /\ Steps(A) /\ Steps(B) /\ Steps(C)
      /\ ops \in Seq(Words) /\ Len(ops) \in Nat /\ Distinct(ops)
  BY Commands, OnSteps, LenProperties DEF SwitchOps
<1>2. /\ n \in {Spine, "LEAF-1", "LEAF-2"} /\ Spine \notin {"LEAF-1", "LEAF-2"}
      /\ n \notin HostNames
  BY DEF Sonic, Leaves, Spine, HostNames
<1>3. /\ Free(Part1, n, ops)
      /\ Free(<<<<Spine, "ping">>>>, n, ops) /\ Free(<<<<Spine, "verify">>>>, n, ops)
  BY FreeRest DEF SwitchOps
<1>4. /\ n # Spine => Free(A, n, ops)
      /\ n # "LEAF-1" => Free(B, n, ops)
      /\ n # "LEAF-2" => Free(C, n, ops)
  BY Commands, OnFree
<1>5. /\ n = Spine => Marks(A, n, ops, 0)
      /\ n = "LEAF-1" => Marks(B, n, ops, 0)
      /\ n = "LEAF-2" => Marks(C, n, ops, 0)
  BY <1>1, <1>2, OnMarks DEF SwitchOps
<1>6. /\ Free(ForHosts(AddressOps), n, ops) /\ Free(ForHosts(PackageOps), n, ops)
      /\ Free(ForHosts(PolicyOps), n, ops)
  BY <1>2, Commands, HostsSteps
<1>7. /\ Steps(ForHosts(AddressOps)) /\ Steps(ForHosts(PackageOps))
      /\ Steps(ForHosts(PolicyOps))
  BY Commands, HostsSteps
<1> HIDE DEF ops, A, B, C
<1>8. /\ Part2 = Part1 \o A /\ Part3 = Part2 \o B /\ Part4 = Part3 \o C
  BY DEF Part2, Part3, Part4, A, B, C
<1>9. /\ Len(Part1) = 2 /\ Len(Part2) >= 2 /\ Len(Part3) >= 2
  <2>1. Len(Part1) = 2 /\ Len(Part2) = Len(Part1) + Len(A) /\ Len(A) \in Nat
    BY <1>1, <1>8, Catenation, Parts
  <2>2. Len(Part3) = Len(Part2) + Len(B) /\ Len(B) \in Nat
    BY <1>1, <1>8, Catenation, Parts
  <2> QED
    BY <2>1, <2>2
<1>10. \E k : k >= 2 /\ Marks(Part4, n, ops, k)
  <2>1. CASE n = Spine
    <3>1. Marks(Part2, n, ops, 2 + 0)
      BY <1>1, <1>3, <1>5, <1>8, <1>9, <2>1, MarksSecond, Parts
    <3>2. Marks(Part3, n, ops, 2 + 0)
      BY <1>1, <1>2, <1>4, <1>8, <2>1, <3>1, MarksFirst, Parts
    <3>3. Marks(Part4, n, ops, 2 + 0)
      BY <1>1, <1>2, <1>4, <1>8, <2>1, <3>2, MarksFirst, Parts
    <3> QED
      BY <3>3
  <2>2. CASE n = "LEAF-1"
    <3>1. Free(Part2, n, ops)
      BY <1>1, <1>2, <1>3, <1>4, <1>8, <2>2, FreeBoth, Parts
    <3>2. Marks(Part3, n, ops, Len(Part2) + 0)
      BY <1>1, <1>5, <1>8, <2>2, <3>1, MarksSecond, Parts
    <3>3. Marks(Part4, n, ops, Len(Part2) + 0)
      BY <1>1, <1>4, <1>8, <2>2, <3>2, MarksFirst, Parts
    <3>4. Len(Part2) + 0 >= 2
      BY <1>1, <1>9, Catenation, Parts
    <3> QED
      BY <3>3, <3>4
  <2>3. CASE n = "LEAF-2"
    <3>1. Free(Part2, n, ops)
      BY <1>1, <1>2, <1>3, <1>4, <1>8, <2>3, FreeBoth, Parts
    <3>2. Free(Part3, n, ops)
      BY <1>1, <1>4, <1>8, <2>3, <3>1, FreeBoth, Parts
    <3>3. Marks(Part4, n, ops, Len(Part3) + 0)
      BY <1>1, <1>5, <1>8, <2>3, <3>2, MarksSecond, Parts
    <3>4. Len(Part3) + 0 >= 2
      BY <1>1, <1>9, Catenation, Parts
    <3> QED
      BY <3>3, <3>4
  <2> QED
    BY <1>2, <2>1, <2>2, <2>3
<1>11. PICK k : k >= 2 /\ Marks(Part4, n, ops, k)
  BY <1>10
<1>12. Marks(Part5, n, ops, k)
  BY <1>1, <1>3, <1>11, MarksFirst, Parts DEF Part5
<1>13. Marks(Part6, n, ops, k)
  BY <1>1, <1>6, <1>7, <1>12, MarksFirst, Parts DEF Part6
<1>14. Marks(Part7, n, ops, k)
  BY <1>1, <1>6, <1>7, <1>13, MarksFirst, Parts DEF Part7
<1>15. Marks(Part8, n, ops, k)
  BY <1>1, <1>6, <1>7, <1>14, MarksFirst, Parts DEF Part8
<1>16. Marks(Part9, n, ops, k)
  BY <1>1, <1>3, <1>15, MarksFirst, Parts DEF Part9
<1> QED
  BY <1>11, <1>16, Parts DEF ops

LEMMA HostMark ==
  ASSUME NEW h \in Hosts
  PROVE  \E a, b, c : /\ a >= 2 /\ a + 4 <= b /\ b + 1 <= c
                      /\ Marks(Script, h, AddressOps, a)
                      /\ Marks(Script, h, PackageOps, b)
                      /\ Marks(Script, h, PolicyOps, c)
<1> DEFINE A == ForHosts(AddressOps)
           B == ForHosts(PackageOps)
           C == ForHosts(PolicyOps)
           Ours == {AddressOps, PackageOps, PolicyOps}
<1>1. /\ Steps(A) /\ Steps(B) /\ Steps(C)
      /\ AddressOps \in Seq(Words) /\ PackageOps \in Seq(Words) /\ PolicyOps \in Seq(Words)
      /\ Len(AddressOps) = 4 /\ Len(PackageOps) = 1 /\ Len(PolicyOps) = 5
  BY Commands, HostsSteps DEF AddressOps, PackageOps, PolicyOps
<1>16. Len(AddressOps) \in Nat /\ Len(PackageOps) \in Nat /\ Len(PolicyOps) \in Nat
  BY <1>1
<1>2. PICK i : Marks(A, h, AddressOps, i)
  BY Commands, HostsMark
<1>3. PICK j : Marks(B, h, PackageOps, j)
  BY Commands, HostsMark
<1>4. PICK l : Marks(C, h, PolicyOps, l)
  BY Commands, HostsMark
<1>5. /\ Free(A, h, PackageOps) /\ Free(A, h, PolicyOps)
      /\ Free(B, h, AddressOps) /\ Free(B, h, PolicyOps)
      /\ Free(C, h, AddressOps) /\ Free(C, h, PackageOps)
  BY Commands, HostsSteps
<1>6. h \notin {Spine, "LEAF-1", "LEAF-2"}
  BY DeployAssumption DEF Spine
<1>7. ASSUME NEW ops \in Ours
      PROVE  Free(Part5, h, ops) /\ Free(<<<<Spine, "verify">>>>, h, ops)
  <2>1. /\ Free(Part1, h, ops) /\ Free(<<<<Spine, "ping">>>>, h, ops)
        /\ Free(<<<<Spine, "verify">>>>, h, ops)
    BY FreeRest
  <2>2. /\ Free(On(Spine, SpineOps), h, ops) /\ Free(On("LEAF-1", LeafOps), h, ops)
        /\ Free(On("LEAF-2", LeafOps), h, ops)
    BY <1>6, Commands, OnFree
  <2>3. /\ Steps(On(Spine, SpineOps))
        /\ Steps(On("LEAF-1", LeafOps)) /\ Steps(On("LEAF-2", LeafOps))
    BY Commands, OnSteps
  <2>4. Free(Part2, h, ops)
    BY <2>1, <2>2, <2>3, FreeBoth, Parts DEF Part2
  <2>5. Free(Part3, h, ops)
    BY <2>2, <2>3, <2>4, FreeBoth, Parts DEF Part3
  <2>6. Free(Part4, h, ops)
    BY <2>2, <2>3, <2>5, FreeBoth, Parts DEF Part4
  <2>7. Free(Part5, h, ops)
    BY <2>1, <2>6, FreeBoth, Parts DEF Part5
  <2> QED
    BY <2>1, <2>7
<1> HIDE DEF A, B, C
<1>8. Part6 = Part5 \o A /\ Part7 = Part6 \o B /\ Part8 = Part7 \o C
  BY DEF Part6, Part7, Part8, A, B, C
<1>9. /\ Marks(Part6, h, AddressOps, Len(Part5) + i)
      /\ Free(Part6, h, PackageOps) /\ Free(Part6, h, PolicyOps)
  <2>1. Marks(Part6, h, AddressOps, Len(Part5) + i)
    BY <1>1, <1>16, <1>2, <1>7, <1>8, MarksSecond, Parts
  <2>2. Free(Part6, h, PackageOps)
    BY <1>1, <1>5, <1>7, <1>8, FreeBoth, Parts
  <2>3. Free(Part6, h, PolicyOps)
    BY <1>1, <1>5, <1>7, <1>8, FreeBoth, Parts
  <2> QED
    BY <2>1, <2>2, <2>3
<1>10. /\ Marks(Part7, h, AddressOps, Len(Part5) + i)
       /\ Marks(Part7, h, PackageOps, Len(Part6) + j)
       /\ Free(Part7, h, PolicyOps)
  <2>1. Marks(Part7, h, AddressOps, Len(Part5) + i)
    BY <1>1, <1>16, <1>5, <1>8, <1>9, MarksFirst, Parts
  <2>2. Marks(Part7, h, PackageOps, Len(Part6) + j)
    BY <1>1, <1>16, <1>3, <1>8, <1>9, MarksSecond, Parts
  <2>3. Free(Part7, h, PolicyOps)
    BY <1>1, <1>5, <1>8, <1>9, FreeBoth, Parts
  <2> QED
    BY <2>1, <2>2, <2>3
<1>11. /\ Marks(Part8, h, AddressOps, Len(Part5) + i)
       /\ Marks(Part8, h, PackageOps, Len(Part6) + j)
       /\ Marks(Part8, h, PolicyOps, Len(Part7) + l)
  <2>1. Marks(Part8, h, AddressOps, Len(Part5) + i)
    BY <1>1, <1>16, <1>5, <1>8, <1>10, MarksFirst, Parts
  <2>2. Marks(Part8, h, PackageOps, Len(Part6) + j)
    BY <1>1, <1>16, <1>5, <1>8, <1>10, MarksFirst, Parts
  <2>3. Marks(Part8, h, PolicyOps, Len(Part7) + l)
    BY <1>1, <1>16, <1>4, <1>8, <1>10, MarksSecond, Parts
  <2> QED
    BY <2>1, <2>2, <2>3
<1>12. /\ Marks(Part9, h, AddressOps, Len(Part5) + i)
       /\ Marks(Part9, h, PackageOps, Len(Part6) + j)
       /\ Marks(Part9, h, PolicyOps, Len(Part7) + l)
  <2>1. Len(AddressOps) \in Nat /\ Len(PackageOps) \in Nat /\ Len(PolicyOps) \in Nat
    BY <1>1
  <2> QED
    BY <1>7, <1>11, <2>1, MarksFirst, Parts DEF Part9
<1>13. /\ Len(Part5) \in Nat /\ Len(Part6) \in Nat /\ Len(Part7) \in Nat
       /\ i \in Nat /\ j \in Nat /\ l \in Nat
       /\ Len(Part5) + i + 4 <= Len(Part6) /\ Len(Part6) + j + 1 <= Len(Part7)
  BY <1>1, <1>2, <1>3, <1>4, <1>9, <1>10, Catenation, Parts DEF Marks
<1>14. Len(Part5) >= 2
  <2>1. /\ Steps(On(Spine, SpineOps))
        /\ Steps(On("LEAF-1", LeafOps)) /\ Steps(On("LEAF-2", LeafOps))
    BY Commands, OnSteps
  <2>2. Len(Part1) = 2 /\ Len(Part2) >= Len(Part1) /\ Len(Part2) \in Nat
    BY <2>1, Catenation, Parts DEF Part2
  <2>3. Len(Part3) >= Len(Part2) /\ Len(Part3) \in Nat
    BY <2>1, <2>2, Catenation, Parts DEF Part3
  <2>4. Len(Part4) >= Len(Part3) /\ Len(Part4) \in Nat
    BY <2>1, <2>3, Catenation, Parts DEF Part4
  <2>5. Len(Part5) >= Len(Part4) /\ Len(Part5) \in Nat
    BY <2>4, Catenation, Parts DEF Part5
  <2> QED
    BY <2>2, <2>3, <2>4, <2>5
<1> DEFINE a == Len(Part5) + i
           b == Len(Part6) + j
           c == Len(Part7) + l
<1>15. a >= 2 /\ a + 4 <= b /\ b + 1 <= c
  BY <1>13, <1>14
<1> QED
  BY <1>12, <1>15, Parts

-----------------------------------------------------------------------------
(* Before and after a command.                                             *)

\* The i-th step is op at n; some step before the i-th is.
Step(i, n, op) == i \in 1..Len(Script) /\ Script[i] = <<n, op>>
Before(i, n, op) == \E j \in 1..Len(Script) : j < i /\ Script[j] = <<n, op>>

LEMMA ScriptLength ==
  /\ Len(Script) \in Nat /\ Len(Script) >= 1
  /\ \A i \in 1..Len(Script) :
       Script[i] = <<Script[i][1], Script[i][2]>>
       /\ Script[i][1] \in Sonic \cup Hosts /\ Script[i][2] \in Words
<1>1. Script \in Seq((Sonic \cup Hosts) \X Words) /\ Len(Script) \in Nat
  BY Parts, LenProperties DEF Steps
<1>2. \A i \in 1..Len(Script) : Script[i] \in (Sonic \cup Hosts) \X Words
  BY <1>1, ElementOfSeq
<1>3. Len(Script) >= 1
  <2>1. Len(<<<<Spine, "verify">>>>) = 1
    OBVIOUS
  <2> QED
    BY <2>1, Catenation, Parts DEF Part9
<1> QED
  BY <1>1, <1>2, <1>3

LEMMA OneOn ==
  ASSUME NEW i \in 1..Len(Script), NEW n, NEW op
  PROVE  Before(i + 1, n, op) <=> Before(i, n, op) \/ Step(i, n, op)
<1>1. \A j \in 1..Len(Script) : j < i + 1 <=> j < i \/ j = i
  BY ScriptLength
<1> QED
  BY <1>1 DEF Before, Step

LEMMA MarkFacts ==
  ASSUME NEW n, NEW ops, NEW k, Marks(Script, n, ops, k), NEW p \in 1..Len(ops),
         Len(ops) \in Nat, NEW i \in Int
  PROVE  /\ Step(i, n, ops[p]) <=> i = k + p
         /\ Before(i, n, ops[p]) <=> k + p < i
<1>1. /\ k + p \in 1..Len(Script)
      /\ \A j \in 1..Len(Script) : Script[j] = <<n, ops[p]>> <=> j = k + p
  BY ScriptLength DEF Marks
<1> QED
  BY <1>1 DEF Step, Before

LEMMA SwitchFacts ==
  ASSUME NEW n \in Sonic, NEW i \in Nat
  PROVE  /\ Step(i, n, "save") => Before(i, n, "address") /\ Before(i, n, "network")
         /\ (Before(i, n, "address") \/ Before(i, n, "network")) /\ ~Before(i, n, "save")
              => i \in 1..Len(Script) /\ Script[i][1] = n
         /\ n \in Leaves /\ Step(i + 1, n, "address") => Step(i, n, "look")
         /\ \A op \in {"address", "network", "save", "fix-routes", "rc.local"} :
              /\ Before(Len(Script) + 1, n, op)
              /\ i <= 3 => ~Before(i, n, op)
<1>1. PICK k : k >= 2 /\ Marks(Script, n, SwitchOps(n), k)
  BY SwitchMark
<1>2. k \in Nat /\ k + Len(SwitchOps(n)) <= Len(Script) /\ Len(Script) \in Nat
  BY <1>1, ScriptLength DEF Marks
<1>3. CASE n = Spine
  <2>1. /\ SwitchOps(n) = SpineOps /\ Len(SpineOps) = 6
        /\ SpineOps[1] = "address" /\ SpineOps[3] = "network" /\ SpineOps[4] = "fix-routes"
        /\ SpineOps[5] = "rc.local" /\ SpineOps[6] = "save"
    BY <1>3 DEF SwitchOps, SpineOps
  <2>2. n \notin Leaves
    BY <1>3 DEF Spine, Leaves
  <2>3. ASSUME NEW j \in Int
        PROVE  /\ Before(j, n, "address") <=> k + 1 < j
               /\ Before(j, n, "network") <=> k + 3 < j
               /\ Before(j, n, "fix-routes") <=> k + 4 < j
               /\ Before(j, n, "rc.local") <=> k + 5 < j
               /\ Before(j, n, "save") <=> k + 6 < j
               /\ Step(j, n, "save") <=> j = k + 6
    <3>1. \A p \in 1..6 : /\ Step(j, n, SpineOps[p]) <=> j = k + p
                          /\ Before(j, n, SpineOps[p]) <=> k + p < j
      <4>1. Marks(Script, n, SpineOps, k) /\ Len(SpineOps) \in Nat /\ 1..Len(SpineOps) = 1..6
        BY <1>1, <2>1
      <4> QED
        BY <4>1, MarkFacts
    <3> QED
      BY <2>1, <3>1
  <2>4. \A j \in (k + 1)..(k + 6) : j \in 1..Len(Script) /\ Script[j][1] = n
    <3>1. \A j \in (k + 1)..(k + 6) : j - k \in 1..6 /\ k + (j - k) = j /\ j \in 1..Len(Script)
      BY <1>2, <2>1
    <3>2. \A j \in (k + 1)..(k + 6) : Script[j] = <<n, SpineOps[j - k]>>
      BY <1>1, <2>1, <3>1 DEF Marks
    <3> QED
      BY <3>1, <3>2
  <2>5. Step(i, n, "save") => Before(i, n, "address") /\ Before(i, n, "network")
    BY <1>2, <2>3
  <2>6. (Before(i, n, "address") \/ Before(i, n, "network")) /\ ~Before(i, n, "save")
          => i \in (k + 1)..(k + 6)
    BY <1>2, <2>3
  <2>7. ASSUME NEW op \in {"address", "network", "save", "fix-routes", "rc.local"}
        PROVE  /\ Before(Len(Script) + 1, n, op)
               /\ i <= 3 => ~Before(i, n, op)
    <3>1. Len(Script) + 1 > k + 6 /\ Len(Script) + 1 \in Int
      BY <1>2, <2>1
    <3> QED
      BY <1>1, <1>2, <2>3, <3>1
  <2> QED
    BY <2>2, <2>4, <2>5, <2>6, <2>7
<1>4. CASE n \in Leaves
  <2>1. /\ SwitchOps(n) = LeafOps /\ Len(LeafOps) = 7
        /\ LeafOps[1] = "look" /\ LeafOps[2] = "address" /\ LeafOps[4] = "network"
        /\ LeafOps[5] = "save" /\ LeafOps[6] = "fix-routes" /\ LeafOps[7] = "rc.local"
    BY <1>4 DEF SwitchOps, LeafOps, Spine, Leaves
  <2>3. ASSUME NEW j \in Int
        PROVE  /\ Before(j, n, "address") <=> k + 2 < j
               /\ Before(j, n, "network") <=> k + 4 < j
               /\ Before(j, n, "save") <=> k + 5 < j
               /\ Before(j, n, "fix-routes") <=> k + 6 < j
               /\ Before(j, n, "rc.local") <=> k + 7 < j
               /\ Step(j, n, "save") <=> j = k + 5
               /\ Step(j, n, "look") <=> j = k + 1
               /\ Step(j, n, "address") <=> j = k + 2
    <3>1. \A p \in 1..7 : /\ Step(j, n, LeafOps[p]) <=> j = k + p
                          /\ Before(j, n, LeafOps[p]) <=> k + p < j
      <4>1. Marks(Script, n, LeafOps, k) /\ Len(LeafOps) \in Nat /\ 1..Len(LeafOps) = 1..7
        BY <1>1, <2>1
      <4> QED
        BY <4>1, MarkFacts
    <3> QED
      BY <2>1, <3>1
  <2>4. \A j \in (k + 1)..(k + 7) : j \in 1..Len(Script) /\ Script[j][1] = n
    <3>1. \A j \in (k + 1)..(k + 7) : j - k \in 1..7 /\ k + (j - k) = j /\ j \in 1..Len(Script)
      BY <1>2, <2>1
    <3>2. \A j \in (k + 1)..(k + 7) : Script[j] = <<n, LeafOps[j - k]>>
      BY <1>1, <2>1, <3>1 DEF Marks
    <3> QED
      BY <3>1, <3>2
  <2>5. Step(i, n, "save") => Before(i, n, "address") /\ Before(i, n, "network")
    BY <1>2, <2>3
  <2>6. (Before(i, n, "address") \/ Before(i, n, "network")) /\ ~Before(i, n, "save")
          => i \in (k + 1)..(k + 7)
    BY <1>2, <2>3
  <2>7. ASSUME NEW op \in {"address", "network", "save", "fix-routes", "rc.local"}
        PROVE  /\ Before(Len(Script) + 1, n, op)
               /\ i <= 3 => ~Before(i, n, op)
    <3>1. Len(Script) + 1 > k + 7 /\ Len(Script) + 1 \in Int
      BY <1>2, <2>1
    <3> QED
      BY <1>1, <1>2, <2>3, <3>1
  <2>8. Step(i + 1, n, "address") => Step(i, n, "look")
    BY <1>2, <2>3
  <2> QED
    BY <2>4, <2>5, <2>6, <2>7, <2>8
<1> QED
  BY <1>3, <1>4 DEF Sonic

PolicySet == {"flush", "drop", "rules", "iptables-save", "iptables.start"}
HostSet == {"address", "local", "drop", "rules", "iptables-save", "iptables.start"}

LEMMA HostFacts ==
  ASSUME NEW h \in Hosts, NEW i \in Nat
  PROVE  /\ Step(i + 1, h, "address") => Step(i, h, "look")
         /\ Before(i, h, "address") /\ ~Before(i, h, "local")
              => i \in 1..Len(Script) /\ Script[i][1] = h
         /\ Before(i, h, "drop") /\ ~Before(i, h, "iptables.start")
              => i \in 1..Len(Script) /\ Script[i][1] = h
         /\ Before(i, h, "rules") => Before(i, h, "drop")
         /\ Before(i, h, "iptables.start") => Before(i, h, "iptables-save")
         /\ \A op \in {"address", "net.start", "local"} : Step(i, h, op) => ~Before(i, h, "local")
         /\ \A op \in {"address", "net.start", "local", "apk", "flush"} :
              Step(i, h, op) => /\ ~Before(i, h, "drop") /\ ~Before(i, h, "rules")
                                /\ ~Before(i, h, "iptables-save")
                                /\ ~Before(i, h, "iptables.start")
         /\ \A op \in PolicySet : Step(i, h, op) => ~Before(i, h, "iptables.start")
         /\ Step(i, h, "iptables-save") => Before(i, h, "drop") /\ Before(i, h, "rules")
         /\ Step(i, h, "iptables.start") => Before(i, h, "drop") /\ Before(i, h, "rules")
         /\ \A op \in HostSet : /\ Before(Len(Script) + 1, h, op)
                                /\ i <= 3 => ~Before(i, h, op)
<1>1. PICK a, b, c : /\ a >= 2 /\ a + 4 <= b /\ b + 1 <= c
                     /\ Marks(Script, h, AddressOps, a)
                     /\ Marks(Script, h, PackageOps, b)
                     /\ Marks(Script, h, PolicyOps, c)
  BY HostMark
<1>2. /\ Len(AddressOps) = 4 /\ Len(PackageOps) = 1 /\ Len(PolicyOps) = 5
      /\ AddressOps[1] = "look" /\ AddressOps[2] = "address"
      /\ AddressOps[3] = "net.start" /\ AddressOps[4] = "local"
      /\ PackageOps[1] = "apk"
      /\ PolicyOps[1] = "flush" /\ PolicyOps[2] = "drop" /\ PolicyOps[3] = "rules"
      /\ PolicyOps[4] = "iptables-save" /\ PolicyOps[5] = "iptables.start"
  BY DEF AddressOps, PackageOps, PolicyOps
<1>3. a \in Nat /\ b \in Nat /\ c \in Nat /\ c + 5 <= Len(Script) /\ Len(Script) \in Nat
  BY <1>1, <1>2, ScriptLength DEF Marks
<1>4. ASSUME NEW j \in Int
      PROVE  /\ Step(j, h, "look") <=> j = a + 1
             /\ Step(j, h, "address") <=> j = a + 2
             /\ Step(j, h, "net.start") <=> j = a + 3
             /\ Step(j, h, "local") <=> j = a + 4
             /\ Before(j, h, "address") <=> a + 2 < j
             /\ Before(j, h, "local") <=> a + 4 < j
  <2>1. \A p \in 1..4 : /\ Step(j, h, AddressOps[p]) <=> j = a + p
                        /\ Before(j, h, AddressOps[p]) <=> a + p < j
    <3>1. Len(AddressOps) \in Nat /\ 1..Len(AddressOps) = 1..4
      BY <1>2
    <3> QED
      BY <1>1, <3>1, MarkFacts
  <2> QED
    BY <1>2, <2>1
<1>5. ASSUME NEW j \in Int PROVE Step(j, h, "apk") <=> j = b + 1
  <2>1. Step(j, h, PackageOps[1]) <=> j = b + 1
    <3>1. Len(PackageOps) \in Nat /\ 1 \in 1..Len(PackageOps)
      BY <1>2
    <3> QED
      BY <1>1, <3>1, MarkFacts
  <2> QED
    BY <1>2, <2>1
<1>6. ASSUME NEW j \in Int
      PROVE  /\ Step(j, h, "flush") <=> j = c + 1
             /\ Step(j, h, "drop") <=> j = c + 2
             /\ Step(j, h, "rules") <=> j = c + 3
             /\ Step(j, h, "iptables-save") <=> j = c + 4
             /\ Step(j, h, "iptables.start") <=> j = c + 5
             /\ Before(j, h, "drop") <=> c + 2 < j
             /\ Before(j, h, "rules") <=> c + 3 < j
             /\ Before(j, h, "iptables-save") <=> c + 4 < j
             /\ Before(j, h, "iptables.start") <=> c + 5 < j
  <2>1. \A p \in 1..5 : /\ Step(j, h, PolicyOps[p]) <=> j = c + p
                        /\ Before(j, h, PolicyOps[p]) <=> c + p < j
    <3>1. Len(PolicyOps) \in Nat /\ 1..Len(PolicyOps) = 1..5
      BY <1>2
    <3> QED
      BY <1>1, <3>1, MarkFacts
  <2> QED
    BY <1>2, <2>1
<1>7. \A j \in (a + 1)..(a + 4) : j \in 1..Len(Script) /\ Script[j][1] = h
  <2>1. \A j \in (a + 1)..(a + 4) : j - a \in 1..4 /\ a + (j - a) = j /\ j \in 1..Len(Script)
    BY <1>1, <1>3
  <2>2. \A j \in (a + 1)..(a + 4) : Script[j] = <<h, AddressOps[j - a]>>
    BY <1>1, <1>2, <2>1 DEF Marks
  <2> QED
    BY <2>1, <2>2
<1>8. \A j \in (c + 1)..(c + 5) : j \in 1..Len(Script) /\ Script[j][1] = h
  <2>1. \A j \in (c + 1)..(c + 5) : j - c \in 1..5 /\ c + (j - c) = j /\ j \in 1..Len(Script)
    BY <1>3
  <2>2. \A j \in (c + 1)..(c + 5) : Script[j] = <<h, PolicyOps[j - c]>>
    BY <1>1, <1>2, <2>1 DEF Marks
  <2> QED
    BY <2>1, <2>2
<1>9. Step(i + 1, h, "address") => Step(i, h, "look")
  BY <1>3, <1>4
<1>10. Before(i, h, "address") /\ ~Before(i, h, "local")
         => i \in 1..Len(Script) /\ Script[i][1] = h
  <2>1. a + 2 < i /\ ~(a + 4 < i) => i \in (a + 1)..(a + 4)
    BY <1>3
  <2> QED
    BY <1>4, <1>7, <2>1
<1>11. Before(i, h, "drop") /\ ~Before(i, h, "iptables.start")
         => i \in 1..Len(Script) /\ Script[i][1] = h
  <2>1. c + 2 < i /\ ~(c + 5 < i) => i \in (c + 1)..(c + 5)
    BY <1>3
  <2> QED
    BY <1>6, <1>8, <2>1
<1>12. /\ Before(i, h, "rules") => Before(i, h, "drop")
       /\ Before(i, h, "iptables.start") => Before(i, h, "iptables-save")
       /\ Step(i, h, "iptables-save") => Before(i, h, "drop") /\ Before(i, h, "rules")
       /\ Step(i, h, "iptables.start") => Before(i, h, "drop") /\ Before(i, h, "rules")
  BY <1>3, <1>6
<1>13. ASSUME NEW op \in {"address", "net.start", "local"}, Step(i, h, op)
       PROVE  ~Before(i, h, "local")
  BY <1>3, <1>4, <1>13
<1>14. ASSUME NEW op \in {"address", "net.start", "local", "apk", "flush"}, Step(i, h, op)
       PROVE  /\ ~Before(i, h, "drop") /\ ~Before(i, h, "rules")
              /\ ~Before(i, h, "iptables-save") /\ ~Before(i, h, "iptables.start")
  <2>1. i <= c + 1
    BY <1>1, <1>3, <1>4, <1>5, <1>6, <1>14
  <2> QED
    BY <1>3, <1>6, <2>1
<1>15. ASSUME NEW op \in PolicySet, Step(i, h, op) PROVE ~Before(i, h, "iptables.start")
  <2>1. i <= c + 5
    BY <1>3, <1>6, <1>15 DEF PolicySet
  <2> QED
    BY <1>3, <1>6, <2>1
<1>16. ASSUME NEW op \in HostSet
       PROVE  Before(Len(Script) + 1, h, op) /\ (i <= 3 => ~Before(i, h, op))
  <2>1. Len(Script) + 1 \in Int /\ Len(Script) + 1 > c + 5 /\ Len(Script) + 1 > a + 4
    BY <1>1, <1>3
  <2>2. i <= 3 => ~(a + 2 < i) /\ ~(a + 4 < i) /\ ~(c + 2 < i) /\ ~(c + 3 < i)
                  /\ ~(c + 4 < i) /\ ~(c + 5 < i)
    BY <1>1, <1>3
  <2>3. /\ Before(Len(Script) + 1, h, "address") /\ Before(Len(Script) + 1, h, "local")
        /\ Before(Len(Script) + 1, h, "drop") /\ Before(Len(Script) + 1, h, "rules")
        /\ Before(Len(Script) + 1, h, "iptables-save")
        /\ Before(Len(Script) + 1, h, "iptables.start")
    BY <1>3, <1>4, <1>6, <2>1
  <2>4. i <= 3 => /\ ~Before(i, h, "address") /\ ~Before(i, h, "local")
                  /\ ~Before(i, h, "drop") /\ ~Before(i, h, "rules")
                  /\ ~Before(i, h, "iptables-save") /\ ~Before(i, h, "iptables.start")
    BY <1>4, <1>6, <2>2
  <2> QED
    BY <2>3, <2>4 DEF HostSet
<1> QED
  BY <1>9, <1>10, <1>11, <1>12, <1>13, <1>14, <1>15, <1>16

-----------------------------------------------------------------------------
(* The invariant.  A run has reached its next command, or the end of the    *)
(* script when it has completed it, and a node is left as the commands that *)
(* are past have made it, through reboots too: a reboot of a node the run   *)
(* is at cuts the run, and one of another node undoes what is not saved.    *)

Reached == IF complete THEN Len(Script) + 1 ELSE at

SwitchSet == {"address", "network", "save", "fix-routes", "rc.local"}

\* What is past at a switch is so; once saved, its disk holds both.
SwitchGood(n, s, i) ==
  /\ Before(i, n, "address") => s.address
  /\ Before(i, n, "network") => s.network
  /\ Before(i, n, "save") => s.saved = [address |-> TRUE, network |-> TRUE]
  /\ Before(i, n, "fix-routes") => s.fixroutes
  /\ Before(i, n, "rc.local") => s.rclocal

\* A host has its address, unless it lost it to a reboot its start-up scripts
\* could not make good; its chains drop from "drop" on and hold the rules from
\* "rules" on, and after its turn they are as they are saved or were lost to
\* such a reboot.
HostGood(h, a, i) ==
  /\ Before(i, h, "address") =>
       a.address \/ (Before(i, h, "local") /\ ~(a.netstart /\ a.local))
  /\ a.packages =>
       /\ Before(i, h, "drop") /\ ~Before(i, h, "iptables.start")
            => a.chains.policy = "DROP"
       /\ Before(i, h, "rules") /\ ~Before(i, h, "iptables.start") => a.chains.rules
       /\ Before(i, h, "iptables-save") => a.saved = Locked
       /\ Before(i, h, "iptables.start") => a.chains = Locked \/ ~(a.restore /\ a.local)

\* What the look before it found is still so when an address is skipped.
Looked(i, n, found, address) == Step(i, n, "address") /\ found => address

SwitchOK == \A n \in Sonic : /\ SwitchGood(n, sonic[n], Reached)
                             /\ n \in Leaves => Looked(at, n, seen, sonic[n].address)
HostOK == \A h \in Hosts : /\ HostGood(h, alpine[h], Reached)
                           /\ Looked(at, h, seen, alpine[h].address)
Deployed == SwitchOK /\ HostOK

\* A command that is none of a switch's own leaves it good.
LEMMA SwitchPassed ==
  ASSUME NEW n \in Sonic, NEW i \in 1..Len(Script), NEW s,
         \A op \in SwitchSet : ~Step(i, n, op), SwitchGood(n, s, i)
  PROVE  SwitchGood(n, s, i + 1)
<1>1. \A op \in SwitchSet : Before(i + 1, n, op) <=> Before(i, n, op)
  BY OneOn
<1> QED
  BY <1>1 DEF SwitchGood, SwitchSet

LEMMA SwitchConfigured ==
  ASSUME NEW n \in Sonic, NEW i \in 1..Len(Script), sonic[n] \in SonicType, seen \in BOOLEAN,
         Script[i][1] = n, SwitchGood(n, sonic[n], i),
         n \in Leaves => Looked(i, n, seen, sonic[n].address)
  PROVE  /\ ConfigSonic(n, Script[i][2]) \in SonicType
         /\ SwitchGood(n, ConfigSonic(n, Script[i][2]), i + 1)
<1> DEFINE op == Script[i][2]
           s == sonic[n]
           t == ConfigSonic(n, op)
<1>1. Step(i, n, op) /\ \A p : Step(i, n, p) => p = op
  BY ScriptLength DEF Step
<1>2. \A p : Before(i + 1, n, p) <=> Before(i, n, p) \/ p = op
  BY <1>1, OneOn
<1>3. i \in Nat
  BY ScriptLength
<1>4. op = "save" => Before(i, n, "address") /\ Before(i, n, "network")
  BY <1>1, <1>3, SwitchFacts
<1>5. s \in SonicType /\ seen \in BOOLEAN
  OBVIOUS
<1>6. SwitchGood(n, s, i) /\ (n \in Leaves /\ op = "address" /\ seen => s.address)
  BY <1>1 DEF Looked
<1> SUFFICES t \in SonicType /\ SwitchGood(n, t, i + 1)
  OBVIOUS
<1> HIDE DEF op, s
<1>7. CASE op = "address"
  <2>1. CASE n \in Leaves /\ seen
    <3>1. t = s
      BY <1>7, <2>1 DEF ConfigSonic, s
    <3> QED
      BY <1>2, <1>5, <1>6, <1>7, <2>1, <3>1 DEF SwitchGood
  <2>2. CASE ~(n \in Leaves /\ seen)
    <3>1. t = [s EXCEPT !.address = TRUE, !.kernel = s.kernel /\ s.address]
      BY <1>7, <2>2 DEF ConfigSonic, s
    <3>2. t \in SonicType /\ t.address /\ t.network = s.network /\ t.saved = s.saved
          /\ t.fixroutes = s.fixroutes /\ t.rclocal = s.rclocal
      BY <1>5, <3>1 DEF SonicType
    <3> HIDE DEF t
    <3> QED
      BY <1>2, <1>6, <1>7, <3>2 DEF SwitchGood
  <2> QED
    BY <2>1, <2>2
<1>8. CASE op = "kernel"
  <2>1. t = s \/ t = [s EXCEPT !.kernel = TRUE]
    BY <1>8 DEF ConfigSonic, s
  <2>2. t \in SonicType /\ t.address = s.address /\ t.network = s.network
        /\ t.saved = s.saved /\ t.fixroutes = s.fixroutes /\ t.rclocal = s.rclocal
    BY <1>5, <2>1 DEF SonicType
  <2> HIDE DEF t
  <2> QED
    BY <1>2, <1>6, <1>8, <2>2 DEF SwitchGood
<1>9. CASE op = "network"
  <2>1. t = [s EXCEPT !.network = TRUE]
    BY <1>9 DEF ConfigSonic, s
  <2>2. t \in SonicType /\ t.address = s.address /\ t.network
        /\ t.saved = s.saved /\ t.fixroutes = s.fixroutes /\ t.rclocal = s.rclocal
    BY <1>5, <2>1 DEF SonicType
  <2> HIDE DEF t
  <2> QED
    BY <1>2, <1>6, <1>9, <2>2 DEF SwitchGood
<1>10. CASE op = "save"
  <2>1. t = [s EXCEPT !.saved = [address |-> s.address, network |-> s.network]]
    BY <1>10 DEF ConfigSonic, s
  <2>2. s.address = TRUE /\ s.network = TRUE
    BY <1>4, <1>5, <1>6, <1>10 DEF SwitchGood, SonicType
  <2>3. t \in SonicType /\ t.address = s.address /\ t.network = s.network
        /\ t.saved = [address |-> TRUE, network |-> TRUE]
        /\ t.fixroutes = s.fixroutes /\ t.rclocal = s.rclocal
    <3> DEFINE both == [address |-> TRUE, network |-> TRUE]
    <3>1. t = [s EXCEPT !.saved = both]
      BY <2>1, <2>2
    <3>2. both \in [address : BOOLEAN, network : BOOLEAN]
      OBVIOUS
    <3> HIDE DEF both, t
    <3>3. t \in SonicType /\ t.saved = both /\ t.address = s.address /\ t.network = s.network
          /\ t.fixroutes = s.fixroutes /\ t.rclocal = s.rclocal
      BY <1>5, <3>1, <3>2 DEF SonicType
    <3> QED
      BY <3>3 DEF both
  <2> HIDE DEF t
  <2> QED
    BY <1>2, <1>6, <1>10, <2>3 DEF SwitchGood
<1>11. CASE op = "fix-routes"
  <2>1. t = [s EXCEPT !.fixroutes = TRUE]
    BY <1>11 DEF ConfigSonic, s
  <2>2. t \in SonicType /\ t.address = s.address /\ t.network = s.network
        /\ t.saved = s.saved /\ t.fixroutes /\ t.rclocal = s.rclocal
    BY <1>5, <2>1 DEF SonicType
  <2> HIDE DEF t
  <2> QED
    BY <1>2, <1>6, <1>11, <2>2 DEF SwitchGood
<1>12. CASE op = "rc.local"
  <2>1. t = [s EXCEPT !.rclocal = TRUE]
    BY <1>12 DEF ConfigSonic, s
  <2>2. t \in SonicType /\ t.address = s.address /\ t.network = s.network
        /\ t.saved = s.saved /\ t.fixroutes = s.fixroutes /\ t.rclocal
    BY <1>5, <2>1 DEF SonicType
  <2> HIDE DEF t
  <2> QED
    BY <1>2, <1>6, <1>12, <2>2 DEF SwitchGood
<1>13. CASE op \notin SwitchSet \cup {"kernel"}
  <2>1. t = s
    BY <1>13 DEF ConfigSonic, s, SwitchSet
  <2> QED
    BY <1>2, <1>5, <1>6, <1>13, <2>1 DEF SwitchGood, SwitchSet
<1> QED
  BY <1>7, <1>8, <1>9, <1>10, <1>11, <1>12, <1>13 DEF SwitchSet

\* A reboot of a switch the run is not at.
LEMMA SwitchRebooted ==
  ASSUME NEW n \in Sonic, NEW i \in Nat, NEW s \in SonicType, SwitchGood(n, s, i),
         ~(i \in 1..Len(Script) /\ Script[i][1] = n)
  PROVE  SwitchGood(n, Rebooted(s), i)
<1>1. Before(i, n, "address") \/ Before(i, n, "network") => Before(i, n, "save")
  BY SwitchFacts
<1> DEFINE t == Rebooted(s)
<1>2. /\ t.address = s.saved.address /\ t.network = s.saved.network /\ t.saved = s.saved
      /\ t.fixroutes = s.fixroutes /\ t.rclocal = s.rclocal
  BY DEF Rebooted, SonicType
<1> HIDE DEF t
<1>3. SwitchGood(n, t, i)
  BY <1>1, <1>2 DEF SwitchGood
<1> QED
  BY <1>3 DEF t

LEMMA RebootedType ==
  ASSUME NEW s \in SonicType
  PROVE  Rebooted(s) \in SonicType
BY DEF Rebooted, SonicType

\* A command that is none of a host's own leaves it good.
LEMMA HostPassed ==
  ASSUME NEW h \in Hosts, NEW i \in 1..Len(Script), NEW a,
         \A op \in HostSet : ~Step(i, h, op), HostGood(h, a, i)
  PROVE  HostGood(h, a, i + 1)
<1>1. \A op \in HostSet : Before(i + 1, h, op) <=> Before(i, h, op)
  BY OneOn
<1> QED
  BY <1>1 DEF HostGood, HostSet

\* The packages come before the policy.
LEMMA HostInstalled ==
  ASSUME NEW h \in Hosts, NEW i \in 1..Len(Script), NEW a \in AlpineType,
         NEW x \in BOOLEAN, Step(i, h, "apk"), HostGood(h, a, i)
  PROVE  /\ [a EXCEPT !.packages = x] \in AlpineType
         /\ HostGood(h, [a EXCEPT !.packages = x], i + 1)
<1> DEFINE b == [a EXCEPT !.packages = x]
<1>1. b \in AlpineType /\ b.address = a.address /\ b.netstart = a.netstart /\ b.local = a.local
  BY DEF AlpineType
<1>2. i \in Nat
  BY ScriptLength
<1>3. /\ ~Before(i, h, "drop") /\ ~Before(i, h, "rules")
      /\ ~Before(i, h, "iptables-save") /\ ~Before(i, h, "iptables.start")
  BY <1>2, HostFacts
<1>4. \A op \in HostSet : ~Step(i, h, op)
  BY DEF Step, HostSet
<1> HIDE DEF b
<1>5. HostGood(h, b, i)
  BY <1>1, <1>3 DEF HostGood
<1>6. HostGood(h, b, i + 1)
  BY <1>4, <1>5, HostPassed
<1> QED
  BY <1>1, <1>6 DEF b

LEMMA HostConfigured ==
  ASSUME NEW h \in Hosts, NEW i \in 1..Len(Script), alpine[h] \in AlpineType,
         seen \in BOOLEAN, Script[i][1] = h, HostGood(h, alpine[h], i),
         Looked(i, h, seen, alpine[h].address)
  PROVE  /\ ConfigAlpine(h, Script[i][2]) \in AlpineType
         /\ HostGood(h, ConfigAlpine(h, Script[i][2]), i + 1)
<1> DEFINE op == Script[i][2]
           a == alpine[h]
           b == ConfigAlpine(h, op)
<1>1. Step(i, h, op) /\ \A p : Step(i, h, p) => p = op
  BY ScriptLength DEF Step
<1>2. \A p : Before(i + 1, h, p) <=> Before(i, h, p) \/ p = op
  BY <1>1, OneOn
<1>3. i \in Nat
  BY ScriptLength
<1>4. /\ op \in {"address", "net.start", "local"} => ~Before(i, h, "local")
      /\ op \in {"address", "net.start", "local", "flush"} =>
           /\ ~Before(i, h, "drop") /\ ~Before(i, h, "rules")
           /\ ~Before(i, h, "iptables-save") /\ ~Before(i, h, "iptables.start")
      /\ op \in PolicySet => ~Before(i, h, "iptables.start")
      /\ op \in {"iptables-save", "iptables.start"} =>
           Before(i, h, "drop") /\ Before(i, h, "rules")
      /\ Before(i, h, "rules") => Before(i, h, "drop")
  BY <1>1, <1>3, HostFacts
<1>5. a \in AlpineType /\ seen \in BOOLEAN
  OBVIOUS
<1>6. HostGood(h, a, i) /\ (op = "address" /\ seen => a.address)
  BY <1>1 DEF Looked
<1>7. op \in Words /\ "open" \notin Words
  BY ScriptLength DEF Words
<1>8. a.chains \in Chains /\ a.saved \in Chains
  BY <1>5 DEF AlpineType
<1> SUFFICES b \in AlpineType /\ HostGood(h, b, i + 1)
  OBVIOUS
<1> HIDE DEF op, a
<1>9. CASE op = "address"
  <2>1. b = IF seen THEN a ELSE [a EXCEPT !.address = TRUE]
    BY <1>9 DEF ConfigAlpine, a
  <2>2. b \in AlpineType /\ b.address
    BY <1>5, <1>6, <1>9, <2>1 DEF AlpineType
  <2> HIDE DEF b
  <2> QED
    BY <1>2, <1>4, <1>9, <2>2 DEF HostGood
<1>10. CASE op = "net.start"
  <2>1. b = a \/ b = [a EXCEPT !.netstart = a.netstart \/ h \in Sudo]
    BY <1>10 DEF ConfigAlpine, a
  <2>2. b \in AlpineType /\ b.address = a.address
    BY <1>5, <2>1 DEF AlpineType
  <2> HIDE DEF b
  <2> QED
    BY <1>2, <1>4, <1>6, <1>10, <2>2 DEF HostGood
<1>11. CASE op = "local"
  <2>1. b = a \/ b = [a EXCEPT !.local = TRUE]
    BY <1>11 DEF ConfigAlpine, a
  <2>2. b \in AlpineType /\ b.address = a.address
    BY <1>5, <2>1 DEF AlpineType
  <2> HIDE DEF b
  <2> QED
    BY <1>2, <1>4, <1>6, <1>11, <2>2 DEF HostGood
<1>12. CASE op = "flush"
  <2>1. b = a \/ b = [a EXCEPT !.chains.rules = FALSE]
    BY <1>12 DEF ConfigAlpine, a
  <2>2. b \in AlpineType /\ b.address = a.address /\ b.local = a.local
        /\ b.netstart = a.netstart
    <3> DEFINE c == [a.chains EXCEPT !.rules = FALSE]
    <3>1. c \in Chains
      BY <1>8 DEF Chains
    <3>2. b = a \/ b = [a EXCEPT !.chains = c]
      BY <2>1
    <3> HIDE DEF b, c
    <3> QED
      BY <1>5, <3>1, <3>2 DEF AlpineType
  <2> HIDE DEF b
  <2> QED
    BY <1>2, <1>4, <1>6, <1>12, <2>2 DEF HostGood
<1>13. CASE op = "drop"
  <2>1. b = IF a.packages THEN [a EXCEPT !.chains.policy = "DROP"] ELSE a
    BY <1>13 DEF ConfigAlpine, a
  <2>2. b \in AlpineType /\ b.address = a.address /\ b.local = a.local
        /\ b.netstart = a.netstart /\ b.saved = a.saved /\ b.packages = a.packages
        /\ b.chains.rules = a.chains.rules /\ b.restore = a.restore
        /\ (a.packages => b.chains.policy = "DROP")
    <3> DEFINE c == [a.chains EXCEPT !.policy = "DROP"]
    <3>1. c \in Chains /\ c.policy = "DROP" /\ c.rules = a.chains.rules
      BY <1>8 DEF Chains
    <3>2. b = IF a.packages THEN [a EXCEPT !.chains = c] ELSE a
      BY <2>1
    <3> HIDE DEF b, c
    <3>3. b \in AlpineType /\ b.address = a.address /\ b.local = a.local
          /\ b.netstart = a.netstart /\ b.saved = a.saved /\ b.packages = a.packages
          /\ b.restore = a.restore /\ b.chains = IF a.packages THEN c ELSE a.chains
      BY <1>5, <3>1, <3>2 DEF AlpineType
    <3> QED
      BY <3>1, <3>3
  <2> HIDE DEF b
  <2> QED
    BY <1>2, <1>4, <1>6, <1>13, <2>2 DEF HostGood, PolicySet
<1>14. CASE op = "rules"
  <2>1. b = IF a.packages THEN [a EXCEPT !.chains.rules = TRUE] ELSE a
    BY <1>14 DEF ConfigAlpine, a
  <2>2. b \in AlpineType /\ b.address = a.address /\ b.local = a.local
        /\ b.netstart = a.netstart /\ b.saved = a.saved /\ b.packages = a.packages
        /\ b.chains.policy = a.chains.policy /\ b.restore = a.restore
        /\ (a.packages => b.chains.rules)
    <3> DEFINE c == [a.chains EXCEPT !.rules = TRUE]
    <3>1. c \in Chains /\ c.rules = TRUE /\ c.policy = a.chains.policy
      BY <1>8 DEF Chains
    <3>2. b = IF a.packages THEN [a EXCEPT !.chains = c] ELSE a
      BY <2>1
    <3> HIDE DEF b, c
    <3>3. b \in AlpineType /\ b.address = a.address /\ b.local = a.local
          /\ b.netstart = a.netstart /\ b.saved = a.saved /\ b.packages = a.packages
          /\ b.restore = a.restore /\ b.chains = IF a.packages THEN c ELSE a.chains
      BY <1>5, <3>1, <3>2 DEF AlpineType
    <3> QED
      BY <3>1, <3>3
  <2> HIDE DEF b
  <2> QED
    BY <1>2, <1>4, <1>6, <1>14, <2>2 DEF HostGood, PolicySet
<1>15. CASE op = "iptables-save"
  <2>1. b = [a EXCEPT !.saved = IF a.packages THEN a.chains ELSE Open]
    BY <1>15 DEF ConfigAlpine, a
  <2>2. Open \in Chains
    BY DEF Open, Chains
  <2>3. b \in AlpineType /\ b.address = a.address /\ b.local = a.local
        /\ b.netstart = a.netstart /\ b.packages = a.packages
        /\ b.chains = a.chains /\ b.restore = a.restore
        /\ (a.packages => b.saved = a.chains)
    BY <1>5, <1>8, <2>1, <2>2 DEF AlpineType
  <2>4. a.packages => a.chains.policy = "DROP" /\ a.chains.rules = TRUE
    <3>1. a.chains.rules \in BOOLEAN
      BY <1>8 DEF Chains
    <3> QED
      BY <1>4, <1>6, <1>15, <3>1 DEF HostGood, PolicySet
  <2>5. a.packages => a.chains = Locked
    BY <1>8, <2>4 DEF Chains, Locked
  <2> HIDE DEF b
  <2> QED
    BY <1>2, <1>4, <1>6, <1>15, <2>3, <2>5 DEF HostGood, PolicySet
<1>16. CASE op = "iptables.start"
  <2>1. b = [a EXCEPT !.restore = a.restore \/ h \in Sudo]
    BY <1>16 DEF ConfigAlpine, a
  <2>2. b \in AlpineType /\ b.address = a.address /\ b.local = a.local
        /\ b.netstart = a.netstart /\ b.packages = a.packages
        /\ b.chains = a.chains /\ b.saved = a.saved
    BY <1>5, <2>1 DEF AlpineType
  <2>3. a.packages => a.chains.policy = "DROP" /\ a.chains.rules = TRUE
    <3>1. a.chains.rules \in BOOLEAN
      BY <1>8 DEF Chains
    <3> QED
      BY <1>4, <1>6, <1>16, <3>1 DEF HostGood, PolicySet
  <2>4. a.packages => a.chains = Locked
    BY <1>8, <2>3 DEF Chains, Locked
  <2> HIDE DEF b
  <2> QED
    BY <1>2, <1>4, <1>6, <1>16, <2>2, <2>4 DEF HostGood, PolicySet
<1>17. CASE op \notin HostSet \cup {"net.start", "flush"}
  <2>1. b = a
    BY <1>7, <1>17 DEF ConfigAlpine, a, HostSet
  <2> HIDE DEF b
  <2> QED
    BY <1>2, <1>5, <1>6, <1>17, <2>1 DEF HostGood, HostSet
<1> QED
  BY <1>9, <1>10, <1>11, <1>12, <1>13, <1>14, <1>15, <1>16, <1>17 DEF HostSet

AfterReboot(a) ==
  [a EXCEPT !.address = a.netstart /\ a.local, !.chains = Restored(a)]

LEMMA AfterRebootType ==
  ASSUME NEW a \in AlpineType
  PROVE  AfterReboot(a) \in AlpineType
<1>1. Restored(a) \in Chains
  BY DEF Restored, AlpineType, Open, Chains
<1> HIDE DEF Restored
<1> QED
  BY <1>1 DEF AfterReboot, AlpineType

\* A reboot of a host the run is not at.
LEMMA HostRebooted ==
  ASSUME NEW h \in Hosts, NEW i \in Nat, NEW a \in AlpineType, HostGood(h, a, i),
         ~(i \in 1..Len(Script) /\ Script[i][1] = h)
  PROVE  HostGood(h, AfterReboot(a), i)
<1>1. /\ Before(i, h, "address") => Before(i, h, "local")
      /\ Before(i, h, "drop") => Before(i, h, "iptables.start")
      /\ Before(i, h, "rules") => Before(i, h, "drop")
      /\ Before(i, h, "iptables.start") => Before(i, h, "iptables-save")
  BY HostFacts
<1> DEFINE b == AfterReboot(a)
<1>2. /\ b.address = (a.netstart /\ a.local) /\ b.chains = Restored(a)
      /\ b.netstart = a.netstart /\ b.local = a.local /\ b.packages = a.packages
      /\ b.saved = a.saved /\ b.restore = a.restore
  BY DEF AfterReboot, AlpineType
<1>3. a.restore /\ a.local /\ a.packages => Restored(a) = a.saved
  BY DEF Restored
<1> HIDE DEF b
<1>4. HostGood(h, b, i)
  BY <1>1, <1>2, <1>3 DEF HostGood
<1> QED
  BY <1>4 DEF b

-----------------------------------------------------------------------------
(* Every step keeps the types and the invariant.                           *)

LEMMA NodeFacts ==
  ASSUME TypeOK, at # 0
  PROVE  /\ at \in 1..Len(Script) /\ Script[at] = <<Node, Op>> /\ ~complete /\ Reached = at
         /\ Node \in Sonic \cup Hosts /\ Op \in Words
<1>1. at \in 1..Len(Script) /\ ~complete
  BY ScriptLength DEF TypeOK
<1> QED
  BY <1>1, ScriptLength DEF Reached, Node, Op

LEMMA ReachedNat ==
  ASSUME TypeOK
  PROVE  Reached \in Nat /\ at \in Nat
BY ScriptLength DEF TypeOK, Reached

\* A run goes one command on, or has reached the end.
LEMMA AdvanceFacts ==
  ASSUME TypeOK, at # 0, Advance
  PROVE  /\ Reached' = at + 1 /\ at' \in {0, at + 1} /\ at' \in 0..Len(Script)
         /\ complete' \in BOOLEAN /\ (complete' => at' = 0)
<1>1. at \in 1..Len(Script) /\ Len(Script) \in Nat
  BY NodeFacts, ScriptLength
<1>2. CASE at = Len(Script)
  <2>1. at' = 0 /\ complete' = TRUE /\ Reached' = Len(Script) + 1
    BY <1>2 DEF Advance, Reached
  <2> QED
    BY <1>1, <1>2, <2>1
<1>3. CASE at # Len(Script)
  <2>1. at' = at + 1 /\ complete' = FALSE /\ Reached' = at + 1
    BY <1>3 DEF Advance, Reached
  <2>2. at + 1 \in 0..Len(Script)
    BY <1>1, <1>3
  <2>3. complete' \in BOOLEAN /\ ~complete'
    BY <2>1
  <2> QED
    BY <2>1, <2>2, <2>3
<1> QED
  BY <1>2, <1>3

LEMMA SonicHosts == Sonic \cap Hosts = {}
BY DeployAssumption DEF Sonic, Leaves, Spine

LEMMA InitType == Init => TypeOK
<1> SUFFICES ASSUME Init PROVE TypeOK
  OBVIOUS
<1>1. Open \in Chains
  BY DEF Open, Chains
<1>2. at \in 0..Len(Script)
  BY ScriptLength DEF Init
<1>3. sonic \in [Sonic -> SonicType]
  BY DEF Init, SonicType
<1>4. alpine \in [Hosts -> AlpineType]
  BY <1>1 DEF Init, AlpineType
<1>5. complete \in BOOLEAN /\ seen \in BOOLEAN /\ (complete => at = 0)
  BY Zenon DEF Init
<1>6. links \subseteq Leaves /\ troubles \in 0..MaxTroubles
  BY DeployAssumption DEF Init
<1> QED
  BY <1>2, <1>3, <1>4, <1>5, <1>6 DEF TypeOK

LEMMA InitDeployed == Init => Deployed
<1> SUFFICES ASSUME Init PROVE Deployed
  OBVIOUS
<1>1. Reached = 0 /\ at = 0
  BY DEF Init, Reached
<1>2. \A n, op : ~Before(0, n, op) /\ ~Step(0, n, op)
  BY ScriptLength DEF Before, Step
<1> QED
  BY <1>1, <1>2 DEF Deployed, SwitchOK, HostOK, SwitchGood, HostGood, Looked

\* What a run that is at no command, or at one of the first three, has to show.
LEMMA NothingPast ==
  ASSUME NEW i \in Nat, i <= 3
  PROVE  /\ \A n \in Sonic : \A s : SwitchGood(n, s, i)
         /\ \A h \in Hosts : \A a : HostGood(h, a, i)
<1>1. ASSUME NEW n \in Sonic, NEW op \in SwitchSet PROVE ~Before(i, n, op)
  BY <1>1, SwitchFacts DEF SwitchSet
<1>2. ASSUME NEW h \in Hosts, NEW op \in HostSet PROVE ~Before(i, h, op)
  BY <1>2, HostFacts
<1> QED
  BY <1>1, <1>2 DEF SwitchGood, HostGood, SwitchSet, HostSet

\* The address is not looked up at the command after one that is not the look.
LEMMA NotLooked ==
  ASSUME NEW i \in Nat, NEW f, NEW x, NEW j \in {0, i + 1},
         i \in 1..Len(Script) => Script[i][2] # "look"
  PROVE  /\ \A n \in Leaves : Looked(j, n, f, x)
         /\ \A h \in Hosts : Looked(j, h, f, x)
<1>1. \A n, op : ~Step(0, n, op)
  BY DEF Step
<1>2. \A n : ~Step(i, n, "look")
  BY DEF Step
<1>3. \A n \in Leaves : ~Step(i + 1, n, "address")
  BY <1>2, SwitchFacts DEF Sonic
<1>4. \A h \in Hosts : ~Step(i + 1, h, "address")
  BY <1>2, HostFacts
<1> QED
  BY <1>1, <1>3, <1>4 DEF Looked

\* A command whose effect on a node leaves it good when it is that node's and
\* is none of the node's own otherwise.
LEMMA CommandKeeps ==
  ASSUME TypeOK, Deployed, at # 0, Advance, Op # "look",
         \A n \in Sonic : SwitchGood(n, sonic'[n], at + 1),
         \A h \in Hosts : HostGood(h, alpine'[h], at + 1)
  PROVE  Deployed'
<1>1. Reached' = at + 1 /\ at' \in {0, at + 1} /\ at \in Nat /\ Script[at][2] # "look"
  BY AdvanceFacts, ReachedNat DEF Op
<1>2. /\ \A n \in Leaves : Looked(at', n, seen', sonic'[n].address)
      /\ \A h \in Hosts : Looked(at', h, seen', alpine'[h].address)
  BY <1>1, NotLooked
<1> QED
  BY <1>1, <1>2 DEF Deployed, SwitchOK, HostOK

LEMMA LinkStep ==
  ASSUME TypeOK, Deployed, Link
  PROVE  TypeOK' /\ Deployed'
<1>1. at # 0 /\ Advance /\ Op = "link" /\ UNCHANGED <<seen, sonic, alpine, troubles>>
      /\ links' = links \cup {Node}
  BY DEF Link
<1>2. at \in 1..Len(Script) /\ Script[at] = <<Node, "link">> /\ Reached = at
  BY <1>1, NodeFacts
<1>3. Node \in Leaves
  BY <1>2, ScriptRightful DEF Rightful
<1>4. TypeOK'
  BY <1>1, <1>3, AdvanceFacts DEF TypeOK
<1>5. \A n, op : Step(at, n, op) => op = "link"
  BY <1>2 DEF Step
<1>6. ASSUME NEW n \in Sonic PROVE SwitchGood(n, sonic'[n], at + 1)
  BY <1>1, <1>2, <1>5, SwitchPassed DEF Deployed, SwitchOK, SwitchSet
<1>7. ASSUME NEW h \in Hosts PROVE HostGood(h, alpine'[h], at + 1)
  BY <1>1, <1>2, <1>5, HostPassed DEF Deployed, HostOK, HostSet
<1> QED
  BY <1>1, <1>4, <1>6, <1>7, CommandKeeps

LEMMA TestStep ==
  ASSUME TypeOK, Deployed, Test
  PROVE  TypeOK' /\ Deployed'
<1>1. at # 0 /\ Advance /\ Op \in {"ping", "verify"}
      /\ UNCHANGED <<seen, links, sonic, alpine, troubles>>
  BY DEF Test
<1>2. at \in 1..Len(Script) /\ Script[at] = <<Node, Op>> /\ Reached = at
  BY <1>1, NodeFacts
<1>4. TypeOK'
  BY <1>1, AdvanceFacts DEF TypeOK
<1>5. \A n, op : Step(at, n, op) => op \in {"ping", "verify"}
  BY <1>1, <1>2 DEF Step
<1>6. ASSUME NEW n \in Sonic PROVE SwitchGood(n, sonic'[n], at + 1)
  BY <1>1, <1>2, <1>5, SwitchPassed DEF Deployed, SwitchOK, SwitchSet
<1>7. ASSUME NEW h \in Hosts PROVE HostGood(h, alpine'[h], at + 1)
  BY <1>1, <1>2, <1>5, HostPassed DEF Deployed, HostOK, HostSet
<1> QED
  BY <1>1, <1>4, <1>6, <1>7, CommandKeeps

LEMMA InstallStep ==
  ASSUME TypeOK, Deployed, Install
  PROVE  TypeOK' /\ Deployed'
<1>1. at # 0 /\ Advance /\ Op = "apk" /\ UNCHANGED <<seen, links, sonic, troubles>>
  BY DEF Install
<1>2. PICK online \in BOOLEAN : alpine' = [alpine EXCEPT ![Node].packages = @ \/ online]
  BY DEF Install
<1>3. at \in 1..Len(Script) /\ Script[at] = <<Node, "apk">> /\ Reached = at
  BY <1>1, NodeFacts
<1>4. Node \in Hosts
  BY <1>3, ScriptRightful DEF Rightful
<1> DEFINE x == alpine[Node].packages \/ online
           a == [alpine[Node] EXCEPT !.packages = x]
<1>5. alpine[Node] \in AlpineType /\ x \in BOOLEAN
  BY <1>4 DEF TypeOK
<1>6. alpine' = [alpine EXCEPT ![Node] = a]
  BY <1>2
<1>7. a \in AlpineType /\ HostGood(Node, a, at + 1)
  BY <1>3, <1>4, <1>5, HostInstalled DEF Deployed, HostOK, Step
<1> HIDE DEF a, x
<1>8. TypeOK'
  BY <1>1, <1>4, <1>6, <1>7, AdvanceFacts DEF TypeOK
<1>9. \A n, op : Step(at, n, op) => op = "apk"
  BY <1>3 DEF Step
<1>10. ASSUME NEW n \in Sonic PROVE SwitchGood(n, sonic'[n], at + 1)
  BY <1>1, <1>3, <1>9, SwitchPassed DEF Deployed, SwitchOK, SwitchSet
<1>11. ASSUME NEW h \in Hosts PROVE HostGood(h, alpine'[h], at + 1)
  <2>1. CASE h = Node
    <3>1. alpine'[h] = a
      BY <1>4, <1>6, <2>1 DEF TypeOK
    <3> QED
      BY <1>7, <2>1, <3>1
  <2>2. CASE h # Node
    <3>1. alpine'[h] = alpine[h]
      BY <1>6, <2>2 DEF TypeOK
    <3> QED
      BY <1>3, <1>9, <3>1, HostPassed DEF Deployed, HostOK, HostSet
  <2> QED
    BY <2>1, <2>2
<1> QED
  BY <1>1, <1>8, <1>10, <1>11, CommandKeeps

LEMMA LookStep ==
  ASSUME TypeOK, Deployed, Look
  PROVE  TypeOK' /\ Deployed'
<1>1. at # 0 /\ Advance /\ Op = "look" /\ UNCHANGED <<links, sonic, alpine, troubles>>
  BY DEF Look
<1>2. at \in 1..Len(Script) /\ Script[at] = <<Node, "look">> /\ Reached = at /\ at \in Nat
  BY <1>1, NodeFacts
<1>3. Node \in Leaves \cup Hosts
  BY <1>2, ScriptRightful DEF Rightful
<1>4. /\ Node \in Leaves => seen' = sonic[Node].address
      /\ Node \notin Leaves =>
           \E lastLine \in BOOLEAN : seen' = (alpine[Node].address /\ lastLine)
  BY DEF Look
<1>5. /\ Node \in Leaves => sonic[Node].address \in BOOLEAN /\ Node \notin Hosts
      /\ Node \in Hosts => alpine[Node].address \in BOOLEAN /\ Node \notin Leaves
  BY SonicHosts DEF TypeOK, Sonic, SonicType, AlpineType
<1>6. seen' \in BOOLEAN
  BY <1>3, <1>4, <1>5
<1>7. TypeOK'
  BY <1>1, <1>6, AdvanceFacts DEF TypeOK
<1>8. \A n, op : Step(at, n, op) => op = "look" /\ n = Node
  BY <1>2 DEF Step
<1>9. Reached' = at + 1 /\ at' \in {0, at + 1}
  BY <1>1, AdvanceFacts
<1>10. ASSUME NEW n \in Sonic PROVE SwitchGood(n, sonic'[n], at + 1)
  BY <1>1, <1>2, <1>8, SwitchPassed DEF Deployed, SwitchOK, SwitchSet
<1>11. ASSUME NEW h \in Hosts PROVE HostGood(h, alpine'[h], at + 1)
  BY <1>1, <1>2, <1>8, HostPassed DEF Deployed, HostOK, HostSet
<1>12. \A n, op : ~Step(0, n, op)
  BY DEF Step
<1>13. ASSUME NEW n \in Leaves PROVE Looked(at', n, seen', sonic'[n].address)
  <2>1. Step(at', n, "address") => n = Node
    BY <1>2, <1>8, <1>9, <1>12, SwitchFacts, <1>13 DEF Sonic
  <2> QED
    BY <1>1, <1>4, <1>13, <2>1 DEF Looked
<1>14. ASSUME NEW h \in Hosts PROVE Looked(at', h, seen', alpine'[h].address)
  <2>1. Step(at', h, "address") => h = Node
    BY <1>2, <1>8, <1>9, <1>12, HostFacts, <1>14
  <2> QED
    BY <1>1, <1>4, <1>5, <1>14, <2>1 DEF Looked
<1> QED
  BY <1>7, <1>9, <1>10, <1>11, <1>13, <1>14 DEF Deployed, SwitchOK, HostOK

LEMMA ConfigureStep ==
  ASSUME TypeOK, Deployed, Configure
  PROVE  TypeOK' /\ Deployed'
<1>1. at # 0 /\ Advance /\ Op # "look" /\ UNCHANGED <<seen, links, troubles>>
  BY DEF Configure
<1>2. /\ at \in 1..Len(Script) /\ Script[at] = <<Node, Op>> /\ Reached = at
      /\ Node \in Sonic \cup Hosts
  BY <1>1, NodeFacts
<1>3. seen \in BOOLEAN /\ sonic \in [Sonic -> SonicType] /\ alpine \in [Hosts -> AlpineType]
  BY DEF TypeOK
<1>4. \A n, op : Step(at, n, op) => n = Node
  BY <1>2 DEF Step
<1>5. CASE Node \in Sonic
  <2>1. sonic' = [sonic EXCEPT ![Node] = ConfigSonic(Node, Op)] /\ alpine' = alpine
    BY <1>5 DEF Configure
  <2>2. /\ ConfigSonic(Node, Op) \in SonicType
        /\ SwitchGood(Node, ConfigSonic(Node, Op), at + 1)
    BY <1>2, <1>3, <1>5, SwitchConfigured DEF Deployed, SwitchOK
  <2> DEFINE t == ConfigSonic(Node, Op)
  <2>3. /\ t \in SonicType /\ SwitchGood(Node, t, at + 1)
        /\ sonic' = [sonic EXCEPT ![Node] = t]
    BY <2>1, <2>2
  <2> HIDE DEF t
  <2>4. TypeOK'
    BY <1>1, <1>3, <1>5, <2>1, <2>3, AdvanceFacts DEF TypeOK
  <2>5. ASSUME NEW n \in Sonic PROVE SwitchGood(n, sonic'[n], at + 1)
    <3>1. CASE n = Node
      BY <1>3, <2>3, <3>1
    <3>2. CASE n # Node
      <4>1. sonic'[n] = sonic[n]
        BY <1>3, <2>3, <3>2
      <4> QED
        BY <1>2, <1>4, <3>2, <4>1, SwitchPassed DEF Deployed, SwitchOK
    <3> QED
      BY <3>1, <3>2
  <2>6. ASSUME NEW h \in Hosts PROVE HostGood(h, alpine'[h], at + 1)
    <3>1. h # Node
      BY <1>5, SonicHosts
    <3> QED
      BY <1>2, <1>4, <2>1, <3>1, HostPassed DEF Deployed, HostOK
  <2> QED
    BY <1>1, <2>4, <2>5, <2>6, CommandKeeps
<1>6. CASE Node \in Hosts
  <2>0. Node \notin Sonic
    BY <1>6, SonicHosts
  <2>1. alpine' = [alpine EXCEPT ![Node] = ConfigAlpine(Node, Op)] /\ sonic' = sonic
    BY <2>0 DEF Configure
  <2>2. /\ ConfigAlpine(Node, Op) \in AlpineType
        /\ HostGood(Node, ConfigAlpine(Node, Op), at + 1)
    BY <1>2, <1>3, <1>6, HostConfigured DEF Deployed, HostOK
  <2> DEFINE t == ConfigAlpine(Node, Op)
  <2>3. /\ t \in AlpineType /\ HostGood(Node, t, at + 1)
        /\ alpine' = [alpine EXCEPT ![Node] = t]
    BY <2>1, <2>2
  <2> HIDE DEF t
  <2>4. TypeOK'
    BY <1>1, <1>3, <1>6, <2>1, <2>3, AdvanceFacts DEF TypeOK
  <2>5. ASSUME NEW h \in Hosts PROVE HostGood(h, alpine'[h], at + 1)
    <3>1. CASE h = Node
      BY <1>3, <2>3, <3>1
    <3>2. CASE h # Node
      <4>1. alpine'[h] = alpine[h]
        BY <1>3, <2>3, <3>2
      <4> QED
        BY <1>2, <1>4, <3>2, <4>1, HostPassed DEF Deployed, HostOK
    <3> QED
      BY <3>1, <3>2
  <2>6. ASSUME NEW n \in Sonic PROVE SwitchGood(n, sonic'[n], at + 1)
    <3>1. n # Node
      BY <2>0
    <3> QED
      BY <1>2, <1>4, <2>1, <3>1, SwitchPassed DEF Deployed, SwitchOK
  <2> QED
    BY <1>1, <2>4, <2>5, <2>6, CommandKeeps
<1> QED
  BY <1>2, <1>5, <1>6

LEMMA TroubleFacts ==
  ASSUME TypeOK, Trouble
  PROVE  troubles' \in 0..MaxTroubles
BY DeployAssumption DEF TypeOK, Trouble

\* What holds of a run that is at no command.
LEMMA NoRun ==
  ASSUME at' = 0, complete' = FALSE
  PROVE  Deployed'
<1>1. Reached' = 0
  BY DEF Reached
<1>2. \A n, op : ~Step(0, n, op)
  BY DEF Step
<1> QED
  BY <1>1, <1>2, NothingPast DEF Deployed, SwitchOK, HostOK, Looked

LEMMA CutStep ==
  ASSUME TypeOK, Deployed, Cut
  PROVE  TypeOK' /\ Deployed'
<1>1. at' = 0 /\ complete' = FALSE /\ Trouble /\ UNCHANGED <<seen, links, sonic, alpine>>
  BY DEF Cut
<1>2. TypeOK'
  <2>1. at' \in 0..Len(Script) /\ troubles' \in 0..MaxTroubles
    BY <1>1, TroubleFacts, ScriptLength
  <2>2. complete' \in BOOLEAN /\ ~complete'
    BY <1>1
  <2> QED
    BY <1>1, <2>1, <2>2 DEF TypeOK
<1> QED
  BY <1>1, <1>2, NoRun

LEMMA BeginStep ==
  ASSUME TypeOK, Deployed, Begin
  PROVE  TypeOK' /\ Deployed'
<1>1. /\ at' \in {1, 3} /\ complete' = FALSE /\ seen' = FALSE
      /\ UNCHANGED <<links, sonic, alpine, troubles>>
  <2>1. Len(Precheck) + 1 = 3
    BY DEF Precheck
  <2> QED
    BY <2>1 DEF Begin
<1>2. at' \in 1..Len(Script)
  <2>1. 3 <= Len(Script)
    <3>1. PICK k : k >= 2 /\ Marks(Script, Spine, SwitchOps(Spine), k)
      BY SwitchMark DEF Sonic
    <3>2. k \in Nat /\ k + Len(SwitchOps(Spine)) <= Len(Script)
      BY <3>1 DEF Marks
    <3>3. Len(SwitchOps(Spine)) = 6
      BY DEF SwitchOps, SpineOps
    <3> QED
      BY <3>1, <3>2, <3>3, ScriptLength
  <2> QED
    BY <1>1, <2>1, ScriptLength
<1>3. TypeOK'
  <2>1. at' \in 0..Len(Script)
    BY <1>2, ScriptLength
  <2>2. complete' \in BOOLEAN /\ ~complete' /\ seen' \in BOOLEAN
    BY <1>1
  <2> QED
    BY <1>1, <2>1, <2>2 DEF TypeOK
<1>4. Reached' = at' /\ at' \in Nat /\ at' <= 3
  BY <1>1 DEF Reached
<1> QED
  BY <1>1, <1>3, <1>4, NothingPast DEF Deployed, SwitchOK, HostOK, Looked

LEMMA ConsoleType ==
  ASSUME TypeOK, NEW n, Console(n)
  PROVE  at' \in 0..Len(Script) /\ complete' \in BOOLEAN /\ (complete' => at' = 0)
<1>1. CASE at # 0 /\ Node = n
  <2>1. at' = 0 /\ complete' = FALSE
    BY <1>1 DEF Console
  <2>2. 0 \in 0..Len(Script)
    BY ScriptLength
  <2> QED
    BY <2>1, <2>2
<1>2. CASE ~(at # 0 /\ Node = n)
  BY <1>2 DEF Console, TypeOK
<1> QED
  BY <1>1, <1>2

LEMMA RebootSonicStep ==
  ASSUME TypeOK, Deployed, NEW n \in Sonic, RebootSonic(n)
  PROVE  TypeOK' /\ Deployed'
<1>1. /\ sonic' = [sonic EXCEPT ![n] = Rebooted(sonic[n])]
      /\ Console(n) /\ Trouble /\ UNCHANGED <<seen, links, alpine>>
  BY DEF RebootSonic
<1>2. sonic \in [Sonic -> SonicType] /\ Rebooted(sonic[n]) \in SonicType
  BY RebootedType DEF TypeOK
<1>3. sonic' \in [Sonic -> SonicType]
  <2> HIDE DEF Rebooted
  <2> QED
    BY <1>1, <1>2
<1>4. TypeOK'
  <2>1. at' \in 0..Len(Script) /\ complete' \in BOOLEAN /\ (complete' => at' = 0)
    BY <1>1, ConsoleType
  <2> QED
    BY <1>1, <1>3, <2>1, TroubleFacts DEF TypeOK
<1>5. CASE at # 0 /\ Node = n
  BY <1>1, <1>4, <1>5, NoRun DEF Console
<1>6. CASE ~(at # 0 /\ Node = n)
  <2>1. at' = at /\ complete' = complete /\ Reached' = Reached /\ Reached \in Nat
    BY <1>1, <1>6, ReachedNat DEF Console, Reached
  <2>2. /\ ~(Reached \in 1..Len(Script) /\ Script[Reached][1] = n)
        /\ ~(at \in 1..Len(Script) /\ Script[at][1] = n)
    BY <1>6, ScriptLength DEF Reached, Node
  <2>3. SwitchGood(n, Rebooted(sonic[n]), Reached)
    BY <1>2, <2>1, <2>2, SwitchRebooted DEF TypeOK, Deployed, SwitchOK
  <2>4. ~Step(at, n, "address")
    BY <2>2 DEF Step
  <2>5. ASSUME NEW m \in Sonic
        PROVE  /\ SwitchGood(m, sonic'[m], Reached)
               /\ m \in Leaves => Looked(at, m, seen, sonic'[m].address)
    <3>1. CASE m = n
      <4>1. sonic'[m] = Rebooted(sonic[n])
        BY <1>1, <1>2, <3>1
      <4> QED
        BY <2>3, <2>4, <3>1, <4>1 DEF Looked
    <3>2. CASE m # n
      <4>1. sonic'[m] = sonic[m]
        BY <1>1, <1>2, <3>2
      <4> QED
        BY <4>1 DEF Deployed, SwitchOK
    <3> QED
      BY <3>1, <3>2
  <2>6. SwitchOK'
    BY <1>1, <2>1, <2>5 DEF SwitchOK
  <2>7. HostOK'
    BY <1>1, <2>1 DEF Deployed, HostOK
  <2> QED
    BY <1>4, <2>6, <2>7 DEF Deployed
<1> QED
  BY <1>5, <1>6

LEMMA RebootAlpineStep ==
  ASSUME TypeOK, Deployed, NEW h \in Hosts, RebootAlpine(h)
  PROVE  TypeOK' /\ Deployed'
<1>1. /\ alpine' = [alpine EXCEPT ![h] = AfterReboot(alpine[h])]
      /\ Console(h) /\ Trouble /\ UNCHANGED <<seen, links, sonic>>
  BY DEF RebootAlpine, AfterReboot
<1>2. alpine \in [Hosts -> AlpineType] /\ AfterReboot(alpine[h]) \in AlpineType
  BY AfterRebootType DEF TypeOK
<1>3. alpine' \in [Hosts -> AlpineType]
  BY <1>1, <1>2
<1>4. TypeOK'
  <2>1. at' \in 0..Len(Script) /\ complete' \in BOOLEAN /\ (complete' => at' = 0)
    BY <1>1, ConsoleType
  <2> QED
    BY <1>1, <1>3, <2>1, TroubleFacts DEF TypeOK
<1>5. CASE at # 0 /\ Node = h
  BY <1>1, <1>4, <1>5, NoRun DEF Console
<1>6. CASE ~(at # 0 /\ Node = h)
  <2>1. at' = at /\ complete' = complete /\ Reached' = Reached /\ Reached \in Nat
    BY <1>1, <1>6, ReachedNat DEF Console, Reached
  <2>2. /\ ~(Reached \in 1..Len(Script) /\ Script[Reached][1] = h)
        /\ ~(at \in 1..Len(Script) /\ Script[at][1] = h)
    BY <1>6, ScriptLength DEF Reached, Node
  <2>3. HostGood(h, AfterReboot(alpine[h]), Reached)
    BY <1>2, <2>1, <2>2, HostRebooted DEF TypeOK, Deployed, HostOK
  <2>4. ~Step(at, h, "address")
    BY <2>2 DEF Step
  <2>5. ASSUME NEW g \in Hosts
        PROVE  /\ HostGood(g, alpine'[g], Reached)
               /\ Looked(at, g, seen, alpine'[g].address)
    <3>1. CASE g = h
      <4>1. alpine'[g] = AfterReboot(alpine[h])
        BY <1>1, <1>2, <3>1
      <4> QED
        BY <2>3, <2>4, <3>1, <4>1 DEF Looked
    <3>2. CASE g # h
      <4>1. alpine'[g] = alpine[g]
        BY <1>1, <1>2, <3>2
      <4> QED
        BY <4>1 DEF Deployed, HostOK
    <3> QED
      BY <3>1, <3>2
  <2>6. HostOK'
    BY <1>1, <2>1, <2>5 DEF HostOK
  <2>7. SwitchOK'
    BY <1>1, <2>1 DEF Deployed, SwitchOK
  <2> QED
    BY <1>4, <2>6, <2>7 DEF Deployed
<1> QED
  BY <1>5, <1>6

LEMMA NextKeeps ==
  ASSUME TypeOK, Deployed, [Next]_vars
  PROVE  TypeOK' /\ Deployed'
<1>1. CASE Next
  BY <1>1, BeginStep, LinkStep, LookStep, InstallStep, TestStep, ConfigureStep, CutStep,
     RebootSonicStep, RebootAlpineStep
     DEF Next, Command, Reboot
<1>2. CASE UNCHANGED vars
  BY <1>2 DEF vars, TypeOK, Deployed, SwitchOK, HostOK, Reached
<1> QED
  BY <1>1, <1>2

\* A run's counter, what is on the disks and in the kernels keep their types:
\* the script never leaves its list of commands.
THEOREM TypeCorrect == Spec => []TypeOK
<1>1. TypeOK /\ Deployed /\ [Next]_vars => (TypeOK /\ Deployed)'
  BY NextKeeps
<1>2. Init => TypeOK /\ Deployed
  BY InitType, InitDeployed
<1> QED
  BY <1>1, <1>2, PTL DEF Spec

\* However often the run was cut and the nodes rebooted before, a node is as
\* the commands that are past have made it.
THEOREM AlwaysDeployed == Spec => []Deployed
<1>1. TypeOK /\ Deployed /\ [Next]_vars => (TypeOK /\ Deployed)'
  BY NextKeeps
<1>2. Init => TypeOK /\ Deployed
  BY InitType, InitDeployed
<1> QED
  BY <1>1, <1>2, PTL DEF Spec

\* Every switch survives a reboot after a complete run: what a command saved,
\* and the boot script, are on its disk, in whatever order runs were cut.
THEOREM CompleteAlwaysDurable == Spec => []CompleteIsDurable
<1>1. TypeOK /\ Deployed => CompleteIsDurable
  <2> SUFFICES ASSUME TypeOK, Deployed, complete, NEW n \in Sonic
               PROVE  /\ Rebooted(sonic[n]).address /\ Rebooted(sonic[n]).network
                      /\ Rebooted(sonic[n]).kernel
    BY DEF CompleteIsDurable
  <2>1. Reached = Len(Script) + 1 /\ Len(Script) \in Nat
    BY ScriptLength DEF Reached
  <2>2. \A op \in SwitchSet : Before(Reached, n, op)
    BY <2>1, SwitchFacts DEF SwitchSet
  <2>3. /\ sonic[n].saved = [address |-> TRUE, network |-> TRUE]
        /\ sonic[n].fixroutes /\ sonic[n].rclocal /\ sonic[n] \in SonicType
    BY <2>2 DEF TypeOK, Deployed, SwitchOK, SwitchGood, SwitchSet
  <2> QED
    BY <2>3 DEF Rebooted, SonicType
<1> QED
  BY <1>1, TypeCorrect, AlwaysDeployed, PTL

\* What the chains of both ends allow.
Allowed(h, service) ==
  service \in Outputs[h] /\ <<h, service>> \in Inputs[service[1]]

LEMMA TestsAllowed ==
  ASSUME NEW t \in Tests
  PROVE  /\ t[1] \in Hosts /\ t[2][1] \in Hosts /\ t[3] \in BOOLEAN
         /\ Allowed(t[1], t[2]) <=> t[3]
<1> DEFINE t1 == <<"WEB1", APP8080, TRUE>>
           t2 == <<"WEB1", DB3306, TRUE>>
           t3 == <<"WEB1", <<"APP", 9999>>, FALSE>>
           t4 == <<"WEB1", <<"DB", 80>>, FALSE>>
           t5 == <<"DB", APP8080, FALSE>>
           all == {t1, t2, t3, t4, t5}
<1>1. t \in all
  <2>1. Tests = {x \in all : x[1] \in Hosts /\ x[2][1] \in Hosts}
    BY DEF Tests
  <2> HIDE DEF all
  <2> QED
    BY <2>1
<1>2. t[1] \in Hosts /\ t[2][1] \in Hosts
  BY DEF Tests
<1>3. /\ Outputs["WEB1"] = {APP8080, DB3306} /\ Outputs["DB"] = {}
      /\ <<"WEB1", APP8080>> \in Inputs["APP"] /\ <<"WEB1", DB3306>> \in Inputs["DB"]
  BY DEF Outputs, Inputs
<1>4. APP8080[1] = "APP" /\ DB3306[1] = "DB"
  BY DEF APP8080, DB3306
<1> DEFINE Right(x) == x[3] \in BOOLEAN /\ (Allowed(x[1], x[2]) <=> x[3])
<1>5. Right(t1)
  <2>1. Allowed("WEB1", APP8080)
    BY <1>3, <1>4 DEF Allowed
  <2> QED
    BY <2>1
<1>6. Right(t2)
  <2>1. Allowed("WEB1", DB3306)
    BY <1>3, <1>4 DEF Allowed
  <2> QED
    BY <2>1
<1>7. Right(t3)
  <2>1. <<"APP", 9999>> \notin {APP8080, DB3306}
    BY DEF APP8080, DB3306
  <2>2. ~Allowed("WEB1", <<"APP", 9999>>)
    BY <1>3, <2>1 DEF Allowed
  <2> QED
    BY <2>2
<1>8. Right(t4)
  <2>1. <<"DB", 80>> \notin {APP8080, DB3306}
    BY DEF APP8080, DB3306
  <2>2. ~Allowed("WEB1", <<"DB", 80>>)
    BY <1>3, <2>1 DEF Allowed
  <2> QED
    BY <2>2
<1>9. Right(t5)
  <2>1. ~Allowed("DB", APP8080)
    BY <1>3 DEF Allowed
  <2> QED
    BY <2>1
<1> HIDE DEF t1, t2, t3, t4, t5, Right
<1>10. Right(t)
  BY <1>1, <1>5, <1>6, <1>7, <1>8, <1>9
<1> QED
  BY <1>2, <1>10 DEF Right

\* After a complete run the fabric does what its own tests ask, as long as the
\* four things the script leaves to chance are in place.
THEOREM VerifyAlwaysPasses == Spec => []VerifyWouldPass
<1> DEFINE Ready == /\ complete /\ links = Leaves
                    /\ \A n \in Sonic : sonic[n].kernel
                    /\ \A h \in Hosts : /\ alpine[h].packages /\ alpine[h].local
                                        /\ alpine[h].netstart /\ alpine[h].restore
<1>1. ASSUME TypeOK, Deployed, Ready PROVE \A t \in Tests : Passes(t[1], t[2]) = t[3]
  <2>1. Reached = Len(Script) + 1 /\ Len(Script) \in Nat
    BY <1>1, ScriptLength DEF Reached
  <2>2. ASSUME NEW n \in Sonic PROVE Works(n)
    <3>1. \A op \in SwitchSet : Before(Reached, n, op)
      BY <2>1, SwitchFacts DEF SwitchSet
    <3> QED
      BY <1>1, <3>1 DEF Deployed, SwitchOK, SwitchGood, SwitchSet, Works
  <2>3. ASSUME NEW h \in Hosts PROVE alpine[h].address /\ alpine[h].chains = Locked
    <3>1. \A op \in HostSet : Before(Reached, h, op)
      BY <2>1, HostFacts DEF HostSet
    <3> QED
      BY <1>1, <3>1 DEF Deployed, HostOK, HostGood, HostSet
  <2>4. ASSUME NEW h \in Hosts, NEW g \in Hosts PROVE Path(h, g)
    <3>1. LeafOf(h) \in Leaves /\ LeafOf(g) \in Leaves /\ Leaves \subseteq Sonic /\ Spine \in Sonic
      BY DEF LeafOf, Leaves, Sonic
    <3>2. \A l \in Leaves : sonic[l].network
      BY <2>2, <3>1 DEF Works
    <3> QED
      BY <1>1, <2>2, <2>3, <3>1, <3>2 DEF Path
  <2>5. ASSUME NEW h \in Hosts
        PROVE  alpine[h].chains.policy # "ACCEPT" /\ alpine[h].chains.rules = TRUE
    BY <2>3 DEF Locked
  <2>6. ASSUME NEW h \in Hosts, NEW service, service[1] \in Hosts
        PROVE  Passes(h, service) <=> Allowed(h, service)
    <3> DEFINE g == service[1]
    <3>1. /\ Path(h, g)
          /\ alpine[h].chains.policy # "ACCEPT" /\ alpine[h].chains.rules = TRUE
          /\ alpine[g].chains.policy # "ACCEPT" /\ alpine[g].chains.rules = TRUE
      BY <2>4, <2>5, <2>6
    <3> QED
      BY <3>1 DEF Passes, Permits, Allowed
  <2>7. ASSUME NEW t \in Tests PROVE Passes(t[1], t[2]) = t[3]
    <3>1. Passes(t[1], t[2]) <=> t[3]
      BY <2>6, TestsAllowed
    <3>2. Passes(t[1], t[2]) \in BOOLEAN /\ t[3] \in BOOLEAN
      BY TestsAllowed DEF Passes
    <3> QED
      BY <3>1, <3>2
  <2> QED
    BY <2>7
<1>2. TypeOK /\ Deployed => VerifyWouldPass
  BY <1>1 DEF VerifyWouldPass
<1> QED
  BY <1>2, TypeCorrect, AlwaysDeployed, PTL

Closed(a) == /\ a.chains.policy = "DROP" /\ a.saved = Locked
             /\ a.restore /\ a.local /\ a.packages

\* A command keeps a closed host closed: the script empties the chains under a
\* policy of DROP and saves them when the rules are in place again.
LEMMA ClosedConfigured ==
  ASSUME TypeOK, Deployed, at # 0, Node \in Hosts, Closed(alpine[Node])
  PROVE  Closed(ConfigAlpine(Node, Op))
<1> DEFINE a == alpine[Node]
           b == ConfigAlpine(Node, Op)
<1>1. /\ at \in 1..Len(Script) /\ Script[at] = <<Node, Op>> /\ Reached = at
      /\ Op \in Words /\ at \in Nat /\ Step(at, Node, Op)
  BY NodeFacts, ReachedNat DEF Step
<1>2. a \in AlpineType /\ a.chains \in Chains
  BY DEF TypeOK, AlpineType
<1>3. "open" \notin Words
  BY DEF Words
<1>4. Op = "iptables-save" => a.chains = Locked
  <2> SUFFICES ASSUME Op = "iptables-save" PROVE a.chains = Locked
    OBVIOUS
  <2>1. /\ Before(at, Node, "drop") /\ Before(at, Node, "rules")
        /\ ~Before(at, Node, "iptables.start")
    BY <1>1, HostFacts DEF PolicySet
  <2>2. a.chains.policy = "DROP" /\ a.chains.rules
    BY <1>1, <2>1 DEF Deployed, HostOK, HostGood, Closed
  <2>3. a.chains.rules \in BOOLEAN
    BY <1>2 DEF Chains
  <2>4. a.chains = [policy |-> "DROP", rules |-> TRUE]
    BY <1>2, <2>2, <2>3 DEF Chains
  <2> QED
    BY <2>4 DEF Locked
<1> SUFFICES Closed(b)
  OBVIOUS
<1> HIDE DEF a
<1>5. \/ b = a
      \/ b = [a EXCEPT !.address = TRUE]
      \/ b = [a EXCEPT !.netstart = a.netstart \/ Node \in Sudo]
      \/ b = [a EXCEPT !.local = TRUE]
      \/ b = [a EXCEPT !.chains.rules = FALSE]
      \/ b = [a EXCEPT !.chains.policy = "DROP"]
      \/ b = [a EXCEPT !.chains.rules = TRUE]
      \/ Op = "iptables-save" /\ b = [a EXCEPT !.saved = IF a.packages THEN a.chains ELSE Open]
      \/ b = [a EXCEPT !.restore = a.restore \/ Node \in Sudo]
  BY <1>1, <1>3 DEF ConfigAlpine, a
<1>6. Closed(a)
  BY DEF a
<1> HIDE DEF b
<1>7. CASE \/ b = a
           \/ b = [a EXCEPT !.address = TRUE]
           \/ b = [a EXCEPT !.netstart = a.netstart \/ Node \in Sudo]
           \/ b = [a EXCEPT !.local = TRUE]
           \/ b = [a EXCEPT !.restore = a.restore \/ Node \in Sudo]
  BY <1>2, <1>6, <1>7 DEF Closed, AlpineType
<1>8. CASE \/ b = [a EXCEPT !.chains.rules = FALSE]
           \/ b = [a EXCEPT !.chains.policy = "DROP"]
           \/ b = [a EXCEPT !.chains.rules = TRUE]
  <2>1. PICK c : /\ c.policy = "DROP" /\ b = [a EXCEPT !.chains = c]
    <3>1. ASSUME NEW x PROVE [a.chains EXCEPT !.rules = x].policy = "DROP"
      BY <1>2, <1>6 DEF Closed, Chains
    <3>2. [a.chains EXCEPT !.policy = "DROP"].policy = "DROP"
      BY <1>2 DEF Chains
    <3>3. \/ b = [a EXCEPT !.chains = [a.chains EXCEPT !.rules = FALSE]]
          \/ b = [a EXCEPT !.chains = [a.chains EXCEPT !.policy = "DROP"]]
          \/ b = [a EXCEPT !.chains = [a.chains EXCEPT !.rules = TRUE]]
      BY <1>8
    <3> QED
      BY <3>1, <3>2, <3>3
  <2> QED
    BY <1>2, <1>6, <2>1 DEF Closed, AlpineType
<1>9. CASE Op = "iptables-save" /\ b = [a EXCEPT !.saved = IF a.packages THEN a.chains ELSE Open]
  <2>1. a.chains = Locked
    BY <1>4, <1>9 DEF a
  <2>2. b = [a EXCEPT !.saved = Locked]
    BY <1>6, <1>9, <2>1 DEF Closed
  <2> QED
    BY <1>2, <1>6, <2>2 DEF Closed, AlpineType
<1> QED
  BY <1>5, <1>7, <1>8, <1>9

LEMMA ClosedRebooted ==
  ASSUME NEW a \in AlpineType, Closed(a)
  PROVE  Closed(AfterReboot(a))
<1> DEFINE b == AfterReboot(a)
<1>1. /\ b.chains = Restored(a) /\ b.saved = a.saved /\ b.restore = a.restore
      /\ b.local = a.local /\ b.packages = a.packages
  BY DEF AfterReboot, AlpineType
<1>2. Restored(a) = Locked /\ Locked.policy = "DROP"
  BY DEF Restored, Closed, Locked
<1> HIDE DEF b
<1>3. Closed(b)
  BY <1>1, <1>2 DEF Closed
<1> QED
  BY <1>3 DEF b

\* No step opens a host whose rules are on its disk and will be restored: not
\* a second run of the script over it, not its end half-way, not a reboot.
THEOREM AlwaysStaysClosed == Spec => StaysClosed
<1>1. ASSUME TypeOK, Deployed, Next, NEW h \in Hosts, Closed(alpine[h])
      PROVE  Closed(alpine'[h])
  <2>1. CASE UNCHANGED alpine
    BY <1>1, <2>1
  <2>2. alpine \in [Hosts -> AlpineType]
    BY <1>1 DEF TypeOK
  <2>3. CASE Install
    <3>1. PICK online \in BOOLEAN : alpine' = [alpine EXCEPT ![Node].packages = @ \/ online]
      BY <2>3 DEF Install
    <3>2. alpine'[h] = alpine[h] \/ alpine'[h] = [alpine[h] EXCEPT !.packages = @ \/ online]
      BY <2>2, <3>1
    <3> QED
      BY <1>1, <2>2, <3>2 DEF Closed, AlpineType
  <2>4. CASE Configure
    <3>1. \/ UNCHANGED alpine
          \/ Node \notin Sonic /\ alpine' = [alpine EXCEPT ![Node] = ConfigAlpine(Node, Op)]
      BY <2>4 DEF Configure
    <3>2. CASE Node \notin Sonic /\ alpine' = [alpine EXCEPT ![Node] = ConfigAlpine(Node, Op)]
      <4>1. CASE h = Node
        <5>1. alpine'[h] = ConfigAlpine(Node, Op)
          BY <2>2, <3>2, <4>1
        <5>2. at # 0
          BY <2>4 DEF Configure
        <5> QED
          BY <1>1, <4>1, <5>1, <5>2, ClosedConfigured
      <4>2. CASE h # Node
        <5>1. alpine'[h] = alpine[h]
          BY <2>2, <3>2, <4>2
        <5> QED
          BY <1>1, <5>1
      <4> QED
        BY <4>1, <4>2
    <3> QED
      BY <2>1, <3>1, <3>2
  <2>5. ASSUME NEW g \in Hosts, RebootAlpine(g) PROVE Closed(alpine'[h])
    <3>1. alpine' = [alpine EXCEPT ![g] = AfterReboot(alpine[g])]
      BY <2>5 DEF RebootAlpine, AfterReboot
    <3>2. alpine'[h] = alpine[h] \/ alpine'[h] = AfterReboot(alpine[h])
      BY <2>2, <3>1
    <3> QED
      BY <1>1, <2>2, <3>2, ClosedRebooted
  <2>6. \/ UNCHANGED alpine \/ Install \/ Configure
        \/ \E g \in Hosts : RebootAlpine(g)
    BY <1>1 DEF Next, Begin, Command, Link, Look, Test, Cut, Reboot, RebootSonic
  <2> QED
    BY <2>1, <2>3, <2>4, <2>5, <2>6
<1>2. ASSUME TypeOK, Deployed, [Next]_vars
      PROVE  [\A h \in Hosts : Durable(h) => Durable(h)']_vars
  BY <1>1, <1>2 DEF Durable, Closed, vars
<1>3. TypeOK /\ Deployed /\ [Next]_vars => [\A h \in Hosts : Durable(h) => Durable(h)']_vars
  BY <1>2
<1> QED
  BY <1>3, TypeCorrect, AlwaysDeployed, PTL DEF Spec, StaysClosed
=============================================================================
