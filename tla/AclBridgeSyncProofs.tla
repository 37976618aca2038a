------------------------- MODULE AclBridgeSyncProofs -------------------------
(***************************************************************************)
(* ConfigDB and the packet filter of one leaf: when they agree, and what a *)
(* restart restores.  Two situations let the bridge rely on the line       *)
(* numbers it has listed: a startup that nothing disturbs, whatever was    *)
(* left behind before it, and a bridge that has one client at a time and   *)
(* whose iptables runs succeed.                                            *)
(***************************************************************************)
EXTENDS AclBridgeProofs, WellFoundedInduction, FiniteSetTheorems

-----------------------------------------------------------------------------
(* Conditions on the constants.                                            *)

\* One client at a time, and iptables never fails.
Alone == MaxFaults = 0 /\ \A v, w \in Workers : v = w

\* No name starts with another one.
NamesApart == \A id \in RuleIds : Extending[id] = {id}

ValidBodies == {b \in Bodies : ValidRule(b)}

\* iptables takes the rule wherever the chains are: -I 2 needs the base rule,
\* which only FORWARD has, and a port needs a protocol with ports.
Placeable(r) ==
  CommandAccepted(r) /\ (r.chain = "FORWARD" \/ r.priority \notin 100..999)

\* The rules clients send are such, with each other's ports too: HSET may have
\* left them there.
BodiesPlaceable ==
  \A b, c \in ValidBodies : Placeable([b EXCEPT !.port = c.port])

\* All rules are for the chain c.
BodiesIn(c) == \A b \in ValidBodies : b.chain = c

\* A new version of a rule sets every optional field an older one had.
BodiesOverwrite == \A b, c \in ValidBodies : HashSet(c, b) = b

\* No update brings a rule-id of its own.
NamedByPath ==
  \A q \in Requests : \A i \in DOMAIN q.updates : q.updates[i].id = None

-----------------------------------------------------------------------------
(* The invariants.                                                         *)

\* Chains of ch that have a line of this name.
Held(ch, id) == {c \in ChainNames : LinesOf(ch[c], id) # {}}

\* The numbers of the lines a thread has listed are still those lines'.
Listed(t) ==
  /\ lines[t] = TaggedLines(chain[target[t].chain], target[t].id)
  /\ lines[t] # {}

Orderly == undisturbed \/ Alone

\* What holds while nobody else touches what a thread has listed.
OrderInv ==
  /\ undisturbed => \A w \in Workers : pc[w] = "idle"
  /\ Orderly => \A t \in Threads : pc[t] = "cut" => Listed(t)
  /\ Orderly /\ pc[Main] # "base" =>
       LinesOf(chain["FORWARD"], Established) # {}

Repairing == pc[Main] \in {"reconcile", "list", "cut"}
Removing  == pc[Main] \in {"list", "cut"}

\* In an undisturbed startup, what reconcile has not listed for repair or has
\* repaired already is installed.
StartInv ==
  undisturbed =>
    /\ Removing => configdb[target[Main].id] = None \/ target[Main].id \in todo
    /\ Repairing \/ Serving => \A id \in RuleIds :
         configdb[id] # None /\ Placeable(configdb[id]) =>
           \/ LinesOf(chain[configdb[id].chain], id) # {}
           \/ id \in todo

\* Rules of one chain c are nowhere else, and an orphan is to be removed, being
\* removed or gone.
OneChainInv(c) ==
  /\ \A id \in RuleIds : /\ Held(chain, id) \subseteq {c}
                         /\ configdb[id] # None => configdb[id].chain = c
  /\ Repairing => \A id \in RuleIds : seen[id] \in {c, None}
  /\ Removing => target[Main].chain = c
  /\ undisturbed /\ (Repairing \/ Serving) => \A id \in RuleIds :
       \/ configdb[id] # None \/ Held(chain, id) = {} \/ id \in todo
       \/ Removing /\ target[Main].id = id

\* Every stored rule is one iptables takes.
StoredInv ==
  \A id \in RuleIds : configdb[id] # None =>
    \E b, c \in ValidBodies : /\ configdb[id].port = c.port
                              /\ configdb[id].chain = b.chain
                              /\ configdb[id].protocol = b.protocol
                              /\ configdb[id].priority = b.priority

\* At most one line has this name.
Sole(ch, id) ==
  /\ \A c, d \in Held(ch, id) : c = d
  /\ \A c \in ChainNames : \A m, n \in LinesOf(ch[c], id) : m = n

\* A line of a stored name is the stored rule, in its chain.
Faithful(ch, db, id) ==
  db[id] # None =>
    \A c \in ChainNames : \A n \in LinesOf(ch[c], id) :
      c = db[id].chain /\ ch[c][n].rule = db[id]

Settled(ch, db, id) == db[id] = None <=> Held(ch, id) = {}

\* Somebody is at work on this name: the startup, or the handler that has
\* already removed, stored or erased something of it.
Underway(id) ==
  \/ pc[Main] \in {"base", "diff"}
  \/ Repairing /\ id \in todo
  \/ Removing /\ target[Main].id = id
  \/ \E w \in Workers :
       pc[w] \in {"list", "cut", "store", "apply"} /\ PathId(w) = id

\* The lines of a name are the one ConfigDB has, and that is one clients sent.
NameOK(ch, db, id) ==
  /\ Sole(ch, id) /\ Faithful(ch, db, id)
  /\ db[id] # None => db[id] \in ValidBodies

\* Where each name stands.
NamesInv ==
  \A id \in RuleIds :
    /\ NameOK(chain, configdb, id)
    /\ Settled(chain, configdb, id) \/ Underway(id)

\* What the handler of worker w relies on between its steps.
HandlerOK(w) ==
  /\ \A i \in DOMAIN req[w].updates : req[w].updates[i].id = None
  /\ pc[w] \in {"erase", "list", "cut"} =>
       target[w].id = PathId(w) /\ Held(chain, PathId(w)) \subseteq {target[w].chain}
  /\ pc[w] \in {"list", "cut"} /\ Deleting(w) => configdb[PathId(w)] = None
  /\ pc[w] \in {"store", "apply"} => Held(chain, PathId(w)) = {}
  /\ pc[w] = "apply" => configdb[PathId(w)] = Update(w).body

HandlerInv == \A w \in Workers : HandlerOK(w)

\* What reconcile relies on: nothing has drifted, so that it only has rules to
\* install and orphans to remove.
ReconcileInv ==
  /\ Repairing => \A id \in todo :
       IF seen[id] = None THEN Held(chain, id) = {}
       ELSE Held(chain, id) = {seen[id]} /\ configdb[id] = None
  /\ Removing => /\ configdb[target[Main].id] = None
                 /\ Held(chain, target[Main].id) \subseteq {target[Main].chain}
                 /\ target[Main].id \notin todo

SyncInv == NamesInv /\ HandlerInv /\ ReconcileInv

-----------------------------------------------------------------------------
(* Sets of line numbers.                                                   *)

\* A set of natural numbers has a least one.
LEMMA LeastNatural ==
  ASSUME NEW T \in SUBSET Nat, T # {}
  PROVE  \E x \in T : \A y \in T : x <= y
<1> DEFINE R == OpToRel(<, Nat)
<1>1. IsWellFoundedOn(R, Nat)
  BY NatLessThanWellFounded
<1>2. \A x, y \in Nat : ~(<<y, x>> \in R) => x <= y
  BY DEF OpToRel
<1> HIDE DEF R
<1>3. PICK x \in T : \A y \in T : ~(<<y, x>> \in R)
  BY <1>1, WFMin
<1>4. \A y \in T : x \in Nat /\ y \in Nat
  OBVIOUS
<1> QED
  BY <1>2, <1>3, <1>4

\* The greatest of some line numbers is one of them.
LEMMA GreatestLine ==
  ASSUME NEW n \in Nat, NEW S \in SUBSET (1..n), S # {}
  PROVE  Max(S) \in S /\ \A y \in S : Max(S) >= y
<1> DEFINE T == {k \in 0..n : n - k \in S}
<1>1. T \in SUBSET Nat
  OBVIOUS
<1>2. PICK x \in S : TRUE
  OBVIOUS
<1>3. n - x \in T
  <2>1. x \in 1..n
    OBVIOUS
  <2> QED
    BY <2>1, SMT
<1>4. PICK m \in T : \A y \in T : m <= y
  <2> HIDE DEF T
  <2> QED
    BY <1>1, <1>3, LeastNatural
<1>5. m \in 0..n /\ n - m \in S
  OBVIOUS
<1>6. \A y \in S : n - m >= y
  <2> SUFFICES ASSUME NEW y \in S PROVE n - m >= y
    OBVIOUS
  <2>1. y \in 1..n
    OBVIOUS
  <2>2. n - y \in T
    BY <2>1
  <2>3. m <= n - y
    BY <1>4, <2>2
  <2> QED
    BY <1>5, <2>1, <2>3
<1> QED
  BY <1>5, <1>6 DEF Max

-----------------------------------------------------------------------------
(* What an insertion, a removal and an addition do to the lines of a name. *)

\* The lines of a name are the same ones, perhaps at other places.
SameLines(s, t, tag) ==
  /\ \A n \in LinesOf(t, tag) : \E m \in LinesOf(s, tag) : t[n] = s[m]
  /\ \A m \in LinesOf(s, tag) : \E n \in LinesOf(t, tag) : t[n] = s[m]
  /\ (\A m, n \in LinesOf(s, tag) : m = n) => \A m, n \in LinesOf(t, tag) : m = n

\* Sequences that agree but for the place of one more line agree on the lines of
\* every name that line does not have.
LEMMA MovedLines ==
  ASSUME NEW s, NEW t, NEW tag, NEW L \in Nat, NEW p \in 1..L + 1,
         DOMAIN s = 1..L, DOMAIN t = 1..L + 1, t[p].tag # tag,
         \A j \in 1..L + 1 :
           j # p => t[j] = IF j < p THEN s[j] ELSE s[j - 1]
  PROVE  SameLines(s, t, tag) /\ SameLines(t, s, tag)
<1> DEFINE new(m) == IF m < p THEN m ELSE m + 1
           old(n) == IF n < p THEN n ELSE n - 1
<1>1. ASSUME NEW n \in LinesOf(t, tag)
      PROVE  old(n) \in LinesOf(s, tag) /\ t[n] = s[old(n)] /\ n = new(old(n))
  <2>1. n \in 1..L + 1 /\ n # p /\ t[n].tag = tag
    BY <1>1 DEF LinesOf
  <2>2. old(n) \in 1..L /\ t[n] = s[old(n)] /\ n = new(old(n))
    BY <2>1
  <2> QED
    BY <2>1, <2>2 DEF LinesOf
<1>2. ASSUME NEW m \in LinesOf(s, tag)
      PROVE  new(m) \in LinesOf(t, tag) /\ t[new(m)] = s[m] /\ m = old(new(m))
  <2>1. m \in 1..L /\ s[m].tag = tag
    BY <1>2 DEF LinesOf
  <2>2. /\ new(m) \in 1..L + 1 /\ t[new(m)] = s[m] /\ m = old(new(m))
    BY <2>1
  <2> QED
    BY <2>1, <2>2 DEF LinesOf
<1> HIDE DEF new, old
<1> QED
  BY <1>1, <1>2 DEF SameLines

\* The relation of a chain with itself, and with one that follows it.
LEMMA SameLinesReflexive == \A s, tag : SameLines(s, s, tag)
BY DEF SameLines

\* iptables -I or -A: the other names keep their lines, this one has a line, and
\* no other one if it had none.
LEMMA InsertedLines ==
  ASSUME NEW s \in Seq(LineType), NEW id \in RuleIds, NEW r \in RuleType,
         Position(r, Len(s)) \in 1..Len(s) + 1
  PROVE  LET t == Inserted(s, id, r) IN
         /\ \A tag : tag # id => SameLines(s, t, tag)
         /\ LinesOf(t, id) # {}
         /\ LinesOf(s, id) = {} =>
              /\ \A m, n \in LinesOf(t, id) : m = n
              /\ \A n \in LinesOf(t, id) : t[n].rule = r
<1> DEFINE p == Position(r, Len(s))
           e == Line(id, r)
           t == Inserted(s, id, r)
<1>1. p \in 1..Len(s) + 1 /\ Len(s) \in Nat /\ t = InsertAt(s, p, e)
      /\ DOMAIN s = 1..Len(s)
  BY LenProperties DEF Inserted
<1>2. e \in LineType /\ e.tag = id /\ e.rule = r
  BY DEF Line, LineType
<1> HIDE DEF p, e, t
<1>3. /\ t \in Seq(LineType) /\ DOMAIN t = 1..Len(s) + 1
      /\ \A j \in 1..Len(s) + 1 :
           t[j] = IF j < p THEN s[j] ELSE IF j = p THEN e ELSE s[j - 1]
  <2>1. /\ InsertAt(s, p, e) \in Seq(LineType)
        /\ Len(InsertAt(s, p, e)) = Len(s) + 1
    BY <1>1, <1>2, InsertedSeq
  <2>2. \A j \in 1..Len(s) + 1 :
          InsertAt(s, p, e)[j] =
            IF j < p THEN s[j] ELSE IF j = p THEN e ELSE s[j - 1]
    BY <1>1, <1>2, InsertedElements
  <2> QED
    BY <1>1, <2>1, <2>2, LenProperties
<1>4. t[p] = e /\ p \in LinesOf(t, id)
  BY <1>1, <1>2, <1>3 DEF LinesOf
<1>5. ASSUME NEW tag, tag # id PROVE SameLines(s, t, tag)
  <2>1. \A j \in 1..Len(s) + 1 :
          j # p => t[j] = IF j < p THEN s[j] ELSE s[j - 1]
    BY <1>1, <1>3
  <2>2. t[p].tag # tag
    BY <1>2, <1>4, <1>5
  <2> QED
    BY <1>1, <1>3, <2>1, <2>2, MovedLines
<1>6. ASSUME LinesOf(s, id) = {}, NEW n \in LinesOf(t, id) PROVE n = p
  <2>1. n \in 1..Len(s) + 1 /\ t[n].tag = id
    BY <1>3 DEF LinesOf
  <2>2. \A j \in 1..Len(s) : s[j].tag # id
    BY <1>1, <1>6 DEF LinesOf
  <2>3. CASE n < p
    <3>1. n \in 1..Len(s) /\ t[n] = s[n]
      BY <1>1, <1>3, <2>1, <2>3
    <3> QED
      BY <2>1, <2>2, <3>1
  <2>4. CASE n > p
    <3>1. n - 1 \in 1..Len(s) /\ t[n] = s[n - 1]
      BY <1>1, <1>3, <2>1, <2>4
    <3> QED
      BY <2>1, <2>2, <3>1
  <2> QED
    BY <1>1, <2>1, <2>3, <2>4
<1> QED
  BY <1>2, <1>4, <1>5, <1>6 DEF t

\* iptables -D: the names the line does not have keep their lines.
LEMMA RemovedLines ==
  ASSUME NEW s \in Seq(LineType), NEW n \in DOMAIN s,
         NEW tag, tag # s[n].tag
  PROVE  SameLines(s, RemoveAt(s, n), tag)
<1> DEFINE t == RemoveAt(s, n)
           L == Len(s) - 1
<1>1. Len(s) \in Nat /\ DOMAIN s = 1..Len(s) /\ n \in 1..Len(s)
  BY LenProperties
<1>2. /\ t \in Seq(LineType) /\ Len(t) = Len(s) - 1
      /\ \A j \in 1..Len(s) - 1 : t[j] = IF j < n THEN s[j] ELSE s[j + 1]
  BY <1>1, RemovedElements
<1> HIDE DEF t
<1>3. L \in Nat /\ n \in 1..L + 1 /\ DOMAIN s = 1..L + 1 /\ DOMAIN t = 1..L
  BY <1>1, <1>2, LenProperties
<1>4. ASSUME NEW j \in 1..L + 1, j # n
      PROVE  s[j] = IF j < n THEN t[j] ELSE t[j - 1]
  BY <1>1, <1>2, <1>4
<1> HIDE DEF L
<1> QED
  BY <1>3, <1>4, MovedLines DEF t

\* Lines of any of the names T.
Having(s, T) == {k \in DOMAIN s : s[k].tag \in T}

\* Of the lines of some names, the last one is deleted: the numbers of the
\* others still are theirs.
LEMMA LastRemoved ==
  ASSUME NEW s \in Seq(LineType), NEW T, NEW n \in DOMAIN s,
         \A k \in Having(s, T) : k <= n
  PROVE  Having(RemoveAt(s, n), T) = Having(s, T) \ {n}
<1> DEFINE t == RemoveAt(s, n)
<1>1. Len(s) \in Nat /\ DOMAIN s = 1..Len(s) /\ n \in 1..Len(s)
  BY LenProperties
<1>2. /\ t \in Seq(LineType) /\ Len(t) = Len(s) - 1
      /\ \A j \in 1..Len(s) - 1 : t[j] = IF j < n THEN s[j] ELSE s[j + 1]
  BY <1>1, RemovedElements
<1> HIDE DEF t
<1>3. DOMAIN t = 1..Len(s) - 1
  BY <1>2, LenProperties
<1>4. \A k \in DOMAIN s : s[k].tag \in T => k <= n
  BY DEF Having
<1>5. ASSUME NEW k \in DOMAIN t, t[k].tag \in T
      PROVE  k \in DOMAIN s /\ s[k].tag \in T /\ k # n
  <2>1. k \in 1..Len(s) - 1 /\ k \in 1..Len(s) /\ k + 1 \in 1..Len(s)
    BY <1>1, <1>3
  <2>2. CASE k < n
    BY <1>1, <1>2, <1>5, <2>1, <2>2
  <2>3. CASE k >= n
    <3>1. t[k] = s[k + 1]
      BY <1>1, <1>2, <2>1, <2>3
    <3>2. k + 1 <= n
      BY <1>1, <1>4, <1>5, <2>1, <3>1
    <3> QED
      BY <1>1, <2>1, <2>3, <3>2
  <2> QED
    BY <1>1, <2>1, <2>2, <2>3
<1>6. ASSUME NEW k \in DOMAIN s, s[k].tag \in T, k # n
      PROVE  k \in DOMAIN t /\ t[k].tag \in T
  <2>1. k \in 1..Len(s) /\ k < n
    BY <1>1, <1>4, <1>6
  <2>2. k \in 1..Len(s) - 1 /\ t[k] = s[k]
    BY <1>1, <1>2, <2>1
  <2> QED
    BY <1>3, <1>6, <2>2
<1> QED
  BY <1>5, <1>6 DEF t, Having

\* iptables -A of the base rule: the other names keep their lines.
LEMMA AppendedLines ==
  ASSUME NEW s \in Seq(LineType)
  PROVE  /\ \A tag : tag # Established =>
              SameLines(s, Append(s, BaseLine(Established)), tag)
         /\ LinesOf(Append(s, BaseLine(Established)), Established) # {}
<1> DEFINE e == BaseLine(Established)
           t == Append(s, e)
           p == Len(s) + 1
<1>1. e.tag = Established
  BY DEF BaseLine, Line
<1> HIDE DEF e
<1>2. /\ Len(s) \in Nat /\ DOMAIN s = 1..Len(s) /\ DOMAIN t = 1..Len(s) + 1
      /\ t[Len(s) + 1] = e /\ \A j \in 1..Len(s) : t[j] = s[j]
  BY LenProperties
<1> HIDE DEF t
<1>3. /\ p \in 1..Len(s) + 1 /\ t[p].tag = Established
      /\ \A j \in 1..Len(s) + 1 : j # p => t[j] = IF j < p THEN s[j] ELSE s[j - 1]
  BY <1>1, <1>2
<1>4. p \in LinesOf(t, Established)
  BY <1>1, <1>2 DEF LinesOf
<1> HIDE DEF p
<1>5. ASSUME NEW tag, tag # Established PROVE SameLines(s, t, tag)
  BY <1>2, <1>3, <1>5, MovedLines
<1> QED
  BY <1>4, <1>5 DEF t, e

-----------------------------------------------------------------------------
(* The steps that change the packet filter, name by name.                  *)

\* A rule iptables takes: only its own name has other lines than before.
LEMMA InsertEffect ==
  ASSUME IInv, NEW id \in RuleIds, NEW r \in RuleType,
         Insertable(chain[r.chain], r),
         chain' = [chain EXCEPT ![r.chain] = Inserted(@, id, r)]
  PROVE  /\ \A d \in ChainNames : \A tag : tag # id =>
              SameLines(chain[d], chain'[d], tag)
         /\ \A d \in ChainNames : d # r.chain => chain'[d] = chain[d]
         /\ LinesOf(chain'[r.chain], id) # {}
         /\ LinesOf(chain[r.chain], id) = {} =>
              /\ \A m, n \in LinesOf(chain'[r.chain], id) : m = n
              /\ \A n \in LinesOf(chain'[r.chain], id) : chain'[r.chain][n].rule = r
<1> DEFINE c == r.chain
           s == chain[c]
<1>1. /\ c \in ChainNames /\ chain \in [ChainNames -> Seq(LineType)]
      /\ s \in Seq(LineType) /\ Position(r, Len(s)) \in 1..Len(s) + 1
  BY MainFacts DEF Insertable, RuleType
<1>2. /\ chain'[c] = Inserted(s, id, r)
      /\ \A d \in ChainNames : d # c => chain'[d] = chain[d]
  BY <1>1
<1> HIDE DEF c, s
<1>3. /\ \A tag : tag # id => SameLines(s, chain'[c], tag)
      /\ LinesOf(chain'[c], id) # {}
      /\ LinesOf(s, id) = {} =>
           /\ \A m, n \in LinesOf(chain'[c], id) : m = n
           /\ \A n \in LinesOf(chain'[c], id) : chain'[c][n].rule = r
  <2> DEFINE t == Inserted(s, id, r)
  <2>1. /\ \A tag : tag # id => SameLines(s, t, tag)
        /\ LinesOf(t, id) # {}
        /\ LinesOf(s, id) = {} =>
             /\ \A m, n \in LinesOf(t, id) : m = n
             /\ \A n \in LinesOf(t, id) : t[n].rule = r
    BY <1>1, InsertedLines
  <2>2. chain'[c] = t
    BY <1>2
  <2> HIDE DEF t
  <2> QED
    BY <2>1, <2>2
<1>4. ASSUME NEW d \in ChainNames, NEW tag, tag # id
      PROVE  SameLines(chain[d], chain'[d], tag)
  BY <1>2, <1>3, <1>4, SameLinesReflexive DEF s
<1> QED
  BY <1>2, <1>3, <1>4 DEF c, s

\* ensure_base_rules: no rule has other lines than before, and the base rule is
\* in FORWARD.
LEMMA EnsureBaseEffect ==
  ASSUME IInv, EnsureBaseRules
  PROVE  /\ \A d \in ChainNames : \A tag : tag # Established =>
              SameLines(chain[d], chain'[d], tag)
         /\ LinesOf(chain'["FORWARD"], Established) # {}
<1>1. /\ "FORWARD" \in ChainNames /\ chain \in [ChainNames -> Seq(LineType)]
  BY MainFacts DEF ChainNames
<1>2. CASE LinesOf(chain["FORWARD"], Established) # {}
  BY <1>2, SameLinesReflexive DEF EnsureBaseRules
<1>3. CASE LinesOf(chain["FORWARD"], Established) = {}
  <2>1. chain' = [chain EXCEPT !["FORWARD"] = Append(@, BaseLine(Established))]
    BY <1>3 DEF EnsureBaseRules
  <2>2. /\ chain'["FORWARD"] = Append(chain["FORWARD"], BaseLine(Established))
        /\ \A d \in ChainNames : d # "FORWARD" => chain'[d] = chain[d]
    BY <1>1, <2>1
  <2>3. chain["FORWARD"] \in Seq(LineType)
    BY <1>1
  <2>4. /\ \A tag : tag # Established =>
             SameLines(chain["FORWARD"], chain'["FORWARD"], tag)
        /\ LinesOf(chain'["FORWARD"], Established) # {}
    <3> DEFINE s == chain["FORWARD"]
               u == Append(s, BaseLine(Established))
    <3>1. s \in Seq(LineType) /\ chain'["FORWARD"] = u
      BY <2>2, <2>3
    <3> HIDE DEF s
    <3>2. /\ \A tag : tag # Established => SameLines(s, u, tag)
          /\ LinesOf(u, Established) # {}
      BY <3>1, AppendedLines
    <3> HIDE DEF u
    <3> QED
      BY <3>1, <3>2 DEF s
  <2> QED
    BY <2>2, <2>4, SameLinesReflexive
<1> QED
  BY <1>2, <1>3

\* A line number that still is what was listed: its line has a name that was
\* looked for, it is the only line to go, and the other numbers stay valid.
LEMMA CutEffect ==
  ASSUME IInv, NEW t \in Threads, CutLine(t), Listed(t)
  PROVE  LET c  == target[t].chain
             id == target[t].id
             n  == Max(lines[t]) IN
         /\ c \in ChainNames /\ id \in RuleIds
         /\ n \in lines[t] /\ n \in DOMAIN chain[c] /\ chain[c][n].tag \in Extending[id]
         /\ \A d \in ChainNames : d # c => chain'[d] = chain[d]
         /\ TaggedLines(chain'[c], id) = lines[t] \ {n}
         /\ \A d \in ChainNames : \A tag : tag # chain[c][n].tag =>
              SameLines(chain[d], chain'[d], tag)
<1> DEFINE c  == target[t].chain
           id == target[t].id
           n  == Max(lines[t])
           s  == chain[c]
<1>1. pc[t] = "cut"
  BY DEF CutLine
<1>2. /\ c \in ChainNames /\ id \in RuleIds
      /\ chain \in [ChainNames -> Seq(LineType)]
  BY <1>1, MainFacts DEF IInv, TargetOK, Targets
<1>3. /\ s \in Seq(LineType) /\ DOMAIN s = 1..Len(s) /\ Len(s) \in Nat
  BY <1>2, LenProperties
<1>4. /\ lines[t] = {k \in DOMAIN s : s[k].tag \in Extending[id]}
      /\ lines[t] # {}
  BY DEF Listed, TaggedLines
<1> HIDE DEF s
<1>5. lines[t] \in SUBSET (1..Len(s))
  BY <1>3, <1>4
<1>6. n \in lines[t] /\ \A k \in lines[t] : n >= k
  BY <1>3, <1>4, <1>5, GreatestLine
<1>7. n \in DOMAIN s /\ s[n].tag \in Extending[id]
  BY <1>4, <1>6
<1>8. chain' = [chain EXCEPT ![c] = RemoveAt(@, n)]
  BY <1>7 DEF CutLine, s
<1> HIDE DEF n
<1>9. chain'[c] = RemoveAt(s, n) /\ \A d \in ChainNames : d # c => chain'[d] = chain[d]
  BY <1>2, <1>8 DEF s
<1>10. \A k \in DOMAIN s : s[k].tag \in Extending[id] => k <= n
  <2> SUFFICES ASSUME NEW k \in DOMAIN s, s[k].tag \in Extending[id] PROVE k <= n
    OBVIOUS
  <2>1. n >= k /\ k \in Nat /\ n \in Nat
    BY <1>3, <1>4, <1>6, <1>7
  <2> QED
    BY <2>1
<1>11. TaggedLines(chain'[c], id) = lines[t] \ {n}
  <2> DEFINE T == Extending[id]
  <2>1. \A k \in Having(s, T) : k <= n
    BY <1>10 DEF Having
  <2>2. Having(RemoveAt(s, n), T) = Having(s, T) \ {n}
    BY <1>3, <1>7, <2>1, LastRemoved
  <2> QED
    BY <1>4, <1>9, <2>2 DEF TaggedLines, Having
<1>12. ASSUME NEW d \in ChainNames, NEW tag, tag # s[n].tag
       PROVE  SameLines(chain[d], chain'[d], tag)
  <2>1. CASE d = c
    BY <1>3, <1>7, <1>9, <1>12, <2>1, RemovedLines DEF s
  <2>2. CASE d # c
    BY <1>9, <2>2, SameLinesReflexive
  <2> QED
    BY <2>1, <2>2
<1> QED
  BY <1>2, <1>6, <1>7, <1>9, <1>11, <1>12 DEF n, s

-----------------------------------------------------------------------------
(* An orderly process: one thread at work, and no fault.                   *)

\* A step that is neither a fault nor the death of the process.
Proceeds ==
  \/ \E w \in Workers, q \in Requests : SetBegin(w, q)
  \/ \E w \in Workers : Handle(w)
  \/ Startup
  \/ UNCHANGED vars

\* After a fault the process is not undisturbed, and with MaxFaults = 0 there
\* is none: what leads to an orderly state is a crash or an orderly step.
LEMMA OrderlyStep ==
  ASSUME IInv, [Next]_vars, undisturbed' \/ Alone
  PROVE  Crash \/ (Proceeds /\ Orderly /\ (undisturbed' => undisturbed))
<1>1. ~Fault
  <2> SUFFICES ASSUME Fault PROVE FALSE
    OBVIOUS
  <2>1. Alone
    BY DEF Fault
  <2>2. faults \in Nat /\ faults < MaxFaults
    BY MainFacts DEF Fault
  <2> QED
    BY <2>1, <2>2 DEF Alone
<1>2. Crash \/ Proceeds
  BY <1>1 DEF Next, Proceeds, Failures, ListFails, CutFails, ApplyFails,
              ReconcileApplyFails, BaseRulesFail, ListAllFails, ApplyPolicy
<1>3. Proceeds /\ undisturbed' => undisturbed
  <2>1. (\E w \in Workers, q \in Requests : SetBegin(w, q)) /\ undisturbed' => undisturbed
    BY DEF SetBegin
  <2>2. (\E w \in Workers : Handle(w)) => undisturbed' = undisturbed
    BY DEF Handle, ReadDelete, EraseRule, ReadUpdate, StoreRule, ApplyRule,
           TakeSnapshot, SetEnd, ListLines, CutLine
  <2>3. Startup => undisturbed' = undisturbed
    BY DEF Startup, EnsureBaseRules, ReadBothSides, StartServer, ReconcileApply,
           ReconcileRemove, ListLines, CutLine
  <2>4. UNCHANGED vars => undisturbed' = undisturbed
    BY DEF vars
  <2> QED
    BY <2>1, <2>2, <2>3, <2>4 DEF Proceeds
<1> QED
  BY <1>2, <1>3 DEF Orderly

\* The main thread before it serves, one worker after.
LEMMA OneAtWork ==
  ASSUME IInv, OrderInv, Orderly, NEW s \in Threads, NEW t \in Threads,
         pc[s] \notin {"idle", "serve"}, pc[t] \notin {"idle", "serve"}
  PROVE  s = t
<1>1. \A w \in Workers : pc[w] # "idle" => pc[Main] = "serve"
  BY DEF IInv, StartupAlone
<1>2. undisturbed => \A w \in Workers : pc[w] = "idle"
  BY DEF OrderInv
<1>3. \A v, w \in Workers : pc[v] # "idle" /\ pc[w] # "idle" => v = w
  BY <1>2 DEF Orderly, Alone
<1> QED
  BY <1>1, <1>3 DEF Threads

\* What a handler's step and a startup's step leave of the other threads.
LEMMA OwnSteps ==
  ASSUME IInv, NEW t \in Threads,
         \/ t \in Workers /\ (Handle(t) \/ \E q \in Requests : SetBegin(t, q))
         \/ t = Main /\ Startup
  PROVE  \A u \in Threads \ {t} :
           pc'[u] = pc[u] /\ target'[u] = target[u] /\ lines'[u] = lines[u]
<1>1. /\ pc \in [Threads -> WorkerLabels \cup MainLabels]
      /\ target \in [Threads -> Targets \cup {None}]
      /\ lines \in [Threads -> SUBSET Nat]
  BY MainFacts DEF IInv, TypeOK, WorkerLabels, MainLabels
<1>2. ASSUME NEW w \in Workers, NEW q \in Requests, SetBegin(w, q)
      PROVE  \A u \in Threads \ {w} :
               pc'[u] = pc[u] /\ target'[u] = target[u] /\ lines'[u] = lines[u]
  BY <1>1, <1>2 DEF SetBegin, Goto
<1>3. ASSUME NEW u \in Threads, ListLines(u) \/ CutLine(u)
      PROVE  \A v \in Threads \ {u} :
               pc'[v] = pc[v] /\ target'[v] = target[v] /\ lines'[v] = lines[v]
  BY <1>1, <1>3 DEF ListLines, CutLine, Struck, Goto, rpcVars
<1>4. ASSUME NEW w \in Workers, Handle(w)
      PROVE  \A u \in Threads \ {w} :
               pc'[u] = pc[u] /\ target'[u] = target[u] /\ lines'[u] = lines[u]
  <2>1. CASE ListLines(w) \/ CutLine(w)
    BY <1>3, <2>1 DEF Threads
  <2>2. CASE ReadDelete(w) \/ ReadUpdate(w) \/ SetEnd(w)
    BY <1>1, <2>2 DEF ReadDelete, ReadUpdate, SetEnd, Finish, Goto
  <2>3. CASE EraseRule(w) \/ StoreRule(w) \/ ApplyRule(w) \/ TakeSnapshot(w)
    BY <1>1, <2>3 DEF EraseRule, StoreRule, ApplyRule, TakeSnapshot, Finish, Goto,
                      rpcVars
  <2> QED
    BY <1>4, <2>1, <2>2, <2>3 DEF Handle
<1>5. ASSUME Startup
      PROVE  \A u \in Threads \ {Main} :
               pc'[u] = pc[u] /\ target'[u] = target[u] /\ lines'[u] = lines[u]
  <2>1. CASE ListLines(Main) \/ CutLine(Main)
    BY <1>3, <2>1, MainFacts
  <2>2. CASE EnsureBaseRules \/ ReadBothSides \/ StartServer
    BY <1>1, <2>2 DEF EnsureBaseRules, ReadBothSides, StartServer, Goto, rpcVars
  <2>3. ASSUME NEW id \in RuleIds, ReconcileApply(id) \/ ReconcileRemove(id)
        PROVE  \A u \in Threads \ {Main} :
                 pc'[u] = pc[u] /\ target'[u] = target[u] /\ lines'[u] = lines[u]
    BY <1>1, <2>3 DEF ReconcileApply, ReconcileRemove, Goto, rpcVars
  <2> QED
    BY <1>5, <2>1, <2>2, <2>3 DEF Startup
<1> QED
  BY <1>2, <1>4, <1>5

\* Listing lines, or deleting the last of those listed, leaves a thread with
\* numbers that are right.
LEMMA ListedAgain ==
  ASSUME IInv, OrderInv, Orderly, NEW t \in Threads,
         ListLines(t) \/ CutLine(t), pc'[t] = "cut"
  PROVE  Listed(t)'
<1>1. /\ pc \in [Threads -> WorkerLabels \cup MainLabels]
      /\ lines \in [Threads -> SUBSET Nat]
      /\ target' = target
  BY MainFacts DEF IInv, TypeOK, WorkerLabels, MainLabels, ListLines, CutLine, rpcVars
<1>2. AfterRemoval(t) # "cut"
  BY DEF AfterRemoval
<1>3. CASE ListLines(t)
  <2> DEFINE found == TaggedLines(chain[target[t].chain], target[t].id)
  <2>1. /\ lines'[t] = found /\ chain' = chain
        /\ pc'[t] = IF found = {} THEN AfterRemoval(t) ELSE "cut"
    BY <1>1, <1>3 DEF ListLines, Goto
  <2>2. found # {}
    BY <1>2, <2>1
  <2> QED
    BY <1>1, <2>1, <2>2 DEF Listed
<1>4. CASE CutLine(t)
  <2> DEFINE n == Max(lines[t])
             c == target[t].chain
             id == target[t].id
  <2>1. pc[t] = "cut" /\ Listed(t)
    BY <1>4 DEF CutLine, OrderInv
  <2>2. n \in lines[t] /\ TaggedLines(chain'[c], id) = lines[t] \ {n}
    BY <1>4, <2>1, CutEffect
  <2>3. /\ lines'[t] = lines[t] \ {n}
        /\ pc'[t] = IF lines[t] = {n} THEN AfterRemoval(t) ELSE "cut"
    BY <1>1, <1>4 DEF CutLine, Struck, Goto
  <2>4. lines[t] # {n}
    BY <1>2, <2>3
  <2> HIDE DEF n
  <2>5. lines[t] \ {n} # {}
    BY <2>2, <2>4
  <2> QED
    BY <1>1, <2>2, <2>3, <2>5 DEF Listed
<1> QED
  BY <1>3, <1>4

\* The base rule is installed first, and nothing an orderly process does takes
\* it away.
LEMMA EstablishedStays ==
  ASSUME IInv, OrderInv, Orderly, Proceeds, pc'[Main] # "base"
  PROVE  LinesOf(chain'["FORWARD"], Established) # {}
<1>1. /\ "FORWARD" \in ChainNames /\ Established \notin RuleIds
      /\ \A id \in RuleIds : Established \notin Extending[id] /\ id # Established
  BY NamesAssumption DEF ChainNames, BaseTags
<1>2. CASE EnsureBaseRules
  BY <1>2, EnsureBaseEffect
<1>3. CASE ~EnsureBaseRules
  <2>1. pc[Main] # "base"
    <3> SUFFICES ASSUME pc[Main] = "base" PROVE pc'[Main] = "base"
      OBVIOUS
    <3>1. \A w \in Workers : pc[w] = "idle"
      BY DEF IInv, StartupAlone
    <3>2. ~\E w \in Workers, q \in Requests : SetBegin(w, q)
      BY DEF SetBegin, Serving
    <3>3. ~\E w \in Workers : Handle(w)
      BY <3>1 DEF Handle, ReadDelete, EraseRule, ReadUpdate, StoreRule, ApplyRule,
                  TakeSnapshot, SetEnd, ListLines, CutLine
    <3>4. ~Startup
      BY <1>3 DEF Startup, ReadBothSides, StartServer, ReconcileApply,
                  ReconcileRemove, ListLines, CutLine
    <3> QED
      BY <3>2, <3>3, <3>4 DEF Proceeds, vars
  <2>2. LinesOf(chain["FORWARD"], Established) # {}
    BY <2>1 DEF OrderInv
  <2>3. ASSUME SameLines(chain["FORWARD"], chain'["FORWARD"], Established)
        PROVE  LinesOf(chain'["FORWARD"], Established) # {}
    BY <2>2, <2>3 DEF SameLines
  <2>4. CASE chain' = chain
    BY <2>2, <2>4
  <2>5. ASSUME NEW w \in Workers, ApplyRule(w), chain' # chain
        PROVE  SameLines(chain["FORWARD"], chain'["FORWARD"], Established)
    <3>1. /\ Update(w).body \in RuleType /\ WrittenId(w) \in RuleIds
      BY <2>5, UpdateFacts DEF ApplyRule
    <3> DEFINE r == Update(w).body
               id == WrittenId(w)
    <3>2. /\ Insertable(chain[r.chain], r)
          /\ chain' = [chain EXCEPT ![r.chain] = Inserted(@, id, r)]
      BY <2>5 DEF ApplyRule
    <3>3. r \in RuleType /\ id \in RuleIds
      BY <3>1
    <3> HIDE DEF r, id
    <3> QED
      BY <1>1, <3>2, <3>3, InsertEffect
  <2>6. ASSUME NEW id \in RuleIds, ReconcileApply(id), chain' # chain
        PROVE  SameLines(chain["FORWARD"], chain'["FORWARD"], Established)
    <3> DEFINE r == configdb[id]
    <3>1. r \in RuleType
      BY <2>6, MainFacts DEF ReconcileApply, Missing
    <3>2. /\ Insertable(chain[r.chain], r)
          /\ chain' = [chain EXCEPT ![r.chain] = Inserted(@, id, r)]
      BY <2>6 DEF ReconcileApply
    <3> HIDE DEF r
    <3> QED
      BY <1>1, <3>1, <3>2, InsertEffect
  <2>7. ASSUME NEW t \in Threads, CutLine(t)
        PROVE  SameLines(chain["FORWARD"], chain'["FORWARD"], Established)
    <3>1. Listed(t)
      BY <2>7 DEF OrderInv, CutLine
    <3> DEFINE n == Max(lines[t])
               c == target[t].chain
    <3>2. /\ chain[c][n].tag \in Extending[target[t].id] /\ target[t].id \in RuleIds
          /\ \A tag : tag # chain[c][n].tag =>
               SameLines(chain["FORWARD"], chain'["FORWARD"], tag)
      BY <1>1, <2>7, <3>1, CutEffect
    <3> HIDE DEF n, c
    <3> QED
      BY <1>1, <3>2
  <2>8. ASSUME NEW w \in Workers, Handle(w), chain' # chain
        PROVE  ApplyRule(w) \/ CutLine(w)
    BY <2>8 DEF Handle, ReadDelete, EraseRule, ReadUpdate, StoreRule,
                TakeSnapshot, SetEnd, ListLines
  <2>9. ASSUME Startup, chain' # chain
        PROVE  (\E id \in RuleIds : ReconcileApply(id)) \/ CutLine(Main)
    BY <1>3, <2>9 DEF Startup, ReadBothSides, StartServer, ReconcileRemove, ListLines
  <2>10. (\E w \in Workers, q \in Requests : SetBegin(w, q)) => chain' = chain
    BY DEF SetBegin
  <2>11. UNCHANGED vars => chain' = chain
    BY DEF vars
  <2>12. Main \in Threads /\ Workers \subseteq Threads
    BY DEF Threads
  <2> QED
    BY <2>3, <2>4, <2>5, <2>6, <2>7, <2>8, <2>9, <2>10, <2>11, <2>12 DEF Proceeds
<1> QED
  BY <1>2, <1>3

\* The invariant of an orderly process holds after every step.
LEMMA OrderStep == IInv /\ OrderInv /\ [Next]_vars => OrderInv'
<1> SUFFICES ASSUME IInv, OrderInv, [Next]_vars PROVE OrderInv'
  OBVIOUS
<1>1. CASE Crash
  BY <1>1, ThreadsAssumption DEF Crash, OrderInv, Threads
<1>2. CASE ~Crash /\ ~Orderly'
  BY <1>2 DEF OrderInv, Orderly
<1>3. CASE ~Crash /\ Orderly'
  <2>1. Proceeds /\ Orderly /\ (undisturbed' => undisturbed)
    BY <1>3, OrderlyStep DEF Orderly
  <2>2. undisturbed' => \A w \in Workers : pc'[w] = "idle"
    <3> SUFFICES ASSUME undisturbed', NEW w \in Workers PROVE pc'[w] = "idle"
      OBVIOUS
    <3>1. undisturbed /\ w \in Threads \ {Main} /\ \A v \in Workers : pc[v] = "idle"
      BY <2>1, ThreadsAssumption DEF OrderInv, Threads
    <3>2. CASE Startup
      BY <3>1, <3>2, OwnSteps, MainFacts
    <3>3. CASE \E v \in Workers, q \in Requests : SetBegin(v, q)
      BY <3>1, <3>3 DEF SetBegin
    <3>4. ~\E v \in Workers : Handle(v)
      BY <3>1 DEF Handle, ReadDelete, EraseRule, ReadUpdate, StoreRule, ApplyRule,
                  TakeSnapshot, SetEnd, ListLines, CutLine
    <3>5. CASE UNCHANGED vars
      BY <3>1, <3>5 DEF vars
    <3> QED
      BY <2>1, <3>2, <3>3, <3>4, <3>5 DEF Proceeds
  <2>3. ASSUME NEW t \in Threads, pc'[t] = "cut" PROVE Listed(t)'
    <3>1. CASE ListLines(t) \/ CutLine(t)
      BY <2>1, <2>3, <3>1, ListedAgain
    <3>2. CASE ~(ListLines(t) \/ CutLine(t))
      <4>1. pc[t] = "cut" /\ target'[t] = target[t] /\ lines'[t] = lines[t]
        <5>1. pc \in [Threads -> WorkerLabels \cup MainLabels]
          BY DEF IInv, TypeOK, WorkerLabels, MainLabels
        <5>2. ASSUME NEW w \in Workers, Handle(w)
              PROVE  pc[t] = "cut" /\ target'[t] = target[t] /\ lines'[t] = lines[t]
          <6>1. CASE w # t
            BY <2>3, <5>2, <6>1, OwnSteps DEF Threads
          <6>2. CASE w = t
            BY <2>3, <3>2, <5>1, <5>2, <6>2
            DEF Handle, ReadDelete, EraseRule, ReadUpdate, StoreRule, ApplyRule,
                TakeSnapshot, SetEnd, Finish, Goto
          <6> QED
            BY <6>1, <6>2
        <5>3. ASSUME NEW w \in Workers, NEW q \in Requests, SetBegin(w, q)
              PROVE  pc[t] = "cut" /\ target'[t] = target[t] /\ lines'[t] = lines[t]
          BY <2>3, <5>1, <5>3 DEF SetBegin, Goto
        <5>4. ASSUME Startup
              PROVE  pc[t] = "cut" /\ target'[t] = target[t] /\ lines'[t] = lines[t]
          <6>1. CASE t # Main
            BY <2>3, <5>4, <6>1, OwnSteps, MainFacts
          <6>2. CASE t = Main
            BY <2>3, <3>2, <5>1, <5>4, <6>2
            DEF Startup, EnsureBaseRules, ReadBothSides, StartServer,
                ReconcileApply, ReconcileRemove, Goto, rpcVars
          <6> QED
            BY <6>1, <6>2
        <5>5. CASE UNCHANGED vars
          BY <2>3, <5>5 DEF vars
        <5> QED
          BY <2>1, <5>2, <5>3, <5>4, <5>5 DEF Proceeds
      <4>2. chain' = chain
        <5>1. ASSUME NEW u \in Threads, u # t, pc[u] \notin {"idle", "serve"} PROVE FALSE
          BY <2>1, <4>1, <5>1, OneAtWork
        <5>2. \A w \in Workers : ~Handle(w)
          <6> SUFFICES ASSUME NEW w \in Workers, Handle(w) PROVE FALSE
            OBVIOUS
          <6>1. pc[w] \notin {"idle", "serve"} /\ w \in Threads
            BY DEF Handle, ReadDelete, EraseRule, ReadUpdate, StoreRule, ApplyRule,
                   TakeSnapshot, SetEnd, ListLines, CutLine, Threads
          <6> QED
            BY <3>2, <4>1, <5>1, <6>1
            DEF Handle, ReadDelete, EraseRule, ReadUpdate, StoreRule, ApplyRule,
                TakeSnapshot, SetEnd
        <5>3. ~Startup
          <6> SUFFICES ASSUME Startup PROVE FALSE
            OBVIOUS
          <6>1. pc[Main] \notin {"idle", "serve"} /\ Main \in Threads
            BY DEF Startup, EnsureBaseRules, ReadBothSides, StartServer,
                   ReconcileApply, ReconcileRemove, ListLines, CutLine, Threads
          <6> QED
            BY <3>2, <4>1, <5>1, <6>1
            DEF Startup, EnsureBaseRules, ReadBothSides, StartServer,
                ReconcileApply, ReconcileRemove
        <5> QED
          BY <2>1, <5>2, <5>3 DEF Proceeds, SetBegin, vars
      <4>3. Listed(t)
        BY <2>1, <4>1 DEF OrderInv
      <4> QED
        BY <4>1, <4>2, <4>3 DEF Listed
    <3> QED
      BY <3>1, <3>2
  <2>4. pc'[Main] # "base" => LinesOf(chain'["FORWARD"], Established) # {}
    BY <2>1, EstablishedStays
  <2> QED
    BY <2>2, <2>3, <2>4 DEF OrderInv
<1> QED
  BY <1>1, <1>2, <1>3

\* It holds when the leaf first boots.
LEMMA OrderInit == Init => OrderInv
BY ThreadsAssumption DEF Init, OrderInv, Threads

\* In every state of every run, a process that nothing has disturbed yet, and
\* one with a single client and no failing command, deletes the lines it has
\* listed and keeps the base rule.
THEOREM OrderKept == Spec => []OrderInv
BY OrderInit, OrderStep, Invariant, PTL DEF Spec

\* One client at a time and no failing command: once ensure_base_rules has run,
\* the rule that lets replies through is never lost.
THEOREM EstablishedAlwaysKept == ASSUME Alone PROVE Spec => []EstablishedKept
<1>1. OrderInv => EstablishedKept
  BY DEF OrderInv, Orderly, EstablishedKept
<1> QED
  BY <1>1, OrderKept, PTL

-----------------------------------------------------------------------------
(* A startup that nothing disturbs installs what ConfigDB has.             *)

\* The three classes of priorities exclude each other.
LEMMA PriorityClasses ==
  ASSUME NEW p \in Int
  PROVE  /\ p < 100 \/ p \in 100..999 \/ p >= 1000
         /\ p \in 100..999 => ~(p < 100) /\ ~(p >= 1000)
         /\ p >= 1000 => ~(p < 100) /\ ~(p \in 100..999)
OBVIOUS

\* The places of the rules that do not go first.
LEMMA MiddleAndLast ==
  ASSUME NEW r, NEW n, NEW p \in Int, r.priority = p
  PROVE  /\ p \in 100..999 => Position(r, n) = 2
         /\ p >= 1000 => Position(r, n) = n + 1
<1> DEFINE first  == p < 100
           middle == p \in 100..999
           last   == p >= 1000
<1>1. Position(r, n) = CASE first -> 1 [] middle -> 2 [] last -> n + 1
  BY DEF Position
<1>2. /\ middle => ~first /\ ~last
      /\ last => ~first /\ ~middle
  BY PriorityClasses
<1> HIDE DEF first, middle, last
<1>3. middle => Position(r, n) = 2
  BY <1>1, <1>2, Z3
<1>4. last => Position(r, n) = n + 1
  BY <1>1, <1>2, Z3
<1> QED
  BY <1>3, <1>4 DEF middle, last

\* With the base rule in FORWARD, a rule that can be placed finds its place.
LEMMA PlaceableInsertable ==
  ASSUME NEW r \in RuleType, Placeable(r), NEW s \in Seq(LineType),
         r.chain = "FORWARD" => LinesOf(s, Established) # {}
  PROVE  Insertable(s, r)
<1>1. Len(s) \in Nat /\ DOMAIN s = 1..Len(s)
  BY LenProperties
<1>2. r.chain = "FORWARD" => Len(s) > 0
  BY <1>1 DEF LinesOf
<1>3. PICK p \in Int : r.priority = p
  <2>1. r.priority \in Int
    BY PriorityIsInt DEF RuleType
  <2> QED
    BY <2>1
<1>4. CommandAccepted(r)
  BY DEF Placeable
<1>5. CASE p < 100
  <2>1. Position(r, Len(s)) = 1
    BY <1>3, <1>5, TopPosition
  <2> QED
    BY <1>1, <2>1 DEF Insertable, Placeable
<1>6. CASE p \in 100..999
  <2>1. Position(r, Len(s)) = 2
    BY <1>3, <1>6, MiddleAndLast
  <2>2. Len(s) > 0
    BY <1>2, <1>3, <1>6 DEF Placeable
  <2>3. 2 \in 1..Len(s) + 1
    BY <1>1, <2>2
  <2> QED
    BY <1>4, <2>1, <2>3, Zenon DEF Insertable
<1>7. CASE p >= 1000
  <2>1. Position(r, Len(s)) = Len(s) + 1
    <3> DEFINE k == Len(s)
    <3> HIDE DEF k
    <3>1. Position(r, k) = k + 1
      BY <1>3, <1>7, MiddleAndLast
    <3> QED
      BY <3>1 DEF k
  <2>2. Len(s) + 1 \in 1..Len(s) + 1
    BY <1>1
  <2> QED
    BY <1>4, <2>1, <2>2, Zenon DEF Insertable
<1>8. p < 100 \/ p \in 100..999 \/ p >= 1000
  BY PriorityClasses
<1> QED
  BY <1>5, <1>6, <1>7, <1>8

\* A chain ListedChain names has a line of the rule.
LEMMA ListedChainHeld ==
  ASSUME NEW id, ListedChain(id) # None
  PROVE  ListedChain(id) \in Held(chain, id)
BY NamesAssumption DEF ListedChain, Held, ChainNames

\* reconcile's insertion: the other names keep their lines, and a rule that can
\* be placed has a line.
LEMMA ReconcileEffect ==
  ASSUME IInv, OrderInv, Orderly, NEW id \in RuleIds, ReconcileApply(id)
  PROVE  /\ configdb[id] \in RuleType
         /\ \A d \in ChainNames : \A tag : tag # id =>
              SameLines(chain[d], chain'[d], tag)
         /\ \A d \in ChainNames : d # configdb[id].chain => chain'[d] = chain[d]
         /\ Placeable(configdb[id]) => LinesOf(chain'[configdb[id].chain], id) # {}
<1> DEFINE r == configdb[id]
<1>1. r \in RuleType
  BY MainFacts DEF ReconcileApply, Missing
<1>2. /\ r.chain \in ChainNames /\ chain \in [ChainNames -> Seq(LineType)]
      /\ chain[r.chain] \in Seq(LineType)
  BY <1>1, MainFacts DEF RuleType
<1>3. LinesOf(chain["FORWARD"], Established) # {}
  BY DEF OrderInv, ReconcileApply
<1>4. Placeable(r) => Insertable(chain[r.chain], r)
  BY <1>1, <1>2, <1>3, PlaceableInsertable
<1>5. chain' = IF Insertable(chain[r.chain], r)
               THEN [chain EXCEPT ![r.chain] = Inserted(@, id, r)] ELSE chain
  BY DEF ReconcileApply
<1> HIDE DEF r
<1>6. CASE Insertable(chain[r.chain], r)
  <2>1. chain' = [chain EXCEPT ![r.chain] = Inserted(@, id, r)]
    BY <1>5, <1>6
  <2>2. /\ \A d \in ChainNames : \A tag : tag # id =>
             SameLines(chain[d], chain'[d], tag)
        /\ \A d \in ChainNames : d # r.chain => chain'[d] = chain[d]
        /\ LinesOf(chain'[r.chain], id) # {}
    BY <1>1, <1>6, <2>1, InsertEffect
  <2> QED
    BY <1>1, <2>2 DEF r
<1>7. CASE ~Insertable(chain[r.chain], r)
  BY <1>1, <1>4, <1>5, <1>7, SameLinesReflexive DEF r
<1> QED
  BY <1>6, <1>7

\* In an undisturbed process only the main thread moves, until the first Set.
LEMMA UndisturbedStep ==
  ASSUME IInv, OrderInv, [Next]_vars, undisturbed'
  PROVE  \/ Crash
         \/ undisturbed /\ Orderly /\ Startup
         \/ undisturbed /\ UNCHANGED <<configdb, chain, pc, target, todo, seen>>
<1>1. CASE ~Crash
  <2>1. Proceeds /\ Orderly /\ undisturbed /\ \A w \in Workers : pc[w] = "idle"
    BY <1>1, OrderlyStep DEF OrderInv
  <2>2. ~\E w \in Workers : Handle(w)
    BY <2>1 DEF Handle, ReadDelete, EraseRule, ReadUpdate, StoreRule, ApplyRule,
                TakeSnapshot, SetEnd, ListLines, CutLine
  <2>3. CASE \E w \in Workers, q \in Requests : SetBegin(w, q)
    BY <2>1, <2>3 DEF SetBegin, startVars
  <2>4. CASE UNCHANGED vars
    BY <2>1, <2>4 DEF vars
  <2> QED
    BY <2>1, <2>2, <2>3, <2>4 DEF Proceeds
<1> QED
  BY <1>1

\* What reconcile still has to repair is on its list: after every step.
LEMMA StartStep ==
  ASSUME NamesApart, IInv, OrderInv, StartInv, [Next]_vars
  PROVE  StartInv'
<1> DEFINE Installed(db, ch, id) ==
      db[id] # None /\ Placeable(db[id]) => LinesOf(ch[db[id].chain], id) # {}
<1> SUFFICES ASSUME undisturbed'
             PROVE  /\ Removing' => \/ configdb'[target'[Main].id] = None
                                    \/ target'[Main].id \in todo'
                    /\ Repairing' \/ Serving' => \A id \in RuleIds :
                         Installed(configdb', chain', id) \/ id \in todo'
  BY DEF StartInv
<1>1. CASE Crash
  BY <1>1 DEF Crash, Removing, Repairing, Serving, Threads
<1>2. CASE UNCHANGED <<configdb, chain, pc, target, todo, seen>> /\ undisturbed
  BY <1>2 DEF StartInv, Removing, Repairing, Serving
<1>3. CASE Startup /\ undisturbed /\ Orderly
  <2>1. /\ pc \in [Threads -> WorkerLabels \cup MainLabels] /\ Main \in Threads
        /\ target \in [Threads -> Targets \cup {None}]
        /\ configdb \in [RuleIds -> RuleType \cup {None}]
        /\ chain \in [ChainNames -> Seq(LineType)]
        /\ configdb' = configdb
    BY <1>3, MainFacts DEF IInv, TypeOK, WorkerLabels, MainLabels, Startup,
         EnsureBaseRules, ReadBothSides, StartServer, ReconcileApply,
         ReconcileRemove, ListLines, CutLine
  <2>2. /\ Removing => configdb[target[Main].id] = None \/ target[Main].id \in todo
        /\ Repairing \/ Serving => \A id \in RuleIds :
             Installed(configdb, chain, id) \/ id \in todo
    BY <1>3 DEF StartInv
  <2>3. CASE EnsureBaseRules
    BY <2>1, <2>3 DEF EnsureBaseRules, Goto, Removing, Repairing, Serving
  <2>4. CASE ReadBothSides
    <3>1. /\ pc'[Main] = "reconcile" /\ chain' = chain
          /\ todo' = Discrepancies([id \in RuleIds |-> ListedChain(id)])
      BY <2>1, <2>4 DEF ReadBothSides, Goto
    <3>2. ASSUME NEW id \in RuleIds, id \notin todo', configdb[id] # None
          PROVE  LinesOf(chain[configdb[id].chain], id) # {}
      <4>1. ListedChain(id) # None /\ configdb[id].chain = ListedChain(id)
        BY <3>1, <3>2 DEF Discrepancies
      <4> QED
        BY <4>1, ListedChainHeld DEF Held
    <3> QED
      BY <2>1, <3>1, <3>2 DEF Removing
  <2>5. CASE StartServer
    <3>1. Repairing /\ chain' = chain /\ todo' = todo /\ pc'[Main] = "serve"
      BY <2>1, <2>5 DEF StartServer, Goto, Repairing
    <3> QED
      BY <2>1, <2>2, <3>1 DEF Removing
  <2>6. ASSUME NEW id \in RuleIds, ReconcileApply(id)
        PROVE  /\ ~Removing'
               /\ \A j \in RuleIds : Installed(configdb, chain', j) \/ j \in todo'
    <3>1. /\ Repairing /\ pc' = pc /\ todo' = todo \ {id} /\ pc[Main] = "reconcile"
      BY <2>6 DEF ReconcileApply, Repairing
    <3>2. /\ \A d \in ChainNames : \A tag : tag # id =>
               SameLines(chain[d], chain'[d], tag)
          /\ Placeable(configdb[id]) => LinesOf(chain'[configdb[id].chain], id) # {}
      BY <1>3, <2>6, ReconcileEffect
    <3>3. ASSUME NEW j \in RuleIds, j # id, Installed(configdb, chain, j)
          PROVE  Installed(configdb, chain', j)
      <4> SUFFICES ASSUME configdb[j] # None, Placeable(configdb[j])
                   PROVE  LinesOf(chain'[configdb[j].chain], j) # {}
        OBVIOUS
      <4>1. configdb[j].chain \in ChainNames
        BY <2>1 DEF RuleType
      <4>2. SameLines(chain[configdb[j].chain], chain'[configdb[j].chain], j)
        BY <3>2, <3>3, <4>1
      <4> QED
        BY <3>3, <4>2 DEF SameLines
    <3> QED
      BY <2>2, <3>1, <3>2, <3>3 DEF Removing
  <2>7. ASSUME NEW id \in RuleIds, ReconcileRemove(id)
        PROVE  /\ configdb[target'[Main].id] = None \/ target'[Main].id \in todo'
               /\ \A j \in RuleIds : Installed(configdb, chain', j) \/ j \in todo'
    <3>1. /\ Repairing /\ chain' = chain /\ target'[Main].id = id
          /\ todo' = IF id \in Orphans THEN todo \ {id} ELSE todo
          /\ id \in Orphans \/ id \in Drifted
      BY <2>1, <2>7 DEF ReconcileRemove, Repairing
    <3> QED
      BY <2>2, <3>1 DEF Orphans, Drifted
  <2>8. CASE ListLines(Main)
    BY <2>1, <2>2, <2>8 DEF ListLines, Goto, rpcVars, startVars, Removing,
                            Repairing
  <2>9. CASE CutLine(Main)
    <3> DEFINE n == Max(lines[Main])
               c == target[Main].chain
               id == target[Main].id
    <3>1. Listed(Main) /\ Repairing /\ Removing
      BY <1>3, <2>1, <2>9 DEF OrderInv, CutLine, Repairing, Removing
    <3>2. /\ id \in RuleIds /\ chain[c][n].tag \in Extending[id]
          /\ \A d \in ChainNames : \A tag : tag # chain[c][n].tag =>
               SameLines(chain[d], chain'[d], tag)
      BY <2>1, <2>9, <3>1, CutEffect
    <3>3. chain[c][n].tag = id
      BY <3>2 DEF NamesApart
    <3>4. \A d \in ChainNames : \A tag : tag # id =>
            SameLines(chain[d], chain'[d], tag)
      BY <3>2, <3>3
    <3>5. target' = target /\ todo' = todo
      BY <2>9 DEF CutLine, rpcVars, startVars
    <3> HIDE DEF n, c
    <3>6. ASSUME NEW j \in RuleIds, j # id, Installed(configdb, chain, j)
          PROVE  Installed(configdb, chain', j)
      <4> SUFFICES ASSUME configdb[j] # None, Placeable(configdb[j])
                   PROVE  LinesOf(chain'[configdb[j].chain], j) # {}
        OBVIOUS
      <4>1. configdb[j].chain \in ChainNames
        BY <2>1 DEF RuleType
      <4>2. SameLines(chain[configdb[j].chain], chain'[configdb[j].chain], j)
        BY <3>4, <3>6, <4>1
      <4> QED
        BY <3>6, <4>2 DEF SameLines
    <3> QED
      BY <2>1, <2>2, <3>1, <3>5, <3>6
  <2> QED
    BY <1>3, <2>1, <2>3, <2>4, <2>5, <2>6, <2>7, <2>8, <2>9 DEF Startup
<1> QED
  BY <1>1, <1>2, <1>3, UndisturbedStep

\* A process that has only started up has installed every stored rule iptables
\* takes.
RestartInstalls ==
  Serving /\ undisturbed =>
    \A id \in RuleIds : configdb[id] # None /\ Placeable(configdb[id]) =>
      LinesOf(chain[configdb[id].chain], id) # {}

\* It holds when the leaf first boots: nothing is stored, and Main is at its
\* first step.
LEMMA StartInit == Init => StartInv
BY DEF Init, StartInv, Removing, Repairing, Serving, Threads

\* With names that are apart, whatever Sets, crashes, failing commands and
\* policy pushes came before: the next undisturbed startup installs every
\* stored rule that iptables takes.
THEOREM RestartAlwaysInstalls ==
  ASSUME NamesApart PROVE Spec => []RestartInstalls
<1>1. Init => OrderInv /\ StartInv
  BY OrderInit, StartInit
<1>2. IInv /\ (OrderInv /\ StartInv) /\ [Next]_vars => (OrderInv /\ StartInv)'
  BY OrderStep, StartStep
<1>3. IInv /\ (OrderInv /\ StartInv) => RestartInstalls
  BY DEF IInv, TodoOK, StartInv, RestartInstalls, Serving
<1> QED
  BY <1>1, <1>2, <1>3, Invariant, PTL DEF Spec

\* A rule with the chain, protocol and priority of one valid body and the port
\* of another is one iptables takes, if the bodies clients send are such.
LEMMA StoredPlaceable ==
  ASSUME IInv, StoredInv, BodiesPlaceable, NEW id \in RuleIds, configdb[id] # None
  PROVE  Placeable(configdb[id])
<1> DEFINE r == configdb[id]
<1>1. PICK b \in ValidBodies, c \in ValidBodies :
        /\ r.port = c.port /\ r.chain = b.chain
        /\ r.protocol = b.protocol /\ r.priority = b.priority
  BY DEF StoredInv
<1>2. Placeable([b EXCEPT !.port = c.port])
  BY DEF BodiesPlaceable
<1>3. b \in RuleType /\ c \in RuleType
  BY RequestsAssumption DEF ValidBodies
<1> DEFINE m == [b EXCEPT !.port = c.port]
<1>4. /\ m.port = r.port /\ m.chain = r.chain
      /\ m.protocol = r.protocol /\ m.priority = r.priority
  BY <1>1, <1>3 DEF RuleType
<1>5. Placeable(m)
  BY <1>2
<1> HIDE DEF m, r
<1>6. Placeable(r)
  BY <1>4, <1>5 DEF Placeable, CommandAccepted
<1> QED
  BY <1>6 DEF r

\* HSET takes chain, protocol and priority from the new rule and the port from
\* the new or from the old one.
LEMMA StoredStep ==
  ASSUME IInv, StoredInv, [Next]_vars PROVE StoredInv'
<1> DEFINE Made(r) == \E b, c \in ValidBodies :
             /\ r.port = c.port /\ r.chain = b.chain
             /\ r.protocol = b.protocol /\ r.priority = b.priority
<1> SUFFICES ASSUME NEW id \in RuleIds, configdb'[id] # None
             PROVE  Made(configdb'[id])
  BY DEF StoredInv
<1>1. configdb \in [RuleIds -> RuleType \cup {None}]
  BY MainFacts
<1>2. configdb[id] # None => Made(configdb[id])
  BY DEF StoredInv
<1>3. CASE configdb'[id] \in {configdb[id], None}
  BY <1>2, <1>3
<1>4. ASSUME NEW r \in RuleType, ValidRule(r), r \in Bodies,
             configdb'[id] = HashSet(configdb[id], r)
      PROVE  Made(configdb'[id])
  <2> DEFINE old == configdb[id]
             new == HashSet(old, r)
  <2>1. r \in ValidBodies
    BY <1>4 DEF ValidBodies
  <2>2. CASE old = None
    BY <1>4, <2>1, <2>2 DEF HashSet
  <2>3. CASE old # None
    <3>1. /\ new.chain = r.chain /\ new.protocol = r.protocol
          /\ new.priority = r.priority
          /\ new.port = r.port \/ new.port = old.port
      BY <1>4, <2>3 DEF HashSet, RuleType
    <3>2. PICK c \in ValidBodies : old.port = c.port
      BY <1>2, <2>3
    <3> HIDE DEF new, old
    <3>3. Made(new)
      BY <2>1, <3>1, <3>2
    <3> QED
      BY <1>4, <3>3 DEF new, old
  <2> QED
    BY <2>2, <2>3
<1> QED
  BY <1>3, <1>4, ConfigSteps

\* Nothing is stored when the leaf first boots.
LEMMA StoredInit == Init => StoredInv
BY DEF Init, StoredInv

\* If iptables takes what clients may send, an undisturbed startup puts every
\* stored rule into its chain.
THEOREM RestartAlwaysEnforces ==
  ASSUME NamesApart, BodiesPlaceable PROVE Spec => []RestartEnforces
<1>1. IInv /\ StoredInv /\ RestartInstalls => RestartEnforces
  BY StoredPlaceable DEF RestartInstalls, RestartEnforces
<1>2. IInv /\ StoredInv /\ [Next]_vars => StoredInv'
  BY StoredStep
<1> QED
  BY <1>1, <1>2, StoredInit, RestartAlwaysInstalls, Invariant, PTL DEF Spec

-----------------------------------------------------------------------------
(* Rules of one chain: a startup also removes what ConfigDB does not have. *)

\* Whatever the step, a chain that has no line of a rule gets one only if a rule
\* of that chain is admitted.
LEMMA NewLine ==
  ASSUME IInv, [Next]_vars, NEW d \in ChainNames, NEW id \in RuleIds,
         LinesOf(chain[d], id) = {}, LinesOf(chain'[d], id) # {}
  PROVE  \E j \in RuleIds, r \in RuleType : Admitted(j, r) /\ r.chain = d
<1>1. /\ chain \in [ChainNames -> Seq(LineType)] /\ "FORWARD" \in ChainNames
      /\ chain[d] \in Seq(LineType)
  BY MainFacts DEF ChainNames
<1>2. id # Established /\ id # Baseline
  BY NamesAssumption DEF BaseTags
<1>3. chain' # chain
  OBVIOUS
<1>4. ASSUME NEW j \in RuleIds, NEW r \in RuleType, Admitted(j, r), Inserts(j, r)
      PROVE  r.chain = d
  BY <1>1, <1>4 DEF Inserts
<1>5. ASSUME NEW c \in ChainNames, NEW n \in DOMAIN chain[c], Removes(c, n)
      PROVE  FALSE
  <2>1. c = d
    BY <1>1, <1>5 DEF Removes
  <2> DEFINE s == chain[d]
             t == RemoveAt(s, n)
  <2>2. chain'[d] = t /\ s \in Seq(LineType) /\ n \in DOMAIN s
    BY <1>1, <1>5, <2>1 DEF Removes
  <2>3. \A k \in DOMAIN s : s[k].tag # id
    BY DEF LinesOf
  <2> HIDE DEF s
  <2>4. Len(s) \in Nat /\ DOMAIN s = 1..Len(s) /\ n \in 1..Len(s)
    BY <2>2, LenProperties
  <2>5. /\ t \in Seq(LineType) /\ Len(t) = Len(s) - 1
        /\ \A j \in 1..Len(s) - 1 : t[j] = IF j < n THEN s[j] ELSE s[j + 1]
    BY <2>2, <2>4, RemovedElements
  <2> HIDE DEF t
  <2>6. DOMAIN t = 1..Len(s) - 1
    BY <2>5, LenProperties
  <2>7. \A j \in DOMAIN t : t[j].tag # id
    <3> SUFFICES ASSUME NEW j \in DOMAIN t PROVE t[j].tag # id
      OBVIOUS
    <3>1. j \in 1..Len(s) - 1 /\ j \in 1..Len(s) /\ j + 1 \in 1..Len(s)
      BY <2>4, <2>6
    <3>2. t[j] = s[j] \/ t[j] = s[j + 1]
      BY <2>5, <3>1
    <3> QED
      BY <2>3, <2>4, <3>1, <3>2
  <2> QED
    BY <2>2, <2>7 DEF LinesOf
<1>6. ASSUME AddsBase PROVE FALSE
  <2>1. /\ d = "FORWARD"
        /\ chain'[d] = Append(chain[d], BaseLine(Established))
    BY <1>1, <1>6 DEF AddsBase
  <2> DEFINE s == chain[d]
             u == Append(s, BaseLine(Established))
  <2>2. s \in Seq(LineType) /\ chain'[d] = u /\ LinesOf(s, id) = {}
    BY <1>1, <2>1
  <2> HIDE DEF s
  <2>3. SameLines(s, u, id)
    BY <1>2, <2>2, AppendedLines
  <2> HIDE DEF u
  <2> QED
    BY <2>2, <2>3 DEF SameLines
<1>7. ASSUME Resets PROVE FALSE
  <2>1. d = "FORWARD" /\ chain'[d] = BasePolicy
    BY <1>1, <1>7 DEF Resets
  <2>2. LinesOf(BasePolicy, id) = {}
    BY <1>2 DEF LinesOf, BasePolicy, BaseLine, Line
  <2> QED
    BY <2>1, <2>2
<1> QED
  BY <1>3, <1>4, <1>5, <1>6, <1>7, ChainSteps

\* Nothing is ever stored or enforced outside the one chain.
LEMMA OneChainData ==
  ASSUME NEW c \in ChainNames, BodiesIn(c), IInv, OneChainInv(c), [Next]_vars
  PROVE  \A id \in RuleIds : /\ Held(chain', id) \subseteq {c}
                             /\ configdb'[id] # None => configdb'[id].chain = c
<1>1. configdb \in [RuleIds -> RuleType \cup {None}]
  BY MainFacts
<1>2. \A id \in RuleIds : /\ Held(chain, id) \subseteq {c}
                          /\ configdb[id] # None => configdb[id].chain = c
  BY DEF OneChainInv
<1>3. \A r : ValidRule(r) /\ r \in Bodies => r.chain = c
  BY DEF BodiesIn, ValidBodies
<1>4. ASSUME NEW id \in RuleIds, NEW d \in ChainNames, LinesOf(chain'[d], id) # {}
      PROVE  d = c
  <2>1. CASE LinesOf(chain[d], id) # {}
    BY <1>2, <2>1 DEF Held
  <2>2. CASE LinesOf(chain[d], id) = {}
    <3>1. PICK j \in RuleIds, r \in RuleType : Admitted(j, r) /\ r.chain = d
      BY <1>4, <2>2, NewLine
    <3>2. r # None
      BY NamesAssumption
    <3> QED
      BY <1>2, <1>3, <3>1, <3>2 DEF Admitted
  <2> QED
    BY <2>1, <2>2
<1>5. ASSUME NEW id \in RuleIds, configdb'[id] # None
      PROVE  configdb'[id].chain = c
  <2>1. CASE configdb'[id] \in {configdb[id], None}
    BY <1>2, <1>5, <2>1
  <2>2. ASSUME NEW r \in RuleType, ValidRule(r), r \in Bodies,
               configdb'[id] = HashSet(configdb[id], r)
        PROVE  configdb'[id].chain = c
    <3>1. r.chain = c
      BY <1>3, <2>2
    <3> QED
      BY <2>2, <3>1 DEF HashSet, RuleType
  <2> QED
    BY <2>1, <2>2, ConfigSteps
<1> QED
  BY <1>4, <1>5 DEF Held

\* What reconcile has listed, and what it is removing, is in the one chain.
LEMMA OneChainMemory ==
  ASSUME NEW c \in ChainNames, IInv, OneChainInv(c), [Next]_vars
  PROVE  /\ Repairing' => \A id \in RuleIds : seen'[id] \in {c, None}
         /\ Removing' => target'[Main].chain = c
<1>1. /\ pc \in [Threads -> WorkerLabels \cup MainLabels] /\ Main \in Threads
      /\ target \in [Threads -> Targets \cup {None}]
      /\ seen \in [RuleIds -> ChainNames \cup {None}]
      /\ \A w \in Workers : w \in Threads /\ w # Main
      /\ \A w \in Workers : pc[w] # "idle" => pc[Main] = "serve"
  BY MainFacts, ThreadsAssumption
  DEF IInv, TypeOK, StartupAlone, WorkerLabels, MainLabels, Threads
<1>2. /\ \A id \in RuleIds : Held(chain, id) \subseteq {c}
      /\ Repairing => \A id \in RuleIds : seen[id] \in {c, None}
      /\ Removing => target[Main].chain = c
  BY DEF OneChainInv
<1>3. ASSUME pc'[Main] = pc[Main], seen' = seen, target'[Main] = target[Main]
      PROVE  /\ Repairing' => \A id \in RuleIds : seen'[id] \in {c, None}
             /\ Removing' => target'[Main].chain = c
  BY <1>2, <1>3 DEF Repairing, Removing
<1>4. ASSUME NEW w \in Workers, NEW q \in Requests, SetBegin(w, q)
      PROVE  pc'[Main] = pc[Main] /\ seen' = seen /\ target'[Main] = target[Main]
  BY <1>1, <1>4 DEF SetBegin, Goto, startVars
<1>5. ASSUME NEW w \in Workers, Handle(w)
      PROVE  pc'[Main] = pc[Main] /\ seen' = seen /\ target'[Main] = target[Main]
  <2>1. w \in Threads /\ Main \in Threads \ {w}
    BY <1>1
  <2>2. pc'[Main] = pc[Main] /\ target'[Main] = target[Main]
    BY <1>5, <2>1, OwnSteps
  <2>3. seen' = seen
    BY <1>5 DEF Handle, ReadDelete, EraseRule, ReadUpdate, StoreRule, ApplyRule,
                TakeSnapshot, SetEnd, ListLines, CutLine, startVars
  <2> QED
    BY <2>2, <2>3
<1>6. CASE Startup
  <2>1. CASE EnsureBaseRules \/ StartServer
    BY <1>1, <2>1 DEF EnsureBaseRules, StartServer, Goto, Repairing, Removing
  <2>2. CASE ReadBothSides
    <3>1. pc'[Main] = "reconcile" /\ \A id \in RuleIds : seen'[id] = ListedChain(id)
      BY <1>1, <2>2 DEF ReadBothSides, Goto
    <3>2. \A id \in RuleIds : ListedChain(id) \in {c, None}
      BY <1>2, ListedChainHeld
    <3> QED
      BY <3>1, <3>2 DEF Removing
  <2>3. ASSUME NEW id \in RuleIds, ReconcileApply(id)
        PROVE  pc'[Main] = pc[Main] /\ seen' = seen /\ target'[Main] = target[Main]
    BY <2>3 DEF ReconcileApply, rpcVars
  <2>4. CASE \E id \in RuleIds : ReconcileRemove(id)
    <3>1. PICK id \in RuleIds : ReconcileRemove(id)
      BY <2>4
    <3>2. /\ seen[id] # None /\ target'[Main].chain = seen[id]
          /\ seen' = [seen EXCEPT ![id] = None] /\ Repairing
      BY <1>1, <3>1 DEF ReconcileRemove, Orphans, Drifted, Repairing
    <3> QED
      BY <1>1, <1>2, <3>2
  <2>5. CASE ListLines(Main) \/ CutLine(Main)
    <3>1. /\ seen' = seen /\ target' = target /\ Removing /\ Repairing
      BY <2>5 DEF ListLines, CutLine, rpcVars, startVars, Removing, Repairing
    <3> QED
      BY <1>2, <3>1
  <2> QED
    BY <1>3, <1>6, <2>1, <2>2, <2>3, <2>4, <2>5 DEF Startup
<1>7. CASE Failures
  <2>1. CASE Crash \/ BaseRulesFail
    BY <1>1, <2>1 DEF Crash, BaseRulesFail, Goto, Repairing, Removing
  <2>2. CASE ListAllFails
    BY <1>1, <2>2 DEF ListAllFails, Goto, Removing
  <2>3. ASSUME NEW t \in Threads, ListFails(t) \/ CutFails(t)
        PROVE  /\ Repairing' => \A id \in RuleIds : seen'[id] \in {c, None}
               /\ Removing' => target'[Main].chain = c
    <3>1. /\ seen' = seen /\ target' = target
          /\ t # Main => pc'[Main] = pc[Main]
          /\ t = Main => Removing /\ Repairing
      BY <1>1, <2>3 DEF ListFails, CutFails, Struck, Goto, rpcVars, startVars,
                        Removing, Repairing
    <3> QED
      BY <1>2, <1>3, <3>1
  <2>4. ASSUME NEW w \in Workers, ApplyFails(w)
        PROVE  pc'[Main] = pc[Main] /\ seen' = seen /\ target'[Main] = target[Main]
    BY <1>1, <2>4 DEF ApplyFails, Finish, Goto, startVars
  <2>5. ASSUME (\E id \in RuleIds : ReconcileApplyFails(id)) \/ ApplyPolicy
        PROVE  pc'[Main] = pc[Main] /\ seen' = seen /\ target'[Main] = target[Main]
    BY <2>5 DEF ReconcileApplyFails, ApplyPolicy, rpcVars, startVars
  <2> QED
    BY <1>3, <1>7, <2>1, <2>2, <2>3, <2>4, <2>5 DEF Failures
<1>8. CASE UNCHANGED vars
  BY <1>3, <1>8 DEF vars
<1> QED
  BY <1>3, <1>4, <1>5, <1>6, <1>7, <1>8 DEF Next

\* An insertion or a removal for one name leaves the other names without a line
\* where they had none.
LEMMA OthersHeld ==
  ASSUME NEW id, \A d \in ChainNames : SameLines(chain[d], chain'[d], id)
  PROVE  Held(chain', id) = Held(chain, id)
BY DEF SameLines, Held

\* An orphan is on the list, being removed or gone: after every step of an
\* undisturbed startup.
LEMMA OrphanStep ==
  ASSUME NEW c \in ChainNames, NamesApart, BodiesIn(c), IInv, OrderInv,
         OneChainInv(c), [Next]_vars, undisturbed', Repairing' \/ Serving',
         NEW j \in RuleIds, configdb'[j] = None, j \notin todo',
         ~(Removing' /\ target'[Main].id = j)
  PROVE  Held(chain', j) = {}
<1>1. /\ pc \in [Threads -> WorkerLabels \cup MainLabels] /\ Main \in Threads
      /\ target \in [Threads -> Targets \cup {None}]
      /\ lines \in [Threads -> SUBSET Nat]
  BY MainFacts DEF IInv, TypeOK, WorkerLabels, MainLabels
<1>2. ASSUME undisturbed, Repairing \/ Serving, configdb[j] = None, j \notin todo,
             ~(Removing /\ target[Main].id = j)
      PROVE  Held(chain, j) = {}
  BY <1>2 DEF OneChainInv
<1>3. CASE Crash
  BY <1>1, <1>3 DEF Crash, Repairing, Serving
<1>4. CASE undisturbed /\ UNCHANGED <<configdb, chain, pc, target, todo, seen>>
  BY <1>2, <1>4 DEF Repairing, Serving, Removing
<1>5. CASE undisturbed /\ Orderly /\ Startup
  <2>1. configdb' = configdb
    BY <1>5 DEF Startup, EnsureBaseRules, ReadBothSides, StartServer,
                ReconcileApply, ReconcileRemove, ListLines, CutLine
  <2>2. CASE EnsureBaseRules
    BY <1>1, <2>2 DEF EnsureBaseRules, Goto, Repairing, Serving
  <2>3. CASE ReadBothSides
    <3>1. /\ chain' = chain
          /\ todo' = Discrepancies([id \in RuleIds |-> ListedChain(id)])
      BY <2>3 DEF ReadBothSides
    <3>2. ListedChain(j) = None
      BY <2>1, <3>1 DEF Discrepancies
    <3>3. \A d \in ChainNames : LinesOf(chain[d], j) = {}
      BY <3>2, NamesAssumption DEF ListedChain, ChainNames
    <3> QED
      BY <3>1, <3>3 DEF Held
  <2>4. CASE StartServer
    BY <1>2, <1>5, <2>1, <2>4 DEF StartServer, Repairing, Removing
  <2>5. ASSUME NEW id \in RuleIds, ReconcileApply(id) PROVE Held(chain', j) = {}
    <3>1. /\ configdb[id] # None /\ todo' = todo \ {id} /\ Repairing /\ ~Removing
      BY <2>5 DEF ReconcileApply, Missing, Repairing, Removing
    <3>2. j # id /\ Held(chain, j) = {}
      BY <1>2, <1>5, <2>1, <3>1
    <3>3. \A d \in ChainNames : SameLines(chain[d], chain'[d], j)
      BY <1>5, <2>5, <3>2, ReconcileEffect
    <3> QED
      BY <3>2, <3>3, OthersHeld
  <2>6. ASSUME NEW id \in RuleIds, ReconcileRemove(id) PROVE Held(chain', j) = {}
    <3>1. /\ chain' = chain /\ target'[Main].id = id /\ Repairing /\ ~Removing
          /\ pc'[Main] = "list" /\ \A k \in RuleIds : k # id /\ k \in todo => k \in todo'
      BY <1>1, <2>6 DEF ReconcileRemove, Repairing, Removing, Goto
    <3>2. j # id
      BY <3>1 DEF Removing
    <3> QED
      BY <1>2, <1>5, <2>1, <3>1, <3>2
  <2>7. CASE ListLines(Main)
    <3>1. /\ chain' = chain /\ todo' = todo /\ target' = target
          /\ Repairing /\ Removing
          /\ pc'[Main] = IF TaggedLines(chain[target[Main].chain],
                                        target[Main].id) = {}
                         THEN AfterRemoval(Main) ELSE "cut"
      BY <1>1, <2>7 DEF ListLines, Goto, rpcVars, startVars, Repairing, Removing
    <3>2. CASE target[Main].id # j
      BY <1>2, <1>5, <2>1, <3>1, <3>2
    <3>3. CASE target[Main].id = j
      <4>1. TaggedLines(chain[target[Main].chain], j) = {}
        BY <3>1, <3>3 DEF Removing
      <4>2. target[Main].chain = c /\ Held(chain, j) \subseteq {c}
        BY <3>1 DEF OneChainInv
      <4> QED
        BY <3>1, <4>1, <4>2 DEF NamesApart, TaggedLines, LinesOf, Held
    <3> QED
      BY <3>2, <3>3
  <2>8. CASE CutLine(Main)
    <3> DEFINE n == Max(lines[Main])
               d == target[Main].chain
               id == target[Main].id
    <3>1. Listed(Main) /\ Repairing /\ Removing /\ d = c
      <4>1. pc[Main] = "cut"
        BY <2>8 DEF CutLine
      <4>2. Listed(Main)
        BY <1>1, <1>5, <4>1 DEF OrderInv
      <4>3. Repairing /\ Removing
        BY <4>1 DEF Repairing, Removing
      <4> QED
        BY <4>2, <4>3 DEF OneChainInv
    <3>2. /\ id \in RuleIds /\ chain[d][n].tag \in Extending[id]
          /\ TaggedLines(chain'[d], id) = lines[Main] \ {n}
          /\ \A e \in ChainNames : \A tag : tag # chain[d][n].tag =>
               SameLines(chain[e], chain'[e], tag)
      BY <1>1, <2>8, <3>1, CutEffect
    <3>3. chain[d][n].tag = id
      BY <3>2 DEF NamesApart
    <3>4. /\ target' = target /\ todo' = todo
          /\ pc'[Main] = IF lines[Main] = {n} THEN AfterRemoval(Main) ELSE "cut"
      BY <1>1, <2>8 DEF CutLine, Struck, Goto, rpcVars, startVars
    <3> HIDE DEF n
    <3>5. CASE id # j
      <4>1. \A e \in ChainNames : SameLines(chain[e], chain'[e], j)
        BY <3>2, <3>3, <3>5
      <4>2. Held(chain, j) = {}
        BY <1>2, <1>5, <2>1, <3>1, <3>4, <3>5
      <4> QED
        BY <4>1, <4>2, OthersHeld
    <3>6. CASE id = j
      <4>1. lines[Main] = {n}
        BY <3>4, <3>6 DEF Removing
      <4>2. TaggedLines(chain'[c], j) = {}
        BY <3>1, <3>2, <3>6, <4>1
      <4>3. Held(chain', j) \subseteq {c}
        BY OneChainData
      <4> QED
        BY <4>2, <4>3 DEF NamesApart, TaggedLines, LinesOf, Held
    <3> QED
      BY <3>5, <3>6
  <2> QED
    BY <1>5, <2>2, <2>3, <2>4, <2>5, <2>6, <2>7, <2>8 DEF Startup
<1> QED
  BY <1>3, <1>4, <1>5, UndisturbedStep

\* What holds of rules of one chain holds after every step.
LEMMA OneChainStep ==
  ASSUME NEW c \in ChainNames, NamesApart, BodiesIn(c)
  PROVE  IInv /\ OrderInv /\ OneChainInv(c) /\ [Next]_vars => OneChainInv(c)'
<1> SUFFICES ASSUME IInv, OrderInv, OneChainInv(c), [Next]_vars
             PROVE  OneChainInv(c)'
  OBVIOUS
<1>1. \A id \in RuleIds : /\ Held(chain', id) \subseteq {c}
                          /\ configdb'[id] # None => configdb'[id].chain = c
  BY OneChainData
<1>2. /\ Repairing' => \A id \in RuleIds : seen'[id] \in {c, None}
      /\ Removing' => target'[Main].chain = c
  BY OneChainMemory
<1>3. undisturbed' /\ (Repairing' \/ Serving') => \A id \in RuleIds :
        \/ configdb'[id] # None \/ Held(chain', id) = {} \/ id \in todo'
        \/ Removing' /\ target'[Main].id = id
  BY OrphanStep
<1> QED
  BY <1>1, <1>2, <1>3 DEF OneChainInv

\* No rule is installed when the leaf first boots.
LEMMA OneChainInit == ASSUME NEW c \in ChainNames PROVE Init => OneChainInv(c)
<1> SUFFICES ASSUME Init PROVE OneChainInv(c)
  OBVIOUS
<1>1. ASSUME NEW id \in RuleIds, NEW d \in ChainNames
      PROVE  LinesOf(chain[d], id) = {}
  <2>1. id # Established /\ id # Baseline
    BY NamesAssumption DEF BaseTags
  <2>2. chain[d] = <<>> \/ chain[d] = BasePolicy
    BY DEF Init
  <2>3. LinesOf(BasePolicy, id) = {}
    BY <2>1 DEF LinesOf, BasePolicy, BaseLine, Line
  <2>4. LinesOf(<<>>, id) = {}
    BY DEF LinesOf
  <2> QED
    BY <2>2, <2>3, <2>4
<1>2. pc[Main] = "base" /\ \A id \in RuleIds : configdb[id] = None
  BY DEF Init, Threads
<1> QED
  BY <1>1, <1>2 DEF OneChainInv, Held, Repairing, Removing, Serving

\* The lines of a name, and what the filter does under it, for a given filter.
EntriesIn(ch, id) == UNION {{<<c, n>> : n \in LinesOf(ch[c], id)} : c \in ChainNames}
RuleIn(ch, id) ==
  IF EntriesIn(ch, id) = {} THEN None
  ELSE LET e == CHOOSE e \in EntriesIn(ch, id) : TRUE IN ch[e[1]][e[2]].rule

\* Entries are the lines of the name in the chains.
LEMMA EntryPlaces ==
  ASSUME NEW ch, NEW id
  PROVE  /\ \A c \in ChainNames : \A n \in LinesOf(ch[c], id) :
              <<c, n>> \in EntriesIn(ch, id)
         /\ \A e \in EntriesIn(ch, id) :
              \E c \in ChainNames : \E n \in LinesOf(ch[c], id) : e = <<c, n>>
<1> DEFINE at(c) == {<<c, n>> : n \in LinesOf(ch[c], id)}
           all == {at(c) : c \in ChainNames}
<1>1. EntriesIn(ch, id) = UNION all
  BY DEF EntriesIn
<1>2. ASSUME NEW c \in ChainNames, NEW n \in LinesOf(ch[c], id)
      PROVE  <<c, n>> \in UNION all
  <2>1. at(c) \in all /\ <<c, n>> \in at(c)
    OBVIOUS
  <2> HIDE DEF all, at
  <2> QED
    BY <2>1
<1>3. ASSUME NEW e \in UNION all
      PROVE  \E c \in ChainNames : \E n \in LinesOf(ch[c], id) : e = <<c, n>>
  <2>1. PICK a \in all : e \in a
    OBVIOUS
  <2>2. PICK c \in ChainNames : a = at(c)
    BY <2>1
  <2> QED
    BY <2>1, <2>2
<1> QED
  BY <1>1, <1>2, <1>3

\* The filter has no line of a name exactly if no chain has one.
LEMMA NoEntries ==
  ASSUME NEW ch, NEW id PROVE EntriesIn(ch, id) = {} <=> Held(ch, id) = {}
BY EntryPlaces DEF Held

\* If all rules are for one chain, an undisturbed startup repairs whatever
\* concurrent Sets, crashes, failing commands and policy pushes have left: the
\* filter then has a line of exactly the rules of ConfigDB, and the base rule.
THEOREM RestartAlwaysHeals ==
  ASSUME NEW c \in ChainNames, BodiesIn(c), NamesApart, BodiesPlaceable
  PROVE  Spec => []RestartHeals
<1>1. IInv /\ OrderInv /\ OneChainInv(c) /\ RestartEnforces => RestartHeals
  <2> SUFFICES ASSUME IInv, OrderInv, OneChainInv(c), RestartEnforces,
                      Serving, undisturbed
               PROVE  /\ \A id \in RuleIds : configdb[id] = None <=> Entries(id) = {}
                      /\ LinesOf(chain["FORWARD"], Established) # {}
    BY DEF RestartHeals
  <2>1. todo = {} /\ ~Removing /\ pc[Main] # "base"
    BY DEF IInv, TodoOK, Serving, Removing
  <2>2. ASSUME NEW id \in RuleIds
        PROVE  configdb[id] = None <=> Held(chain, id) = {}
    <3>1. configdb[id] = None => Held(chain, id) = {}
      BY <2>1 DEF OneChainInv
    <3>2. configdb[id] # None => configdb[id].chain \in Held(chain, id)
      <4>1. configdb[id] # None => configdb[id].chain \in ChainNames
        BY DEF OneChainInv
      <4> QED
        BY <4>1 DEF RestartEnforces, Held
    <3> QED
      BY <3>1, <3>2
  <2>3. LinesOf(chain["FORWARD"], Established) # {}
    BY <2>1 DEF OrderInv, Orderly
  <2> QED
    BY <2>2, <2>3, NoEntries DEF Entries, EntriesIn
<1>2. IInv /\ OrderInv /\ OneChainInv(c) /\ [Next]_vars => OneChainInv(c)'
  BY OneChainStep
<1>3. Init => OneChainInv(c)
  BY OneChainInit
<1>4. Spec => []RestartEnforces
  BY RestartAlwaysEnforces
<1> QED
  BY <1>1, <1>2, <1>3, <1>4, OrderKept, Invariant, PTL DEF Spec

-----------------------------------------------------------------------------
(* One client, and commands that succeed: the two sides agree.             *)

\* What the exact agreement takes of the constants.
Undemanding ==
  /\ Alone /\ NamesApart
  /\ BodiesPlaceable /\ BodiesOverwrite /\ NamedByPath

\* A name whose lines stay stands where it stood.
LEMMA NameStays ==
  ASSUME NEW id, configdb'[id] = configdb[id],
         \A d \in ChainNames : SameLines(chain[d], chain'[d], id)
  PROVE  /\ Held(chain', id) = Held(chain, id)
         /\ NameOK(chain, configdb, id) => NameOK(chain', configdb', id)
         /\ Settled(chain, configdb, id) => Settled(chain', configdb', id)
<1>1. Held(chain', id) = Held(chain, id)
  BY OthersHeld
<1>2. Sole(chain, id) => Sole(chain', id)
  <2> SUFFICES ASSUME Sole(chain, id) PROVE Sole(chain', id)
    OBVIOUS
  <2>1. \A c, d \in Held(chain', id) : c = d
    BY <1>1 DEF Sole
  <2>2. ASSUME NEW c \in ChainNames
        PROVE  \A m, n \in LinesOf(chain'[c], id) : m = n
    BY DEF Sole, SameLines
  <2> QED
    BY <2>1, <2>2 DEF Sole
<1>3. Faithful(chain, configdb, id) => Faithful(chain', configdb', id)
  <2> SUFFICES ASSUME Faithful(chain, configdb, id), configdb[id] # None,
                      NEW c \in ChainNames, NEW n \in LinesOf(chain'[c], id)
               PROVE  c = configdb[id].chain /\ chain'[c][n].rule = configdb[id]
    BY DEF Faithful
  <2>1. PICK m \in LinesOf(chain[c], id) : chain'[c][n] = chain[c][m]
    BY DEF SameLines
  <2> QED
    BY <2>1 DEF Faithful
<1> QED
  BY <1>1, <1>2, <1>3 DEF NameOK, Settled

\* A name without lines is in order, whatever ConfigDB has of it.
LEMMA NoLinesOK ==
  ASSUME NEW ch, NEW db, NEW id, Held(ch, id) = {},
         db[id] # None => db[id] \in ValidBodies
  PROVE  NameOK(ch, db, id) /\ (db[id] = None => Settled(ch, db, id))
<1>1. \A c \in ChainNames : LinesOf(ch[c], id) = {}
  BY DEF Held
<1> QED
  BY <1>1 DEF NameOK, Sole, Faithful, Settled

\* What the worker at work means for the others and for the startup.
LEMMA OneHandler ==
  ASSUME Alone, IInv, NEW w \in Workers, pc[w] # "idle"
  PROVE  /\ pc[Main] = "serve" /\ ~Repairing /\ ~Removing /\ Main # w
         /\ \A v \in Workers : v = w
         /\ \A id : Underway(id) <=> /\ pc[w] \in {"list", "cut", "store", "apply"}
                                     /\ PathId(w) = id
<1>1. pc[Main] = "serve" /\ Main # w
  BY ThreadsAssumption DEF IInv, StartupAlone
<1>2. \A v \in Workers : v = w
  BY DEF Alone
<1> QED
  BY <1>1, <1>2 DEF Repairing, Removing, Underway

\* A handler's step keeps the invariant if it leaves its own part, and every
\* name, in order.
LEMMA HandlerStep ==
  ASSUME Alone, IInv, NEW w \in Workers, Handle(w), HandlerOK(w)',
         \A id \in RuleIds :
           /\ NameOK(chain', configdb', id)
           /\ \/ Settled(chain', configdb', id)
              \/ pc'[w] \in {"list", "cut", "store", "apply"} /\ PathId(w)' = id
  PROVE  SyncInv'
<1>1. pc[w] # "idle"
  BY DEF Handle, ReadDelete, EraseRule, ReadUpdate, StoreRule, ApplyRule,
         TakeSnapshot, SetEnd, ListLines, CutLine
<1>2. pc'[Main] = "serve" /\ \A v \in Workers : v = w
  <2>1. /\ w \in Threads /\ Main \in Threads \ {w} /\ pc[Main] = "serve"
        /\ \A v \in Workers : v = w
    BY <1>1, OneHandler, MainFacts DEF Threads
  <2> QED
    BY <2>1, OwnSteps
<1>3. HandlerInv'
  BY <1>2 DEF HandlerInv
<1>4. ReconcileInv'
  BY <1>2 DEF ReconcileInv, Repairing, Removing
<1>5. NamesInv'
  BY DEF NamesInv, Underway
<1> QED
  BY <1>3, <1>4, <1>5 DEF SyncInv

\* A startup's step keeps the invariant if it leaves its own part, and every
\* name, in order.
LEMMA MainStartStep ==
  ASSUME IInv, Startup, HandlerInv, ReconcileInv',
         \A id \in RuleIds :
           /\ NameOK(chain', configdb', id)
           /\ Settled(chain', configdb', id) \/ Underway(id)'
  PROVE  SyncInv'
<1>1. pc[Main] # "serve" /\ req' = req /\ Main \in Threads
  BY MainFacts DEF Startup, EnsureBaseRules, ReadBothSides, StartServer,
       ReconcileApply, ReconcileRemove, ListLines, CutLine, rpcVars
<1>2. \A w \in Workers : pc[w] = "idle" /\ w \in Threads \ {Main}
  BY <1>1, ThreadsAssumption DEF IInv, StartupAlone, Threads
<1>3. \A w \in Workers : pc'[w] = "idle"
  BY <1>1, <1>2, OwnSteps
<1>4. HandlerInv'
  BY <1>1, <1>3 DEF HandlerInv, HandlerOK
<1>5. NamesInv'
  BY DEF NamesInv
<1> QED
  BY <1>4, <1>5 DEF SyncInv

\* With the same request in progress, an entry is the same entry.
LEMMA SameEntry ==
  ASSUME req' = req
  PROVE  \A w : /\ PathId(w)' = PathId(w) /\ Deleting(w)' = Deleting(w)
                /\ Update(w)' = Update(w)
BY DEF PathId, Deleting, Update

\* Between entries nothing is under way: every name is settled.
LEMMA EntriesSettled ==
  ASSUME Alone, IInv, NamesInv, NEW w \in Workers,
         pc[w] \in {"entry", "erase", "snap"}
  PROVE  \A id \in RuleIds :
           NameOK(chain, configdb, id) /\ Settled(chain, configdb, id)
<1>1. \A id : ~Underway(id)
  BY OneHandler
<1> QED
  BY <1>1 DEF NamesInv

\* A handler that has returned relies on nothing.
LEMMA FinishOK ==
  ASSUME IInv, NEW w \in Workers, Finish(w)
  PROVE  HandlerOK(w)' /\ pc'[w] = "idle"
<1>1. pc'[w] = "idle" /\ req'[w] = NoRequest
  BY WorkerFacts DEF IInv, TypeOK, Finish, Goto
<1>2. DOMAIN req'[w].updates = {}
  BY <1>1 DEF NoRequest
<1> QED
  BY <1>1, <1>2 DEF HandlerOK

\* A request is taken by an idle worker.
LEMMA SetBeginSync ==
  ASSUME Undemanding, IInv, SyncInv, NEW w \in Workers, NEW q \in Requests,
         SetBegin(w, q)
  PROVE  SyncInv'
<1>1. /\ pc[Main] = "serve" /\ pc[w] = "idle" /\ \A v \in Workers : v = w
      /\ w \in Threads /\ Main \in Threads /\ Main # w
      /\ pc \in [Threads -> WorkerLabels \cup MainLabels]
      /\ req \in [Workers -> RequestType]
  BY ThreadsAssumption DEF SetBegin, Serving, Undemanding, Alone, Threads, IInv,
     TypeOK, WorkerLabels, MainLabels, RequestType
<1>2. /\ pc'[Main] = "serve" /\ pc'[w] \in {"idle", "entry"}
      /\ configdb' = configdb /\ chain' = chain
      /\ req'[w].updates = req[w].updates \/ req'[w].updates = q.updates
  BY <1>1 DEF SetBegin, Goto
<1>3. HandlerOK(w)'
  BY <1>2 DEF HandlerOK, SyncInv, HandlerInv, Undemanding, NamedByPath
<1>4. ASSUME NEW id \in RuleIds
      PROVE  NameOK(chain, configdb, id) /\ Settled(chain, configdb, id)
  <2>1. ~Underway(id)
    BY <1>1 DEF Underway, Repairing, Removing
  <2> QED
    BY <2>1 DEF SyncInv, NamesInv
<1>5. NamesInv'
  BY <1>2, <1>4 DEF NamesInv
<1>6. HandlerInv'
  BY <1>1, <1>3 DEF HandlerInv
<1>7. ReconcileInv'
  BY <1>2 DEF ReconcileInv, Repairing, Removing
<1> QED
  BY <1>5, <1>6, <1>7 DEF SyncInv

\* Reading an entry: nothing changes, and where the entry's name has lines is
\* where ConfigDB says.
LEMMA ReadEntrySync ==
  ASSUME Undemanding, IInv, IInv', SyncInv, NEW w \in Workers,
         ReadDelete(w) \/ ReadUpdate(w)
  PROVE  SyncInv'
<1>1. /\ pc[w] = "entry" /\ Handle(w) /\ configdb' = configdb /\ chain' = chain
      /\ w \in Threads /\ HandlerOK(w)
  BY DEF ReadDelete, ReadUpdate, Handle, Threads, SyncInv, HandlerInv
<1>2. \A id \in RuleIds :
        NameOK(chain', configdb', id) /\ Settled(chain', configdb', id)
  BY <1>1, EntriesSettled DEF SyncInv, Undemanding
<1>3. CASE Finish(w)
  BY <1>1, <1>2, <1>3, FinishOK, HandlerStep DEF Undemanding
<1>4. CASE ~Finish(w)
  <2>1. req' = req /\ target' = [target EXCEPT ![w] = StoredAt(PathId(w))]
    BY <1>4 DEF ReadDelete, ReadUpdate
  <2>2. PathId(w)' = PathId(w) /\ Deleting(w)' = Deleting(w)
    BY <2>1, SameEntry
  <2>3. target'[w] = StoredAt(PathId(w))
    BY <1>1, <2>1, MainFacts
  <2>4. \/ Deleting(w) /\ pc'[w] = "erase"
        \/ /\ ~Deleting(w)
           /\ pc'[w] = IF configdb[PathId(w)] = None THEN "store" ELSE "list"
    BY <1>1, <1>4 DEF ReadDelete, ReadUpdate, Goto, IInv, TypeOK
  <2>5. PathId(w) \in RuleIds
    BY <2>2, <2>4 DEF IInv, EntryOK
  <2>6. configdb[PathId(w)] = None => Held(chain, PathId(w)) = {}
    BY <1>1, <1>2, <2>5 DEF Settled
  <2>7. Held(chain, PathId(w)) \subseteq {StoredAt(PathId(w)).chain}
    <3>1. CASE configdb[PathId(w)] = None
      BY <2>6, <3>1
    <3>2. CASE configdb[PathId(w)] # None
      <4>1. \A c \in Held(chain, PathId(w)) : c = configdb[PathId(w)].chain
        BY <1>1, <1>2, <2>5, <3>2 DEF NameOK, Faithful, Held
      <4> QED
        BY <3>2, <4>1 DEF StoredAt
    <3> QED
      BY <3>1, <3>2
  <2>8. HandlerOK(w)'
    <3>1. \A i \in DOMAIN req'[w].updates : req'[w].updates[i].id = None
      BY <1>1, <2>1 DEF HandlerOK
    <3>2. target'[w].id = PathId(w)
      BY <2>3 DEF StoredAt
    <3>3. Held(chain', PathId(w)) \subseteq {target'[w].chain}
      BY <1>1, <2>3, <2>7
    <3>4. pc'[w] = "store" => Held(chain', PathId(w)) = {}
      BY <1>1, <2>4, <2>6
    <3>5. pc'[w] \in {"list", "cut"} => ~Deleting(w)
      BY <2>4
    <3>6. pc'[w] # "apply"
      BY <2>4
    <3> QED
      BY <2>2, <3>1, <3>2, <3>3, <3>4, <3>5, <3>6 DEF HandlerOK
  <2> QED
    BY <1>1, <1>2, <2>8, HandlerStep DEF Undemanding
<1> QED
  BY <1>3, <1>4

\* Going on to the next entry, or ending the Set.
LEMMA NextEntrySync ==
  ASSUME Undemanding, IInv, SyncInv, NEW w \in Workers,
         TakeSnapshot(w) \/ SetEnd(w)
  PROVE  SyncInv'
<1>1. /\ pc[w] \in {"entry", "snap"} /\ Handle(w) /\ configdb' = configdb
      /\ chain' = chain /\ w \in Threads /\ HandlerOK(w)
  BY DEF TakeSnapshot, SetEnd, Handle, Threads, SyncInv, HandlerInv
<1>2. \A id \in RuleIds :
        NameOK(chain', configdb', id) /\ Settled(chain', configdb', id)
  BY <1>1, EntriesSettled DEF SyncInv, Undemanding
<1>3. CASE SetEnd(w)
  BY <1>1, <1>2, <1>3, FinishOK, HandlerStep DEF Undemanding, SetEnd
<1>4. CASE TakeSnapshot(w)
  <2>1. pc'[w] = "entry"
    BY <1>1, <1>4 DEF TakeSnapshot, Goto, IInv, TypeOK
  <2>2. \A i \in DOMAIN req'[w].updates : req'[w].updates[i].id = None
    <3>1. req \in [Workers -> RequestType] /\ req[w] \in RequestType
      BY DEF IInv, TypeOK, RequestType
    <3>2. CASE Deleting(w)
      <4>1. req'[w].updates = req[w].updates
        BY <1>4, <3>1, <3>2 DEF TakeSnapshot, RequestType
      <4> QED
        BY <1>1, <4>1 DEF HandlerOK
    <3>3. CASE ~Deleting(w)
      <4>1. req'[w].updates = Tail(req[w].updates) /\ req[w].updates # <<>>
        BY <1>4, <3>1, <3>3 DEF TakeSnapshot, RequestType, IInv, EntryOK
      <4> DEFINE u == req[w].updates
      <4>2. u \in Seq(UpdateType) /\ u # <<>> /\ \A i \in DOMAIN u : u[i].id = None
        BY <1>1, <3>1, <4>1 DEF RequestType, HandlerOK
      <4>3. req'[w].updates = Tail(u)
        BY <4>1
      <4> HIDE DEF u
      <4>4. \A i \in DOMAIN Tail(u) : i + 1 \in DOMAIN u /\ Tail(u)[i] = u[i + 1]
        BY <4>2
      <4> QED
        BY <4>2, <4>3, <4>4
    <3> QED
      BY <3>2, <3>3
  <2>3. HandlerOK(w)'
    BY <2>1, <2>2 DEF HandlerOK
  <2> QED
    BY <1>1, <1>2, <2>3, HandlerStep DEF Undemanding
<1> QED
  BY <1>3, <1>4

\* Erasing the record: the lines, if any, are to go.
LEMMA EraseSync ==
  ASSUME Undemanding, IInv, SyncInv, NEW w \in Workers, EraseRule(w)
  PROVE  SyncInv'
<1>1. /\ pc[w] = "erase" /\ Handle(w) /\ chain' = chain /\ req' = req
      /\ target' = target /\ w \in Threads /\ HandlerOK(w) /\ pc'[w] = "list"
      /\ PathId(w) \in RuleIds
  BY DEF EraseRule, Handle, Threads, SyncInv, HandlerInv, Goto, IInv, TypeOK,
         rpcVars, EntryOK
<1>2. \A id \in RuleIds :
        NameOK(chain, configdb, id) /\ Settled(chain, configdb, id)
  BY <1>1, EntriesSettled DEF SyncInv, Undemanding
<1>3. /\ configdb'[PathId(w)] = None
      /\ \A id \in RuleIds : id # PathId(w) => configdb'[id] = configdb[id]
  <2>1. configdb \in [RuleIds -> RuleType \cup {None}]
    BY MainFacts
  <2> QED
    BY <1>1, <2>1 DEF EraseRule
<1>4. PathId(w)' = PathId(w) /\ Deleting(w)' = Deleting(w)
  BY <1>1, SameEntry
<1>5. HandlerOK(w)'
  BY <1>1, <1>3, <1>4 DEF HandlerOK
<1>6. ASSUME NEW id \in RuleIds
      PROVE  /\ NameOK(chain', configdb', id)
             /\ Settled(chain', configdb', id) \/ PathId(w)' = id
  <2>1. CASE id = PathId(w)
    BY <1>1, <1>2, <1>3, <1>4, <2>1 DEF NameOK, Faithful
  <2>2. CASE id # PathId(w)
    BY <1>1, <1>2, <1>3, <2>2 DEF NameOK, Faithful, Settled
  <2> QED
    BY <2>1, <2>2
<1> QED
  BY <1>1, <1>5, <1>6, HandlerStep DEF Undemanding

\* At its store and apply steps a worker writes under the name of its path.
LEMMA WrittenUnderPath ==
  ASSUME IInv, HandlerInv, NEW w \in Workers, pc[w] \in {"store", "apply"}
  PROVE  WrittenId(w) = PathId(w) /\ PathId(w) \in RuleIds
<1>1. ~Deleting(w) /\ req[w].updates # <<>> /\ PathId(w) \in RuleIds
  BY DEF IInv, EntryOK
<1>2. req[w].updates \in Seq(UpdateType)
  BY WorkerFacts DEF RequestType
<1>3. Update(w).id = None
  <2> DEFINE u == req[w].updates
  <2>1. u \in Seq(UpdateType) /\ u # <<>> /\ \A i \in DOMAIN u : u[i].id = None
    BY <1>1, <1>2 DEF HandlerInv, HandlerOK
  <2>2. Update(w) = Head(u)
    BY DEF Update
  <2> HIDE DEF u
  <2>3. 1 \in DOMAIN u /\ Head(u) = u[1]
    BY <2>1
  <2> QED
    BY <2>1, <2>2, <2>3
<1> QED
  BY <1>1, <1>3 DEF WrittenId, PathId

\* While a worker is at these steps, every other name is settled.
LEMMA OthersSettled ==
  ASSUME Alone, IInv, NamesInv, NEW w \in Workers, pc[w] # "idle",
         NEW id \in RuleIds, id # PathId(w)
  PROVE  NameOK(chain, configdb, id) /\ Settled(chain, configdb, id)
<1>1. ~Underway(id)
  BY OneHandler
<1> QED
  BY <1>1 DEF NamesInv

\* Recording a version: there is no line of the name, and the new version is
\* what ConfigDB has then.
LEMMA StoreSync ==
  ASSUME Undemanding, IInv, SyncInv, NEW w \in Workers, StoreRule(w)
  PROVE  /\ SyncInv'
         /\ configdb' = [configdb EXCEPT ![PathId(w)] = Update(w).body]
         /\ Update(w).body \in ValidBodies /\ Held(chain, PathId(w)) = {}
<1>1. /\ pc[w] = "store" /\ Handle(w) /\ chain' = chain /\ req' = req
      /\ w \in Threads /\ HandlerOK(w) /\ pc'[w] = "apply"
  BY DEF StoreRule, Handle, Threads, SyncInv, HandlerInv, Goto, IInv, TypeOK,
         rpcVars
<1>2. WrittenId(w) = PathId(w) /\ PathId(w) \in RuleIds
  BY <1>1, WrittenUnderPath DEF SyncInv
<1>3. Update(w).body \in ValidBodies
  BY <1>1, UpdateFacts DEF ValidBodies
<1>4. Held(chain, PathId(w)) = {}
  BY <1>1 DEF HandlerOK
<1> DEFINE id == PathId(w)
           b == Update(w).body
<1>5. HashSet(configdb[id], b) = b
  <2>1. CASE configdb[id] = None
    BY <2>1 DEF HashSet
  <2>2. CASE configdb[id] # None
    <3>1. configdb[id] \in ValidBodies
      BY <1>2, <2>2 DEF SyncInv, NamesInv, NameOK
    <3> QED
      BY <1>3, <3>1 DEF Undemanding, BodiesOverwrite
  <2> QED
    BY <2>1, <2>2
<1>6. configdb' = [configdb EXCEPT ![id] = b]
  BY <1>2, <1>5 DEF StoreRule
<1>7. configdb'[id] = b /\ \A j \in RuleIds : j # id => configdb'[j] = configdb[j]
  BY <1>2, <1>6, MainFacts
<1>8. PathId(w)' = id /\ Deleting(w)' = Deleting(w) /\ Update(w)' = Update(w)
  BY <1>1, SameEntry
<1>9. HandlerOK(w)'
  BY <1>1, <1>4, <1>7, <1>8 DEF HandlerOK
<1>10. ASSUME NEW j \in RuleIds
       PROVE  /\ NameOK(chain', configdb', j)
              /\ Settled(chain', configdb', j) \/ PathId(w)' = j
  <2>1. CASE j = id
    <3>1. NameOK(chain, configdb', j)
      BY <1>3, <1>4, <1>7, <2>1, NoLinesOK
    <3> QED
      BY <1>1, <1>8, <2>1, <3>1
  <2>2. CASE j # id
    <3>1. NameOK(chain, configdb, j) /\ Settled(chain, configdb, j)
      BY <1>1, <2>2, OthersSettled DEF SyncInv, Undemanding
    <3> QED
      BY <1>1, <1>7, <2>2, <3>1 DEF NameOK, Faithful, Settled
  <2> QED
    BY <2>1, <2>2
<1>11. SyncInv'
  BY <1>1, <1>9, <1>10, HandlerStep DEF Undemanding
<1> QED
  BY <1>3, <1>4, <1>6, <1>11

\* A rule that can be placed, of a name without lines: one line, of this rule.
LEMMA InstalledSole ==
  ASSUME IInv, NEW id \in RuleIds, NEW r \in RuleType,
         Insertable(chain[r.chain], r), Held(chain, id) = {},
         chain' = [chain EXCEPT ![r.chain] = Inserted(@, id, r)]
  PROVE  /\ Held(chain', id) = {r.chain} /\ Sole(chain', id)
         /\ \A c \in ChainNames : \A n \in LinesOf(chain'[c], id) :
              c = r.chain /\ chain'[c][n].rule = r
<1>1. r.chain \in ChainNames /\ \A c \in ChainNames : LinesOf(chain[c], id) = {}
  BY DEF RuleType, Held
<1>2. /\ \A d \in ChainNames : d # r.chain => chain'[d] = chain[d]
      /\ LinesOf(chain'[r.chain], id) # {}
      /\ \A m, n \in LinesOf(chain'[r.chain], id) : m = n
      /\ \A n \in LinesOf(chain'[r.chain], id) : chain'[r.chain][n].rule = r
  BY <1>1, InsertEffect
<1>3. \A d \in ChainNames : d # r.chain => LinesOf(chain'[d], id) = {}
  BY <1>1, <1>2
<1>4. Held(chain', id) = {r.chain}
  BY <1>1, <1>2, <1>3 DEF Held
<1>5. Sole(chain', id)
  BY <1>2, <1>3, <1>4 DEF Sole
<1> QED
  BY <1>2, <1>3, <1>4, <1>5

\* Valid bodies are rules iptables takes.
LEMMA BodyPlaceable ==
  ASSUME BodiesPlaceable, NEW b \in ValidBodies PROVE b \in RuleType /\ Placeable(b)
<1>1. b \in RuleType
  BY RequestsAssumption DEF ValidBodies
<1>2. [b EXCEPT !.port = b.port] = b
  BY <1>1 DEF RuleType
<1>3. Placeable([b EXCEPT !.port = b.port])
  BY DEF BodiesPlaceable
<1> QED
  BY <1>1, <1>2, <1>3

\* Enforcing what was recorded: the command is taken, and the line is the only
\* one of its name.
LEMMA ApplySync ==
  ASSUME Undemanding, IInv, OrderInv, SyncInv, NEW w \in Workers, ApplyRule(w)
  PROVE  /\ SyncInv' /\ PathId(w) \in RuleIds /\ configdb' = configdb
         /\ configdb[PathId(w)] # None
         /\ Held(chain, PathId(w)) = {} /\ Held(chain', PathId(w)) # {}
         /\ \A j \in RuleIds : j # PathId(w) =>
              \A d \in ChainNames : SameLines(chain[d], chain'[d], j)
<1> DEFINE id == PathId(w)
           r == Update(w).body
<1>1. /\ pc[w] = "apply" /\ Handle(w) /\ configdb' = configdb
      /\ w \in Threads /\ HandlerOK(w)
  BY DEF ApplyRule, Handle, Threads, SyncInv, HandlerInv
<1>2. WrittenId(w) = id /\ id \in RuleIds
  BY <1>1, WrittenUnderPath DEF SyncInv
<1>3. Held(chain, id) = {} /\ configdb[id] = r
  BY <1>1 DEF HandlerOK
<1>4. r \in ValidBodies /\ r \in RuleType /\ Placeable(r)
  BY <1>1, UpdateFacts, BodyPlaceable DEF ValidBodies, Undemanding
<1>5. Insertable(chain[r.chain], r)
  <2>1. chain[r.chain] \in Seq(LineType)
    BY <1>4, MainFacts DEF RuleType
  <2>2. LinesOf(chain["FORWARD"], Established) # {}
    BY <1>1, OneHandler DEF OrderInv, Orderly, Undemanding
  <2> QED
    BY <1>4, <2>1, <2>2, PlaceableInsertable
<1>6. /\ chain' = [chain EXCEPT ![r.chain] = Inserted(@, id, r)]
      /\ pc'[w] = "snap" /\ req' = req
  BY <1>1, <1>2, <1>5 DEF ApplyRule, Goto, IInv, TypeOK, rpcVars
<1> HIDE DEF id, r
<1>7. /\ Held(chain', id) = {r.chain} /\ Sole(chain', id)
      /\ \A c \in ChainNames : \A n \in LinesOf(chain'[c], id) :
           c = r.chain /\ chain'[c][n].rule = r
  <2>1. /\ id \in RuleIds /\ r \in RuleType /\ Held(chain, id) = {}
        /\ Insertable(chain[r.chain], r)
    BY <1>2, <1>3, <1>4, <1>5
  <2>2. chain' = [chain EXCEPT ![r.chain] = Inserted(@, id, r)]
    BY <1>6
  <2> QED
    BY <2>1, <2>2, InstalledSole
<1>8. HandlerOK(w)'
  BY <1>1, <1>6 DEF HandlerOK
<1>9. \A j \in RuleIds : j # id =>
        \A d \in ChainNames : SameLines(chain[d], chain'[d], j)
  BY <1>2, <1>4, <1>5, <1>6, InsertEffect
<1>10. ASSUME NEW j \in RuleIds
       PROVE  NameOK(chain', configdb', j) /\ Settled(chain', configdb', j)
  <2>1. CASE j = id
    <3>1. configdb'[j] = r /\ r # None
      BY <1>1, <1>3, <1>4, <2>1, NamesAssumption
    <3> QED
      BY <1>4, <1>7, <2>1, <3>1 DEF NameOK, Faithful, Settled
  <2>2. CASE j # id
    <3>1. NameOK(chain, configdb, j) /\ Settled(chain, configdb, j)
      BY <1>1, <2>2, OthersSettled DEF SyncInv, Undemanding, id
    <3> QED
      BY <1>1, <1>9, <2>2, <3>1, NameStays
  <2> QED
    BY <2>1, <2>2
<1>11. SyncInv'
  BY <1>1, <1>8, <1>10, HandlerStep DEF Undemanding
<1>12. configdb[id] # None
  BY <1>3, <1>4, NamesAssumption
<1> QED
  BY <1>1, <1>2, <1>3, <1>7, <1>9, <1>11, <1>12 DEF id

\* The only line of a name is deleted, and with it the name is gone from the
\* filter; no other name loses a line.
LEMMA SoleCut ==
  ASSUME Undemanding, IInv, OrderInv, NamesInv, NEW t \in Threads, CutLine(t),
         Held(chain, target[t].id) \subseteq {target[t].chain}
  PROVE  /\ target[t].id \in RuleIds /\ pc'[t] = AfterRemoval(t)
         /\ Held(chain, target[t].id) # {} /\ Held(chain', target[t].id) = {}
         /\ \A j \in RuleIds : j # target[t].id =>
              \A d \in ChainNames : SameLines(chain[d], chain'[d], j)
<1> DEFINE c  == target[t].chain
           id == target[t].id
           n  == Max(lines[t])
<1>1. Listed(t) /\ pc[t] = "cut"
  BY DEF OrderInv, Orderly, Undemanding, CutLine
<1>2. /\ c \in ChainNames /\ id \in RuleIds
      /\ n \in lines[t] /\ chain[c][n].tag \in Extending[id]
      /\ \A d \in ChainNames : d # c => chain'[d] = chain[d]
      /\ TaggedLines(chain'[c], id) = lines[t] \ {n}
      /\ \A d \in ChainNames : \A tag : tag # chain[c][n].tag =>
           SameLines(chain[d], chain'[d], tag)
  BY <1>1, CutEffect
<1>3. pc'[t] = IF lines[t] = {n} THEN AfterRemoval(t) ELSE "cut"
  BY MainFacts DEF CutLine, Struck, Goto, IInv, TypeOK
<1> HIDE DEF n
<1>4. Extending[id] = {id}
  BY <1>2 DEF Undemanding, NamesApart
<1>5. /\ lines[t] = LinesOf(chain[c], id)
      /\ TaggedLines(chain'[c], id) = LinesOf(chain'[c], id)
  BY <1>1, <1>4 DEF Listed, TaggedLines, LinesOf
<1>6. lines[t] = {n}
  <2>1. \A k, m \in LinesOf(chain[c], id) : k = m
    BY <1>2 DEF NamesInv, NameOK, Sole
  <2> QED
    BY <1>2, <1>5, <2>1
<1>7. \A d \in ChainNames : LinesOf(chain'[d], id) = {}
  <2>1. LinesOf(chain'[c], id) = {}
    BY <1>2, <1>5, <1>6
  <2>2. \A d \in ChainNames : d # c => LinesOf(chain[d], id) = {}
    BY DEF Held
  <2> QED
    BY <1>2, <2>1, <2>2
<1>8. Held(chain, id) # {}
  BY <1>2, <1>5 DEF Held
<1>9. \A j \in RuleIds : j # id =>
        \A d \in ChainNames : SameLines(chain[d], chain'[d], j)
  BY <1>2, <1>4
<1> QED
  BY <1>2, <1>3, <1>6, <1>7, <1>8, <1>9 DEF Held

\* Listing the lines of a name that can only be in the chain looked at.
LEMMA SoleList ==
  ASSUME Undemanding, IInv, NEW t \in Threads, ListLines(t),
         Held(chain, target[t].id) \subseteq {target[t].chain}
  PROVE  /\ target[t].id \in RuleIds
         /\ \/ pc'[t] = "cut"
            \/ pc'[t] = AfterRemoval(t) /\ Held(chain, target[t].id) = {}
<1>1. pc[t] = "list" /\ target[t].id \in RuleIds
  BY DEF ListLines, IInv, TargetOK, Targets
<1>2. Extending[target[t].id] = {target[t].id}
  BY <1>1 DEF Undemanding, NamesApart
<1>3. \/ pc'[t] = "cut"
      \/ /\ pc'[t] = AfterRemoval(t)
         /\ TaggedLines(chain[target[t].chain], target[t].id) = {}
  BY DEF ListLines, Goto, IInv, TypeOK
<1>4. TaggedLines(chain[target[t].chain], target[t].id) = {} =>
        LinesOf(chain[target[t].chain], target[t].id) = {}
  BY <1>2 DEF TaggedLines, LinesOf
<1> QED
  BY <1>1, <1>3, <1>4 DEF Held

\* A handler lists the lines of its entry.
LEMMA ListSync ==
  ASSUME Undemanding, IInv, SyncInv, NEW w \in Workers, ListLines(w)
  PROVE  SyncInv'
<1> DEFINE id == PathId(w)
<1>1. /\ pc[w] = "list" /\ Handle(w) /\ configdb' = configdb /\ chain' = chain
      /\ req' = req /\ target' = target
      /\ w \in Threads /\ w # Main /\ HandlerOK(w)
  BY ThreadsAssumption
  DEF ListLines, Handle, Threads, SyncInv, HandlerInv, rpcVars
<1>2. target[w].id = id /\ Held(chain, id) \subseteq {target[w].chain}
  BY <1>1 DEF HandlerOK
<1>3. /\ id \in RuleIds
      /\ pc'[w] = "cut" \/ (pc'[w] = AfterRemoval(w) /\ Held(chain, id) = {})
  BY <1>1, <1>2, SoleList
<1>4. AfterRemoval(w) = IF Deleting(w) THEN "snap" ELSE "store"
  BY <1>1 DEF AfterRemoval
<1>5. PathId(w)' = id /\ Deleting(w)' = Deleting(w) /\ Update(w)' = Update(w)
  BY <1>1, SameEntry
<1>6. HandlerOK(w)'
  BY <1>1, <1>3, <1>4, <1>5 DEF HandlerOK
<1>7. ASSUME NEW j \in RuleIds
      PROVE  /\ NameOK(chain, configdb, j)
             /\ \/ Settled(chain, configdb, j)
                \/ pc'[w] \in {"list", "cut", "store", "apply"} /\ id = j
  <2>1. CASE j # id
    BY <1>1, <2>1, OthersSettled DEF SyncInv, Undemanding
  <2>2. CASE j = id
    <3>1. NameOK(chain, configdb, j)
      BY DEF SyncInv, NamesInv
    <3>2. CASE pc'[w] \in {"cut", "store"}
      BY <2>2, <3>1, <3>2
    <3>3. CASE pc'[w] \notin {"cut", "store"}
      <4>1. Held(chain, id) = {} /\ Deleting(w) /\ configdb[id] = None
        BY <1>1, <1>3, <1>4, <3>3 DEF HandlerOK
      <4> QED
        BY <2>2, <3>1, <4>1 DEF Settled
    <3> QED
      BY <3>2, <3>3
  <2> QED
    BY <2>1, <2>2
<1> QED
  BY <1>1, <1>5, <1>6, <1>7, HandlerStep DEF Undemanding

\* A handler deletes the line of its entry.
LEMMA CutSync ==
  ASSUME Undemanding, IInv, OrderInv, SyncInv, NEW w \in Workers, CutLine(w)
  PROVE  /\ SyncInv' /\ PathId(w) \in RuleIds /\ configdb' = configdb
         /\ Held(chain, PathId(w)) # {} /\ Held(chain', PathId(w)) = {}
         /\ \A j \in RuleIds : j # PathId(w) =>
              \A d \in ChainNames : SameLines(chain[d], chain'[d], j)
<1> DEFINE id == PathId(w)
<1>1. /\ pc[w] = "cut" /\ Handle(w) /\ configdb' = configdb /\ req' = req
      /\ w \in Threads /\ w # Main /\ HandlerOK(w)
  BY ThreadsAssumption
  DEF CutLine, Handle, Threads, SyncInv, HandlerInv, rpcVars
<1>2. target[w].id = id /\ Held(chain, id) \subseteq {target[w].chain}
  BY <1>1 DEF HandlerOK
<1>3. /\ id \in RuleIds /\ pc'[w] = AfterRemoval(w)
      /\ Held(chain, id) # {} /\ Held(chain', id) = {}
      /\ \A j \in RuleIds : j # id =>
           \A d \in ChainNames : SameLines(chain[d], chain'[d], j)
  BY <1>1, <1>2, SoleCut DEF SyncInv
<1>4. AfterRemoval(w) = IF Deleting(w) THEN "snap" ELSE "store"
  BY <1>1 DEF AfterRemoval
<1>5. PathId(w)' = id /\ Deleting(w)' = Deleting(w) /\ Update(w)' = Update(w)
  BY <1>1, SameEntry
<1>6. HandlerOK(w)'
  BY <1>1, <1>3, <1>4, <1>5 DEF HandlerOK
<1>7. ASSUME NEW j \in RuleIds
      PROVE  /\ NameOK(chain', configdb', j)
             /\ \/ Settled(chain', configdb', j)
                \/ pc'[w] \in {"list", "cut", "store", "apply"} /\ id = j
  <2>1. CASE j # id
    <3>1. NameOK(chain, configdb, j) /\ Settled(chain, configdb, j)
      BY <1>1, <2>1, OthersSettled DEF SyncInv, Undemanding
    <3> QED
      BY <1>1, <1>3, <2>1, <3>1, NameStays
  <2>2. CASE j = id
    <3>1. configdb[id] # None => configdb[id] \in ValidBodies
      BY <1>3 DEF SyncInv, NamesInv, NameOK
    <3>2. NameOK(chain', configdb', id)
          /\ (configdb'[id] = None => Settled(chain', configdb', id))
      BY <1>1, <1>3, <3>1, NoLinesOK
    <3>3. Deleting(w) => configdb'[id] = None
      BY <1>1 DEF HandlerOK
    <3> QED
      BY <1>3, <1>4, <2>2, <3>2, <3>3
  <2> QED
    BY <2>1, <2>2
<1>8. SyncInv'
  BY <1>1, <1>5, <1>6, <1>7, HandlerStep DEF Undemanding
<1> QED
  BY <1>1, <1>3, <1>8

\* The process dies: its successor looks at every name.
LEMMA CrashSync ==
  ASSUME IInv, SyncInv, Crash PROVE SyncInv'
<1>1. /\ pc'[Main] = "base" /\ configdb' = configdb /\ chain' = chain
      /\ \A w \in Workers : pc'[w] = "idle" /\ req'[w] = NoRequest
  BY ThreadsAssumption DEF Crash, Threads
<1>2. NamesInv'
  BY <1>1 DEF SyncInv, NamesInv, Underway
<1>3. HandlerInv'
  <2>1. DOMAIN NoRequest.updates = {}
    BY DEF NoRequest
  <2> QED
    BY <1>1, <2>1 DEF HandlerInv, HandlerOK
<1>4. ReconcileInv'
  BY <1>1 DEF ReconcileInv, Repairing, Removing
<1> QED
  BY <1>2, <1>3, <1>4 DEF SyncInv

\* The base rule is no rule: every name stays as it is.
LEMMA EnsureBaseSync ==
  ASSUME IInv, SyncInv, EnsureBaseRules
  PROVE  SyncInv' /\ \A id \in RuleIds : Held(chain', id) = Held(chain, id)
<1>1. /\ pc'[Main] = "diff" /\ configdb' = configdb /\ Startup
  BY MainFacts DEF EnsureBaseRules, Goto, Startup, IInv, TypeOK
<1>2. ASSUME NEW id \in RuleIds
      PROVE  /\ NameOK(chain', configdb', id)
             /\ Held(chain', id) = Held(chain, id)
  <2>1. id # Established
    BY NamesAssumption DEF BaseTags
  <2>2. \A d \in ChainNames : SameLines(chain[d], chain'[d], id)
    BY <2>1, EnsureBaseEffect
  <2>3. NameOK(chain, configdb, id)
    BY DEF SyncInv, NamesInv
  <2> QED
    BY <1>1, <2>2, <2>3, NameStays
<1>3. ReconcileInv'
  BY <1>1 DEF ReconcileInv, Repairing, Removing
<1>4. \A id : Underway(id)'
  BY <1>1 DEF Underway
<1>5. HandlerInv
  BY DEF SyncInv
<1> QED
  BY <1>1, <1>2, <1>3, <1>4, <1>5, MainStartStep

\* Reading both sides: what does not agree is on the list, and nothing has
\* drifted to another chain.
LEMMA ReadBothSync ==
  ASSUME IInv, SyncInv, ReadBothSides PROVE SyncInv'
<1>1. /\ pc'[Main] = "reconcile" /\ configdb' = configdb /\ chain' = chain
      /\ Startup /\ HandlerInv
      /\ \A id \in RuleIds : seen'[id] = ListedChain(id)
      /\ todo' = Discrepancies([id \in RuleIds |-> ListedChain(id)])
  BY MainFacts DEF ReadBothSides, Goto, Startup, SyncInv, IInv, TypeOK
<1>2. \A id \in RuleIds : NameOK(chain, configdb, id)
  BY DEF SyncInv, NamesInv
<1>3. ASSUME NEW id \in RuleIds
      PROVE  /\ ListedChain(id) = None => Held(chain, id) = {}
             /\ ListedChain(id) # None => Held(chain, id) = {ListedChain(id)}
  <2>1. ListedChain(id) = None => Held(chain, id) = {}
    BY NamesAssumption DEF ListedChain, Held, ChainNames
  <2>2. \A c, d \in Held(chain, id) : c = d
    BY <1>2 DEF NameOK, Sole
  <2> QED
    BY <2>1, <2>2, ListedChainHeld
<1>4. ASSUME NEW id \in RuleIds, id \in todo', ListedChain(id) # None
      PROVE  configdb[id] = None
  <2> SUFFICES ASSUME configdb[id] # None PROVE FALSE
    OBVIOUS
  <2>1. configdb[id].chain # ListedChain(id)
    BY <1>1, <1>4 DEF Discrepancies
  <2>2. \A c \in Held(chain, id) : c = configdb[id].chain
    BY <1>2 DEF NameOK, Faithful, Held
  <2> QED
    BY <1>3, <1>4, <2>1, <2>2
<1>5. ReconcileInv'
  <2>1. todo' \subseteq RuleIds
    BY <1>1 DEF Discrepancies
  <2> QED
    BY <1>1, <1>3, <1>4, <2>1 DEF ReconcileInv, Removing
<1>6. ASSUME NEW id \in RuleIds
      PROVE  Settled(chain', configdb', id) \/ Underway(id)'
  <2>1. CASE id \in todo'
    BY <1>1, <2>1 DEF Underway, Repairing
  <2>2. CASE id \notin todo'
    <3>1. (configdb[id] = None) = (ListedChain(id) = None)
      BY <1>1, <2>2 DEF Discrepancies
    <3> QED
      BY <1>1, <1>3, <3>1 DEF Settled
  <2> QED
    BY <2>1, <2>2
<1> QED
  BY <1>1, <1>2, <1>5, <1>6, MainStartStep

\* The server is started when nothing is left to repair: every name is settled.
LEMMA StartServerSync ==
  ASSUME IInv, SyncInv, StartServer PROVE SyncInv'
<1>1. /\ pc[Main] = "reconcile" /\ todo = {} /\ pc'[Main] = "serve"
      /\ configdb' = configdb /\ chain' = chain /\ Startup /\ HandlerInv
  BY MainFacts DEF StartServer, Goto, Startup, SyncInv, IInv, TypeOK
<1>2. \A w \in Workers : pc[w] = "idle"
  BY <1>1 DEF IInv, StartupAlone
<1>3. \A id : ~Underway(id)
  BY <1>1, <1>2 DEF Underway, Removing
<1>4. \A id \in RuleIds :
        NameOK(chain, configdb, id) /\ Settled(chain, configdb, id)
  BY <1>3 DEF SyncInv, NamesInv
<1>5. ReconcileInv'
  BY <1>1 DEF ReconcileInv, Repairing, Removing
<1> QED
  BY <1>1, <1>4, <1>5, MainStartStep

\* reconcile installs a rule that has no line.
LEMMA ReconcileApplySync ==
  ASSUME Undemanding, IInv, OrderInv, SyncInv, NEW i \in RuleIds,
         ReconcileApply(i)
  PROVE  /\ SyncInv' /\ configdb[i] # None
         /\ Held(chain, i) = {} /\ Held(chain', i) # {}
         /\ \A j \in RuleIds : j # i =>
              \A d \in ChainNames : SameLines(chain[d], chain'[d], j)
<1> DEFINE r == configdb[i]
<1>1. /\ pc[Main] = "reconcile" /\ pc' = pc /\ configdb' = configdb
      /\ seen' = seen /\ todo' = todo \ {i} /\ i \in todo /\ r # None
      /\ seen[i] = None /\ Startup /\ HandlerInv /\ todo \subseteq RuleIds
  BY MainFacts DEF ReconcileApply, Missing, Startup, SyncInv
<1>2. Held(chain, i) = {}
  BY <1>1 DEF SyncInv, ReconcileInv, Repairing
<1>3. r \in ValidBodies /\ r \in RuleType /\ Placeable(r)
  BY <1>1, BodyPlaceable DEF SyncInv, NamesInv, NameOK, Undemanding
<1>4. Insertable(chain[r.chain], r)
  <2>1. chain[r.chain] \in Seq(LineType)
    BY <1>3, MainFacts DEF RuleType
  <2>2. LinesOf(chain["FORWARD"], Established) # {}
    BY <1>1 DEF OrderInv, Orderly, Undemanding
  <2> QED
    BY <1>3, <2>1, <2>2, PlaceableInsertable
<1>5. chain' = [chain EXCEPT ![r.chain] = Inserted(@, i, r)]
  BY <1>4 DEF ReconcileApply
<1> HIDE DEF r
<1>6. /\ Held(chain', i) = {r.chain} /\ Sole(chain', i)
      /\ \A c \in ChainNames : \A n \in LinesOf(chain'[c], i) :
           c = r.chain /\ chain'[c][n].rule = r
  BY <1>2, <1>3, <1>4, <1>5, InstalledSole
<1>7. NameOK(chain', configdb', i) /\ Settled(chain', configdb', i)
  BY <1>1, <1>3, <1>6 DEF NameOK, Faithful, Settled, r
<1>8. \A j \in RuleIds : j # i =>
        \A d \in ChainNames : SameLines(chain[d], chain'[d], j)
  BY <1>3, <1>4, <1>5, InsertEffect
<1>9. ASSUME NEW j \in RuleIds, j # i
      PROVE  /\ Held(chain', j) = Held(chain, j)
             /\ NameOK(chain', configdb', j)
             /\ Settled(chain', configdb', j) \/ Underway(j)'
  <2>1. NameOK(chain, configdb, j) /\ (Settled(chain, configdb, j) \/ Underway(j))
    BY DEF SyncInv, NamesInv
  <2>2. Underway(j) => j \in todo
    BY <1>1 DEF Underway, Removing, IInv, StartupAlone
  <2>3. j \in todo => Underway(j)'
    BY <1>1, <1>9 DEF Underway, Repairing
  <2> QED
    BY <1>1, <1>8, <1>9, <2>1, <2>2, <2>3, NameStays
<1>10. ReconcileInv'
  <2>1. ASSUME NEW j \in todo'
        PROVE  IF seen'[j] = None THEN Held(chain', j) = {}
               ELSE Held(chain', j) = {seen'[j]} /\ configdb'[j] = None
    <3>1. j \in todo /\ j \in RuleIds /\ j # i
      BY <1>1
    <3>2. IF seen[j] = None THEN Held(chain, j) = {}
          ELSE Held(chain, j) = {seen[j]} /\ configdb[j] = None
      BY <1>1, <3>1 DEF SyncInv, ReconcileInv, Repairing
    <3> QED
      BY <1>1, <1>9, <3>1, <3>2
  <2> QED
    BY <1>1, <2>1 DEF ReconcileInv, Removing
<1>11. SyncInv'
  BY <1>1, <1>7, <1>9, <1>10, MainStartStep
<1> QED
  BY <1>1, <1>2, <1>6, <1>8, <1>11 DEF r

\* reconcile goes to remove an orphan: nothing has drifted.
LEMMA ReconcileRemoveSync ==
  ASSUME IInv, SyncInv, NEW i \in RuleIds, ReconcileRemove(i) PROVE SyncInv'
<1>1. /\ pc[Main] = "reconcile" /\ pc'[Main] = "list"
      /\ configdb' = configdb /\ chain' = chain /\ Startup /\ HandlerInv
      /\ target'[Main] = [id |-> i, chain |-> seen[i]]
      /\ \A j \in RuleIds : j # i => seen'[j] = seen[j]
      /\ i \in todo /\ seen[i] # None /\ todo \subseteq RuleIds
  BY MainFacts DEF ReconcileRemove, Orphans, Drifted, Goto, Startup, SyncInv,
                   IInv, TypeOK
<1>2. Held(chain, i) = {seen[i]} /\ configdb[i] = None
  BY <1>1 DEF SyncInv, ReconcileInv, Repairing
<1>3. todo' = todo \ {i}
  BY <1>1, <1>2 DEF ReconcileRemove, Orphans
<1>4. ReconcileInv'
  <2>1. ASSUME NEW j \in todo'
        PROVE  IF seen'[j] = None THEN Held(chain, j) = {}
               ELSE Held(chain, j) = {seen'[j]} /\ configdb[j] = None
    <3>1. j \in todo /\ j \in RuleIds /\ seen'[j] = seen[j]
      BY <1>1, <1>3
    <3> QED
      BY <1>1, <3>1 DEF SyncInv, ReconcileInv, Repairing
  <2>2. /\ configdb[target'[Main].id] = None
        /\ Held(chain, target'[Main].id) \subseteq {target'[Main].chain}
        /\ target'[Main].id \notin todo'
    BY <1>1, <1>2, <1>3
  <2> QED
    BY <1>1, <2>1, <2>2 DEF ReconcileInv
<1>5. ASSUME NEW j \in RuleIds
      PROVE  /\ NameOK(chain, configdb, j)
             /\ Settled(chain, configdb, j) \/ Underway(j)'
  <2>1. NameOK(chain, configdb, j) /\ (Settled(chain, configdb, j) \/ Underway(j))
    BY DEF SyncInv, NamesInv
  <2>2. Underway(j) => j \in todo
    BY <1>1 DEF Underway, Removing, IInv, StartupAlone
  <2>3. j \in todo => Underway(j)'
    BY <1>1, <1>3 DEF Underway, Repairing, Removing
  <2> QED
    BY <2>1, <2>2, <2>3
<1> QED
  BY <1>1, <1>4, <1>5, MainStartStep

\* reconcile lists the lines of the orphan.
LEMMA MainListSync ==
  ASSUME Undemanding, IInv, SyncInv, ListLines(Main) PROVE SyncInv'
<1> DEFINE id == target[Main].id
<1>1. /\ pc[Main] = "list" /\ configdb' = configdb /\ chain' = chain
      /\ target' = target /\ todo' = todo /\ seen' = seen
      /\ Startup /\ HandlerInv /\ Main \in Threads
  BY MainFacts DEF ListLines, Startup, SyncInv, rpcVars, startVars
<1>2. /\ configdb[id] = None /\ Held(chain, id) \subseteq {target[Main].chain}
      /\ id \notin todo
  BY <1>1 DEF SyncInv, ReconcileInv, Removing
<1>3. /\ id \in RuleIds
      /\ pc'[Main] = "cut" \/ (pc'[Main] = "reconcile" /\ Held(chain, id) = {})
  BY <1>1, <1>2, SoleList DEF AfterRemoval
<1>4. ReconcileInv'
  <2>1. \A j \in todo : IF seen[j] = None THEN Held(chain, j) = {}
                        ELSE Held(chain, j) = {seen[j]} /\ configdb[j] = None
    BY <1>1 DEF SyncInv, ReconcileInv, Repairing
  <2> QED
    BY <1>1, <1>2, <2>1 DEF ReconcileInv
<1>5. ASSUME NEW j \in RuleIds
      PROVE  /\ NameOK(chain, configdb, j)
             /\ Settled(chain, configdb, j) \/ Underway(j)'
  <2>1. NameOK(chain, configdb, j) /\ (Settled(chain, configdb, j) \/ Underway(j))
    BY DEF SyncInv, NamesInv
  <2>2. Underway(j) => j \in todo \/ j = id
    BY <1>1 DEF Underway, IInv, StartupAlone
  <2>3. j \in todo => Underway(j)'
    BY <1>1, <1>3 DEF Underway, Repairing
  <2>4. j = id => Settled(chain, configdb, j) \/ Underway(j)'
    BY <1>1, <1>2, <1>3 DEF Underway, Removing, Settled
  <2> QED
    BY <2>1, <2>2, <2>3, <2>4
<1> QED
  BY <1>1, <1>4, <1>5, MainStartStep

\* reconcile deletes the orphan's line.
LEMMA MainCutSync ==
  ASSUME Undemanding, IInv, OrderInv, SyncInv, CutLine(Main)
  PROVE  /\ SyncInv'
         /\ target[Main].id \in RuleIds
         /\ Held(chain, target[Main].id) # {} /\ Held(chain', target[Main].id) = {}
         /\ \A j \in RuleIds : j # target[Main].id =>
              \A d \in ChainNames : SameLines(chain[d], chain'[d], j)
<1> DEFINE id == target[Main].id
<1>1. /\ pc[Main] = "cut" /\ configdb' = configdb
      /\ target' = target /\ todo' = todo /\ seen' = seen
      /\ Startup /\ HandlerInv /\ NamesInv /\ Main \in Threads
  BY MainFacts DEF CutLine, Startup, SyncInv, rpcVars, startVars
<1>2. /\ configdb[id] = None /\ Held(chain, id) \subseteq {target[Main].chain}
      /\ id \notin todo
  BY <1>1 DEF SyncInv, ReconcileInv, Removing
<1>3. /\ id \in RuleIds /\ pc'[Main] = "reconcile"
      /\ Held(chain, id) # {} /\ Held(chain', id) = {}
      /\ \A j \in RuleIds : j # id =>
           \A d \in ChainNames : SameLines(chain[d], chain'[d], j)
  BY <1>1, <1>2, SoleCut DEF AfterRemoval
<1>4. ASSUME NEW j \in RuleIds, j # id
      PROVE  /\ Held(chain', j) = Held(chain, j) /\ NameOK(chain', configdb', j)
             /\ Settled(chain', configdb', j) \/ Underway(j)'
  <2>1. NameOK(chain, configdb, j) /\ (Settled(chain, configdb, j) \/ Underway(j))
    BY <1>1 DEF NamesInv
  <2>2. Underway(j) => j \in todo
    BY <1>1, <1>4 DEF Underway, IInv, StartupAlone
  <2>3. j \in todo => Underway(j)'
    BY <1>1, <1>3 DEF Underway, Repairing
  <2> QED
    BY <1>1, <1>3, <1>4, <2>1, <2>2, <2>3, NameStays
<1>5. NameOK(chain', configdb', id) /\ Settled(chain', configdb', id)
  BY <1>1, <1>2, <1>3, NoLinesOK
<1>6. ReconcileInv'
  <2>1. \A j \in todo : IF seen[j] = None THEN Held(chain, j) = {}
                        ELSE Held(chain, j) = {seen[j]} /\ configdb[j] = None
    BY <1>1 DEF SyncInv, ReconcileInv, Repairing
  <2>2. \A j \in todo : j \in RuleIds /\ j # id
    BY <1>2, MainFacts
  <2> QED
    BY <1>1, <1>3, <1>4, <2>1, <2>2 DEF ReconcileInv, Removing
<1>7. SyncInv'
  BY <1>1, <1>4, <1>5, <1>6, MainStartStep
<1> QED
  BY <1>3, <1>7

\* The agreement survives every step.
LEMMA SyncStep ==
  ASSUME Undemanding PROVE IInv /\ OrderInv /\ SyncInv /\ [Next]_vars => SyncInv'
<1> SUFFICES ASSUME IInv, OrderInv, SyncInv, [Next]_vars PROVE SyncInv'
  OBVIOUS
<1>1. IInv'
  BY NextInvariant
<1>2. CASE Crash
  BY <1>2, CrashSync
<1>3. ASSUME NEW w \in Workers, NEW q \in Requests, SetBegin(w, q)
      PROVE  SyncInv'
  BY <1>3, SetBeginSync
<1>4. ASSUME NEW w \in Workers, Handle(w) PROVE SyncInv'
  <2>1. CASE ReadDelete(w) \/ ReadUpdate(w)
    BY <1>1, <2>1, ReadEntrySync
  <2>2. CASE EraseRule(w)
    BY <2>2, EraseSync
  <2>3. CASE StoreRule(w)
    BY <2>3, StoreSync
  <2>4. CASE ApplyRule(w)
    BY <2>4, ApplySync
  <2>5. CASE TakeSnapshot(w) \/ SetEnd(w)
    BY <2>5, NextEntrySync
  <2>6. CASE ListLines(w)
    BY <2>6, ListSync
  <2>7. CASE CutLine(w)
    BY <2>7, CutSync
  <2> QED
    BY <1>4, <2>1, <2>2, <2>3, <2>4, <2>5, <2>6, <2>7 DEF Handle
<1>5. CASE Startup
  BY <1>5, EnsureBaseSync, ReadBothSync, StartServerSync, ReconcileApplySync,
     ReconcileRemoveSync, MainListSync, MainCutSync DEF Startup
<1>6. CASE UNCHANGED vars
  <2>1. req' = req
    BY <1>6 DEF vars
  <2> QED
    BY <1>6, <2>1, SameEntry
    DEF vars, SyncInv, NamesInv, HandlerInv, HandlerOK, ReconcileInv, Underway,
        Repairing, Removing
<1> QED
  BY <1>2, <1>3, <1>4, <1>5, <1>6, OrderlyStep DEF Undemanding, Proceeds

\* It holds when the leaf first boots: there are no rules.
LEMMA SyncInit == Init => SyncInv
<1> SUFFICES ASSUME Init PROVE SyncInv
  OBVIOUS
<1>1. ASSUME NEW id \in RuleIds PROVE Held(chain, id) = {} /\ configdb[id] = None
  <2>1. id # Established /\ id # Baseline
    BY NamesAssumption DEF BaseTags
  <2>2. LinesOf(BasePolicy, id) = {} /\ LinesOf(<<>>, id) = {}
    BY <2>1 DEF LinesOf, BasePolicy, BaseLine, Line
  <2>3. \A d \in ChainNames : chain[d] = <<>> \/ chain[d] = BasePolicy
    BY DEF Init
  <2>4. \A d \in ChainNames : LinesOf(chain[d], id) = {}
    BY <2>2, <2>3
  <2> QED
    BY <2>4 DEF Held, Init
<1>2. /\ pc[Main] = "base"
      /\ \A w \in Workers : pc[w] = "idle" /\ req[w] = NoRequest
  BY ThreadsAssumption DEF Init, Threads
<1>3. DOMAIN NoRequest.updates = {}
  BY DEF NoRequest
<1>4. NamesInv
  BY <1>1, NoLinesOK DEF NamesInv, Settled
<1>5. HandlerInv
  BY <1>2, <1>3 DEF HandlerInv, HandlerOK
<1>6. ReconcileInv
  BY <1>2 DEF ReconcileInv, Repairing, Removing
<1> QED
  BY <1>4, <1>5, <1>6 DEF SyncInv

\* In every state of every run, a bridge with one client whose commands succeed
\* has at most one line of each name, in the chain and with the content ConfigDB
\* has, and whatever is not settled is being worked on.
THEOREM SyncKept == ASSUME Undemanding PROVE Spec => []SyncInv
<1>1. IInv /\ OrderInv /\ SyncInv /\ [Next]_vars => SyncInv'
  BY SyncStep
<1> QED
  BY <1>1, SyncInit, OrderKept, Invariant, PTL DEF Spec

-----------------------------------------------------------------------------
(* What the filter does under a name, and the leaf's promise.              *)

\* If all lines of a name carry one rule and there is a line, this is the rule.
LEMMA RuleOfLines ==
  ASSUME NEW ch, NEW id, NEW r, Held(ch, id) # {},
         \A c \in ChainNames : \A n \in LinesOf(ch[c], id) : ch[c][n].rule = r
  PROVE  RuleIn(ch, id) = r
<1>1. EntriesIn(ch, id) # {}
  BY NoEntries
<1> DEFINE e == CHOOSE e \in EntriesIn(ch, id) : TRUE
<1>2. e \in EntriesIn(ch, id) /\ RuleIn(ch, id) = ch[e[1]][e[2]].rule
  BY <1>1 DEF RuleIn
<1> HIDE DEF e
<1>3. PICK c \in ChainNames : \E n \in LinesOf(ch[c], id) : e = <<c, n>>
  BY <1>2, EntryPlaces
<1> QED
  BY <1>2, <1>3

\* Without lines, nothing is enforced.
LEMMA RuleOfNoLines ==
  ASSUME NEW ch, NEW id, Held(ch, id) = {} PROVE RuleIn(ch, id) = None
BY NoEntries DEF RuleIn

\* A name with one line at most, whose lines stay, stays enforced as it is.
LEMMA RuleStays ==
  ASSUME NEW id, Sole(chain, id),
         \A d \in ChainNames : SameLines(chain[d], chain'[d], id)
  PROVE  RuleIn(chain', id) = RuleIn(chain, id)
<1>1. Held(chain', id) = Held(chain, id)
  BY OthersHeld
<1>2. CASE Held(chain, id) = {}
  BY <1>1, <1>2, RuleOfNoLines
<1>3. CASE Held(chain, id) # {}
  <2>1. PICK c \in ChainNames : LinesOf(chain[c], id) # {}
    BY <1>3 DEF Held
  <2>2. PICK m \in LinesOf(chain[c], id) : TRUE
    BY <2>1
  <2> DEFINE r == chain[c][m].rule
  <2>3. ASSUME NEW d \in ChainNames, NEW n \in LinesOf(chain[d], id)
        PROVE  chain[d][n].rule = r
    <3>1. d = c
      BY <2>1, <2>3 DEF Sole, Held
    <3> QED
      BY <2>2, <2>3, <3>1 DEF Sole
  <2> HIDE DEF r
  <2>4. ASSUME NEW d \in ChainNames, NEW n \in LinesOf(chain'[d], id)
        PROVE  chain'[d][n].rule = r
    <3>1. PICK k \in LinesOf(chain[d], id) : chain'[d][n] = chain[d][k]
      BY <2>4 DEF SameLines
    <3> QED
      BY <2>3, <3>1
  <2>5. RuleIn(chain, id) = r
    BY <1>3, <2>3, RuleOfLines
  <2>6. RuleIn(chain', id) = r
    BY <1>1, <1>3, <2>4, RuleOfLines
  <2> QED
    BY <2>5, <2>6
<1> QED
  BY <1>2, <1>3

\* A settled name in order has exactly one line, ConfigDB's.
LEMMA SettledEntry ==
  ASSUME NEW id, NameOK(chain, configdb, id), Settled(chain, configdb, id),
         configdb[id] # None
  PROVE  /\ Cardinality(Entries(id)) = 1
         /\ \A e \in Entries(id) : e[1] = configdb[id].chain
         /\ EnforcedRule(id) = configdb[id]
<1>1. Entries(id) = EntriesIn(chain, id) /\ EnforcedRule(id) = RuleIn(chain, id)
  BY DEF Entries, EntriesIn, EnforcedRule, RuleIn
<1>2. Held(chain, id) # {}
  BY DEF Settled
<1>3. PICK c \in ChainNames : LinesOf(chain[c], id) # {}
  BY <1>2 DEF Held
<1>4. PICK n \in LinesOf(chain[c], id) : TRUE
  BY <1>3
<1>5. ASSUME NEW e \in EntriesIn(chain, id) PROVE e = <<c, n>>
  <2>1. PICK d \in ChainNames : \E m \in LinesOf(chain[d], id) : e = <<d, m>>
    BY EntryPlaces
  <2>2. d = c
    BY <1>3, <2>1 DEF NameOK, Sole, Held
  <2> QED
    BY <1>4, <2>1, <2>2 DEF NameOK, Sole
<1>6. EntriesIn(chain, id) = {<<c, n>>}
  BY <1>4, <1>5, EntryPlaces
<1>7. Cardinality({<<c, n>>}) = 1
  BY FS_Singleton
<1>8. c = configdb[id].chain
  BY <1>4 DEF NameOK, Faithful
<1>9. RuleIn(chain, id) = configdb[id]
  <2> DEFINE r == configdb[id]
  <2>1. \A d \in ChainNames : \A m \in LinesOf(chain[d], id) : chain[d][m].rule = r
    BY DEF NameOK, Faithful
  <2> HIDE DEF r
  <2>2. RuleIn(chain, id) = r
    BY <1>2, <2>1, RuleOfLines
  <2> QED
    BY <2>2 DEF r
<1> QED
  BY <1>1, <1>6, <1>7, <1>8, <1>9

\* With one client whose commands succeed: at rest, the filter and ConfigDB say
\* the same, line for line, at whatever steps the process has died before.
THEOREM AlwaysExactlyInSync == ASSUME Undemanding PROVE Spec => []ExactlyInSync
<1>1. IInv /\ SyncInv => ExactlyInSync
  <2> SUFFICES ASSUME IInv, SyncInv, Quiet, NEW id \in RuleIds
               PROVE  IF configdb[id] = None THEN Entries(id) = {}
                      ELSE /\ Cardinality(Entries(id)) = 1
                           /\ \A e \in Entries(id) : e[1] = configdb[id].chain
                           /\ EnforcedRule(id) = configdb[id]
    BY DEF ExactlyInSync
  <2>1. ~Underway(id)
    BY DEF Quiet, Serving, Underway, Repairing, Removing
  <2>2. NameOK(chain, configdb, id) /\ Settled(chain, configdb, id)
    BY <2>1 DEF SyncInv, NamesInv
  <2>3. configdb[id] = None => Entries(id) = {}
    BY <2>2, NoEntries DEF Settled, Entries, EntriesIn
  <2> QED
    BY <2>2, <2>3, SettledEntry
<1> QED
  BY <1>1, SyncKept, Invariant, PTL

\* The abstract store's two variables, and how a step changes the second.
LEMMA EnforcedAsIn ==
  /\ \A id : EnforcedRule(id) = RuleIn(chain, id)
  /\ \A id : EnforcedRule(id)' = RuleIn(chain', id)
BY DEF EnforcedRule, RuleIn, Entries, EntriesIn

Enforced(ch) == [id \in RuleIds |-> RuleIn(ch, id)]

LEMMA EnforcedMapped ==
  /\ [id \in RuleIds |-> EnforcedRule(id)] = Enforced(chain)
  /\ [id \in RuleIds |-> EnforcedRule(id)]' = Enforced(chain')
BY EnforcedAsIn DEF Enforced

\* If the lines of every name but one stay, what is enforced changes for this
\* name alone.
LEMMA OneEnforced ==
  ASSUME NamesInv, NEW i \in RuleIds,
         \A j \in RuleIds : j # i =>
           \A d \in ChainNames : SameLines(chain[d], chain'[d], j)
  PROVE  Enforced(chain') = [Enforced(chain) EXCEPT ![i] = RuleIn(chain', i)]
<1>1. ASSUME NEW j \in RuleIds, j # i PROVE RuleIn(chain', j) = RuleIn(chain, j)
  BY <1>1, RuleStays DEF NamesInv, NameOK
<1> QED
  BY <1>1 DEF Enforced

\* A line of a stored rule that had none: the store's Enforce.
LEMMA EnforceMapped ==
  ASSUME NamesInv, NamesInv', NEW i \in RuleIds, configdb' = configdb,
         configdb[i] # None, Held(chain, i) = {}, Held(chain', i) # {},
         \A j \in RuleIds : j # i =>
           \A d \in ChainNames : SameLines(chain[d], chain'[d], j)
  PROVE  Store!Enforce(i)
<1>1. \A c \in ChainNames : \A n \in LinesOf(chain'[c], i) :
        chain'[c][n].rule = configdb[i]
  BY DEF NamesInv, NameOK, Faithful
<1>2. RuleIn(chain, i) = None /\ RuleIn(chain', i) = configdb[i]
  <2>1. RuleIn(chain, i) = None
    BY RuleOfNoLines
  <2> DEFINE r == configdb[i]
             ch == chain'
  <2>2. Held(ch, i) # {} /\ \A c \in ChainNames : \A n \in LinesOf(ch[c], i) :
          ch[c][n].rule = r
    BY <1>1
  <2> HIDE DEF r, ch
  <2>3. RuleIn(ch, i) = r
    BY <2>2, RuleOfLines
  <2> QED
    BY <2>1, <2>3 DEF r, ch
<1>3. Enforced(chain') = [Enforced(chain) EXCEPT ![i] = configdb[i]]
  BY <1>2, OneEnforced
<1>4. Enforced(chain)[i] = None
  BY <1>2 DEF Enforced
<1> QED
  BY <1>3, <1>4, EnforcedMapped DEF Store!Enforce

\* The lines of one name are gone: the store's Relax.
LEMMA RelaxMapped ==
  ASSUME NamesInv, NEW i \in RuleIds, configdb' = configdb, Held(chain', i) = {},
         \A j \in RuleIds : j # i =>
           \A d \in ChainNames : SameLines(chain[d], chain'[d], j)
  PROVE  Store!Relax(i)
<1>1. RuleIn(chain', i) = None
  BY RuleOfNoLines
<1>2. Enforced(chain') = [Enforced(chain) EXCEPT ![i] = None]
  BY <1>1, OneEnforced
<1> QED
  BY <1>2, EnforcedMapped DEF Store!Relax

\* Neither side changes: the store stutters.
LEMMA StutterMapped ==
  ASSUME configdb' = configdb, Enforced(chain') = Enforced(chain)
  PROVE  UNCHANGED Store!storeVars
BY EnforcedMapped DEF Store!storeVars

\* Every handler's step is a step of the abstract store.
LEMMA HandlerMapped ==
  ASSUME Undemanding, IInv, OrderInv, SyncInv, SyncInv',
         NEW w \in Workers, Handle(w)
  PROVE  Store!StoreNext \/ UNCHANGED Store!storeVars
<1>1. CASE EraseRule(w)
  <2>1. /\ pc[w] = "erase" /\ chain' = chain
        /\ configdb' = [configdb EXCEPT ![PathId(w)] = None]
    BY <1>1 DEF EraseRule
  <2>2. PathId(w) \in RuleIds
    BY <2>1 DEF IInv, EntryOK
  <2>3. Enforced(chain') = Enforced(chain)
    BY <2>1
  <2>4. Store!Erase(PathId(w))
    BY <2>1, <2>3, EnforcedMapped DEF Store!Erase
  <2> QED
    BY <2>2, <2>4 DEF Store!StoreNext
<1>2. CASE StoreRule(w)
  <2> DEFINE id == PathId(w)
             b == Update(w).body
  <2>1. /\ pc[w] = "store" /\ chain' = chain
        /\ configdb' = [configdb EXCEPT ![id] = b]
        /\ b \in ValidBodies /\ Held(chain, id) = {}
    BY <1>2, StoreSync DEF StoreRule
  <2>2. id \in RuleIds
    BY <2>1, WrittenUnderPath DEF SyncInv
  <2>3. Enforced(chain)[id] = None /\ Enforced(chain') = Enforced(chain)
    BY <2>1, <2>2, RuleOfNoLines DEF Enforced
  <2>4. Store!Record(id, b)
    BY <2>1, <2>3, EnforcedMapped DEF Store!Record
  <2>5. b \in {r \in Bodies : ValidRule(r)}
    BY <2>1 DEF ValidBodies
  <2> QED
    BY <2>2, <2>4, <2>5 DEF Store!StoreNext
<1>3. CASE ApplyRule(w)
  <2>1. /\ PathId(w) \in RuleIds /\ configdb' = configdb
        /\ configdb[PathId(w)] # None
        /\ Held(chain, PathId(w)) = {} /\ Held(chain', PathId(w)) # {}
        /\ \A j \in RuleIds : j # PathId(w) =>
             \A d \in ChainNames : SameLines(chain[d], chain'[d], j)
    BY <1>3, ApplySync
  <2>2. Store!Enforce(PathId(w))
    BY <2>1, EnforceMapped DEF SyncInv
  <2> QED
    BY <2>1, <2>2 DEF Store!StoreNext
<1>4. CASE CutLine(w)
  <2>1. /\ PathId(w) \in RuleIds /\ configdb' = configdb
        /\ Held(chain', PathId(w)) = {}
        /\ \A j \in RuleIds : j # PathId(w) =>
             \A d \in ChainNames : SameLines(chain[d], chain'[d], j)
    BY <1>4, CutSync
  <2>2. Store!Relax(PathId(w))
    BY <2>1, RelaxMapped DEF SyncInv
  <2> QED
    BY <2>1, <2>2 DEF Store!StoreNext
<1>5. CASE ReadDelete(w) \/ ReadUpdate(w) \/ TakeSnapshot(w) \/ SetEnd(w)
           \/ ListLines(w)
  <2>1. configdb' = configdb /\ chain' = chain
    BY <1>5 DEF ReadDelete, ReadUpdate, TakeSnapshot, SetEnd, ListLines
  <2> QED
    BY <2>1, StutterMapped
<1> QED
  BY <1>1, <1>2, <1>3, <1>4, <1>5 DEF Handle

\* So is every step of the startup.
LEMMA StartupMapped ==
  ASSUME Undemanding, IInv, OrderInv, SyncInv, SyncInv', Startup
  PROVE  Store!StoreNext \/ UNCHANGED Store!storeVars
<1>1. CASE EnsureBaseRules
  <2>1. ASSUME NEW id \in RuleIds PROVE RuleIn(chain', id) = RuleIn(chain, id)
    <3>1. id # Established
      BY NamesAssumption DEF BaseTags
    <3>2. \A d \in ChainNames : SameLines(chain[d], chain'[d], id)
      BY <1>1, <3>1, EnsureBaseEffect
    <3>3. Sole(chain, id)
      BY DEF SyncInv, NamesInv, NameOK
    <3> QED
      BY <3>2, <3>3, RuleStays
  <2>2. configdb' = configdb /\ Enforced(chain') = Enforced(chain)
    BY <1>1, <2>1 DEF EnsureBaseRules, Enforced
  <2> QED
    BY <2>2, StutterMapped
<1>2. ASSUME NEW i \in RuleIds, ReconcileApply(i) PROVE Store!StoreNext
  <2>1. /\ configdb' = configdb /\ configdb[i] # None
        /\ Held(chain, i) = {} /\ Held(chain', i) # {}
        /\ \A j \in RuleIds : j # i =>
             \A d \in ChainNames : SameLines(chain[d], chain'[d], j)
    BY <1>2, ReconcileApplySync DEF ReconcileApply
  <2>2. Store!Enforce(i)
    BY <2>1, EnforceMapped DEF SyncInv
  <2> QED
    BY <2>2 DEF Store!StoreNext
<1>3. CASE CutLine(Main)
  <2> DEFINE i == target[Main].id
  <2>1. /\ i \in RuleIds /\ configdb' = configdb /\ Held(chain', i) = {}
        /\ \A j \in RuleIds : j # i =>
             \A d \in ChainNames : SameLines(chain[d], chain'[d], j)
    BY <1>3, MainCutSync DEF CutLine
  <2> HIDE DEF i
  <2>2. Store!Relax(i)
    BY <2>1, RelaxMapped DEF SyncInv
  <2> QED
    BY <2>1, <2>2 DEF Store!StoreNext
<1>4. ASSUME \/ ReadBothSides \/ StartServer \/ ListLines(Main)
             \/ \E i \in RuleIds : ReconcileRemove(i)
      PROVE  UNCHANGED Store!storeVars
  <2>1. configdb' = configdb /\ chain' = chain
    BY <1>4 DEF ReadBothSides, StartServer, ListLines, ReconcileRemove
  <2> QED
    BY <2>1, StutterMapped
<1> QED
  BY <1>1, <1>2, <1>3, <1>4 DEF Startup

\* Every step of the bridge is one of the abstract store, or leaves it alone:
\* a Set begins, or the process dies.
LEMMA PromiseStep ==
  ASSUME Undemanding
  PROVE  IInv /\ OrderInv /\ SyncInv /\ [Next]_vars =>
           [Store!StoreNext]_(Store!storeVars)
<1> SUFFICES ASSUME IInv, OrderInv, SyncInv, [Next]_vars
             PROVE  Store!StoreNext \/ UNCHANGED Store!storeVars
  OBVIOUS
<1>1. SyncInv'
  BY SyncStep
<1>2. ASSUME NEW w \in Workers, Handle(w)
      PROVE  Store!StoreNext \/ UNCHANGED Store!storeVars
  BY <1>1, <1>2, HandlerMapped
<1>3. CASE Startup
  BY <1>1, <1>3, StartupMapped
<1>4. ASSUME Crash \/ (\E w \in Workers, q \in Requests : SetBegin(w, q))
             \/ UNCHANGED vars
      PROVE  UNCHANGED Store!storeVars
  <2>1. configdb' = configdb /\ chain' = chain
    BY <1>4 DEF Crash, SetBegin, vars
  <2> QED
    BY <2>1, StutterMapped
<1> QED
  BY <1>2, <1>3, <1>4, OrderlyStep DEF Undemanding, Proceeds

\* When the leaf first boots nothing is recorded and nothing enforced.
LEMMA PromiseInit == Init => Store!StoreInit
<1> SUFFICES ASSUME Init PROVE Store!StoreInit
  OBVIOUS
<1>1. NamesInv /\ IInv
  BY SyncInit, InitInvariant DEF SyncInv
<1>2. configdb = [id \in RuleIds |-> None]
  BY DEF Init
<1>3. ASSUME NEW id \in RuleIds PROVE Held(chain, id) = {}
  <2>1. id # Established /\ id # Baseline
    BY NamesAssumption DEF BaseTags
  <2>2. LinesOf(BasePolicy, id) = {} /\ LinesOf(<<>>, id) = {}
    BY <2>1 DEF LinesOf, BasePolicy, BaseLine, Line
  <2>3. \A d \in ChainNames : chain[d] = <<>> \/ chain[d] = BasePolicy
    BY DEF Init
  <2>4. \A d \in ChainNames : LinesOf(chain[d], id) = {}
    BY <2>2, <2>3
  <2> QED
    BY <2>4 DEF Held
<1>4. Enforced(chain) = [id \in RuleIds |-> None]
  BY <1>3, RuleOfNoLines DEF Enforced
<1> QED
  BY <1>2, <1>4, EnforcedMapped DEF Store!StoreInit

\* The bridge implements the abstract store, step by step and through every
\* death of the process: with one client whose commands succeed, a leaf never
\* enforces a version other than the one it has recorded.
THEOREM PromiseKept == ASSUME Undemanding PROVE Spec => KeepsPromise
<1>1. IInv /\ OrderInv /\ SyncInv /\ [Next]_vars =>
        [Store!StoreNext]_(Store!storeVars)
  BY PromiseStep
<1> QED
  BY <1>1, PromiseInit, SyncKept, OrderKept, Invariant, PTL
  DEF Spec, KeepsPromise, Store!StoreSpec

\* What the abstract store promises follows from its steps alone, and so holds
\* of the bridge: what is both recorded and enforced is enforced as recorded.
THEOREM AlwaysNeverStale == ASSUME Undemanding PROVE Spec => []Store!NeverStale
<1> DEFINE Rules == {b \in Bodies : ValidRule(b)}
           e == [id \in RuleIds |-> EnforcedRule(id)]
           Typed == /\ configdb \in [RuleIds -> Rules \cup {None}]
                    /\ e \in [RuleIds -> Rules \cup {None}]
           Promise == \A id \in RuleIds :
                        configdb[id] # None /\ e[id] # None => e[id] = configdb[id]
           Record(id, r) == /\ e[id] = None /\ configdb' = [configdb EXCEPT ![id] = r]
                            /\ e' = e
           Erase(id) == configdb' = [configdb EXCEPT ![id] = None] /\ e' = e
           Enforce(id) == /\ configdb[id] # None /\ e[id] = None
                          /\ e' = [e EXCEPT ![id] = configdb[id]] /\ configdb' = configdb
           Relax(id) == e' = [e EXCEPT ![id] = None] /\ configdb' = configdb
<1>1. Store!StoreInit => Typed /\ Promise
  BY DEF Store!StoreInit
<1>2. [Store!StoreNext]_(Store!storeVars) =>
        \/ \E id \in RuleIds : \/ \E r \in Rules : Record(id, r)
                               \/ Erase(id) \/ Enforce(id) \/ Relax(id)
        \/ configdb' = configdb /\ e' = e
  BY DEF Store!StoreNext, Store!Record, Store!Erase, Store!Enforce, Store!Relax,
         Store!storeVars
<1>3. Promise => Store!NeverStale
  BY DEF Store!NeverStale
<1> HIDE DEF Rules, e
<1>4. ASSUME Typed, Promise, NEW id \in RuleIds, NEW r \in Rules, Record(id, r)
      PROVE  Typed' /\ Promise'
  BY <1>4
<1>5. ASSUME Typed, Promise, NEW id \in RuleIds, Erase(id) PROVE Typed' /\ Promise'
  BY <1>5
<1>6. ASSUME Typed, Promise, NEW id \in RuleIds, Enforce(id) PROVE Typed' /\ Promise'
  BY <1>6
<1>7. ASSUME Typed, Promise, NEW id \in RuleIds, Relax(id) PROVE Typed' /\ Promise'
  BY <1>7
<1>8. Typed /\ Promise /\ [Store!StoreNext]_(Store!storeVars) => (Typed /\ Promise)'
  BY <1>2, <1>4, <1>5, <1>6, <1>7
<1> HIDE DEF Typed, Promise
<1> QED
  BY <1>1, <1>3, <1>8, PromiseKept, PTL DEF KeepsPromise, Store!StoreSpec
=============================================================================
