--------------------------- MODULE AclBridgeProofs ---------------------------
(***************************************************************************)
(* Proofs about AclBridge for every set of names, workers and requests and *)
(* every bound.                                                            *)
(***************************************************************************)
EXTENDS AclBridge, SequenceTheorems, TLAPS

-----------------------------------------------------------------------------
(* Inserting and removing one line.                                        *)

\* iptables -I n: the lines before n stay, the others move down by one.
LEMMA InsertAtProperties ==
  ASSUME NEW S, NEW s \in Seq(S), NEW e \in S, NEW i \in 1..Len(s) + 1
  PROVE  /\ InsertAt(s, i, e) \in Seq(S)
         /\ Len(InsertAt(s, i, e)) = Len(s) + 1
         /\ \A j \in 1..Len(s) + 1 :
              InsertAt(s, i, e)[j] =
                IF j < i THEN s[j] ELSE IF j = i THEN e ELSE s[j - 1]
<1> DEFINE front == SubSeq(s, 1, i - 1)
           back  == SubSeq(s, i, Len(s))
<1>1. Len(s) \in Nat /\ i \in Int
  BY LenProperties
<1>2. \A j \in 1..Len(s) : s[j] \in S
  BY ElementOfSeq
<1>3. /\ front \in Seq(S) /\ Len(front) = i - 1
      /\ \A j \in 1..i - 1 : front[j] = s[j]
  <2>1. \A j \in 1..i - 1 : s[j] \in S
    BY <1>1, <1>2
  <2> HIDE DEF front
  <2> QED
    BY <1>1, <2>1, SubSeqProperties, Z3 DEF front
<1>4. /\ back \in Seq(S) /\ Len(back) = Len(s) - i + 1
      /\ \A j \in 1..Len(s) - i + 1 : back[j] = s[i + j - 1]
  <2>1. \A j \in i..Len(s) : s[j] \in S
    BY <1>1, <1>2
  <2> HIDE DEF back
  <2> QED
    BY <1>1, <2>1, SubSeqProperties, Z3 DEF back
<1>5. <<e>> \in Seq(S) /\ Len(<<e>>) = 1 /\ <<e>>[1] = e
  OBVIOUS
<1> HIDE DEF front, back
<1> DEFINE head == front \o <<e>>
<1>6. /\ head \in Seq(S) /\ Len(head) = i
      /\ \A j \in 1..i : head[j] = IF j < i THEN s[j] ELSE e
  BY <1>1, <1>3, <1>5, ConcatProperties
<1> HIDE DEF head
<1>7. /\ head \o back \in Seq(S) /\ Len(head \o back) = Len(s) + 1
      /\ \A j \in 1..Len(s) + 1 :
           (head \o back)[j] = IF j <= i THEN head[j] ELSE back[j - i]
  BY <1>1, <1>4, <1>6, ConcatProperties
<1>8. InsertAt(s, i, e) = head \o back
  BY DEF InsertAt, head, front, back
<1> QED
  BY <1>1, <1>4, <1>6, <1>7, <1>8

\* iptables -D n: the lines before n stay, the others move up by one.
LEMMA RemoveAtProperties ==
  ASSUME NEW S, NEW s \in Seq(S), NEW i \in 1..Len(s)
  PROVE  /\ RemoveAt(s, i) \in Seq(S)
         /\ Len(RemoveAt(s, i)) = Len(s) - 1
         /\ \A j \in 1..Len(s) - 1 :
              RemoveAt(s, i)[j] = IF j < i THEN s[j] ELSE s[j + 1]
<1> DEFINE front == SubSeq(s, 1, i - 1)
           back  == SubSeq(s, i + 1, Len(s))
<1>1. Len(s) \in Nat /\ i \in Int
  BY LenProperties
<1>2. \A j \in 1..Len(s) : s[j] \in S
  BY ElementOfSeq
<1>3. /\ front \in Seq(S) /\ Len(front) = i - 1
      /\ \A j \in 1..i - 1 : front[j] = s[j]
  <2>1. \A j \in 1..i - 1 : s[j] \in S
    BY <1>1, <1>2
  <2> HIDE DEF front
  <2> QED
    BY <1>1, <2>1, SubSeqProperties, Z3 DEF front
<1>4. /\ back \in Seq(S) /\ Len(back) = Len(s) - i
      /\ \A j \in 1..Len(s) - i : back[j] = s[i + j]
  <2>1. \A j \in i + 1..Len(s) : s[j] \in S
    BY <1>1, <1>2
  <2> HIDE DEF back
  <2> QED
    BY <1>1, <2>1, SubSeqProperties, Z3 DEF back
<1> HIDE DEF front, back
<1>5. /\ front \o back \in Seq(S) /\ Len(front \o back) = Len(s) - 1
      /\ \A j \in 1..Len(s) - 1 :
           (front \o back)[j] = IF j < i THEN front[j] ELSE back[j - i + 1]
  BY <1>1, <1>3, <1>4, ConcatProperties
<1>6. RemoveAt(s, i) = front \o back
  BY DEF RemoveAt, front, back
<1> QED
  BY <1>1, <1>3, <1>4, <1>5, <1>6

-----------------------------------------------------------------------------
(* The invariant.  TypeOK is not inductive: that the lines written are     *)
(* rules, and that a thread removes lines of a chain there is, depends on  *)
(* where each thread is.                                                   *)

WorkerLabels ==
  {"idle", "entry", "erase", "list", "cut", "store", "apply", "snap"}
MainLabels == {"base", "diff", "reconcile", "list", "cut", "serve"}

\* No handler runs before the server is started.
StartupAlone ==
  /\ \A w \in Workers : pc[w] \in WorkerLabels
  /\ pc[Main] \in MainLabels
  /\ pc[Main] # "serve" => \A w \in Workers : pc[w] = "idle"

\* Whoever is to list or delete lines knows of which rule and in which chain.
Targets == [id : RuleIds, chain : ChainNames]
TargetOK ==
  \A t \in Threads : pc[t] \in {"erase", "list", "cut"} => target[t] \in Targets

\* Past its first step, an entry has a name; an update, a valid body.
EntryOK ==
  \A w \in Workers : pc[w] \notin {"idle", "entry"} =>
    /\ PathId(w) \in RuleIds
    /\ Deleting(w) \/ (req[w].updates # <<>> /\ ValidRule(Update(w).body))
    /\ pc[w] \in {"store", "apply"} => ~Deleting(w)

\* What reconcile is to remove has been listed in some chain.
TodoOK ==
  /\ pc[Main] = "serve" => todo = {}
  /\ \A id \in todo : configdb[id] = None => seen[id] # None

IInv == TypeOK /\ StartupAlone /\ TargetOK /\ EntryOK /\ TodoOK

-----------------------------------------------------------------------------
(* What the helpers return.                                                *)

LineType == [tag : RuleIds \cup BaseTags, rule : RuleType \cup {None}]

\* HSET over an older hash gives a rule, with the new one's source and action.
LEMMA HashSetType ==
  ASSUME NEW old \in RuleType \cup {None}, NEW r \in RuleType
  PROVE  /\ HashSet(old, r) \in RuleType
         /\ HashSet(old, r).source = r.source
         /\ HashSet(old, r).action = r.action
<1>1. CASE old = None
  BY <1>1 DEF HashSet
<1>2. CASE old # None
  BY <1>2 DEF HashSet, RuleType
<1> QED
  BY <1>1, <1>2

\* A line iptables has inserted leaves a chain of lines.
LEMMA InsertedType ==
  ASSUME NEW c \in Seq(LineType), NEW id \in RuleIds, NEW r \in RuleType,
         Insertable(c, r)
  PROVE  Inserted(c, id, r) \in Seq(LineType)
<1>1. Position(r, Len(c)) \in 1..Len(c) + 1
  BY DEF Insertable
<1>2. Line(id, r) \in LineType
  BY DEF Line, LineType
<1> QED
  BY <1>1, <1>2, InsertAtProperties DEF Inserted

\* The role a certificate gives is one of the four.
LEMMA RoleOfType ==
  ASSUME NEW ou PROVE RoleOf(ou) \in Roles
BY DEF RoleOf, Roles

\* Where remove_rule is to look is a chain.
LEMMA StoredAtType ==
  ASSUME TypeOK, NEW id \in RuleIds
  PROVE  StoredAt(id) \in [id : RuleIds, chain : ChainNames]
<1>1. configdb[id] \in RuleType \cup {None}
  BY DEF TypeOK
<1>2. configdb[id] # None => configdb[id].chain \in ChainNames
  BY <1>1 DEF RuleType
<1> QED
  BY <1>2 DEF StoredAt, ChainNames

\* The baseline of 07-apply-policy is a chain of lines.
LEMMA BasePolicyType == BasePolicy \in Seq(LineType) /\ <<>> \in Seq(LineType)
BY DEF BasePolicy, BaseLine, Line, LineType, BaseTags

\* A listed name is in one chain's save, or in none.
LEMMA ListedChainType ==
  ASSUME NEW id PROVE ListedChain(id) \in ChainNames \cup {None}
BY DEF ListedChain, ChainNames

-----------------------------------------------------------------------------
(* Initially, and after a crash.                                           *)

\* At the first boot of a leaf the invariant holds.
LEMMA InitInvariant == Init => IInv
<1> SUFFICES ASSUME Init PROVE IInv
  OBVIOUS
<1>1. TypeOK
  <2>1. chain \in [ChainNames -> Seq(LineType)]
    BY BasePolicyType DEF Init
  <2>2. NoRequest \in [role : Roles, deletes : Seq(RuleIdOrNone),
                       updates : Seq(UpdateType)]
    BY DEF NoRequest, Roles
  <2>3. /\ configdb \in [RuleIds -> RuleType \cup {None}]
        /\ snapshot \in [RuleIds -> Roles \cup {None}]
        /\ req \in [Workers -> [role : Roles, deletes : Seq(RuleIdOrNone),
                                 updates : Seq(UpdateType)]]
    BY <2>2 DEF Init
  <2>4. pc \in [Threads -> {"idle", "entry", "erase", "list", "cut", "store",
                       "apply", "snap", "base", "diff", "reconcile", "serve"}]
    BY DEF Init
  <2>5. /\ target \in [Threads -> [id : RuleIds, chain : ChainNames] \cup {None}]
        /\ lines \in [Threads -> SUBSET Nat]
        /\ seen \in [RuleIds -> ChainNames \cup {None}]
        /\ todo \subseteq RuleIds /\ undisturbed \in BOOLEAN
    BY DEF Init
  <2>6. sets \in 0..MaxSets /\ crashes \in 0..MaxCrashes /\ faults \in 0..MaxFaults
    BY BoundsAssumption DEF Init
  <2> QED
    BY <2>1, <2>3, <2>4, <2>5, <2>6 DEF TypeOK, LineType
<1>2. StartupAlone
  BY ThreadsAssumption
  DEF Init, StartupAlone, WorkerLabels, MainLabels, Threads
<1>3. TargetOK
  BY DEF Init, TargetOK
<1>4. EntryOK
  BY ThreadsAssumption DEF Init, EntryOK, Threads
<1>5. TodoOK
  BY ThreadsAssumption DEF Init, TodoOK, Threads
<1> QED
  BY <1>1, <1>2, <1>3, <1>4, <1>5 DEF IInv

-----------------------------------------------------------------------------
(* Steps of a worker.                                                      *)

RequestType == [role : Roles, deletes : Seq(RuleIdOrNone),
                updates : Seq(UpdateType)]

\* What the invariant says of one worker.
LEMMA WorkerFacts ==
  ASSUME IInv, NEW w \in Workers
  PROVE  /\ w \in Threads /\ w # Main
         /\ pc[w] \in WorkerLabels
         /\ pc[w] # "idle" => Serving
         /\ req[w] \in RequestType
         /\ target[w] \in Targets \cup {None}
<1>1. w \in Threads /\ w # Main
  BY ThreadsAssumption DEF Threads
<1>2. pc[w] \in WorkerLabels /\ (pc[w] # "idle" => pc[Main] = "serve")
  BY DEF IInv, StartupAlone
<1>3. req[w] \in RequestType /\ target[w] \in Targets \cup {None}
  BY <1>1 DEF IInv, TypeOK, RequestType, Targets
<1> QED
  BY <1>1, <1>2, <1>3 DEF Serving

\* A worker disturbs only its own part of the state: it is enough to look at
\* where it goes and what it has there.
LEMMA WorkerStep ==
  ASSUME IInv, NEW w \in Workers, Serving,
         NEW label \in WorkerLabels, Goto(w, label),
         configdb' \in [RuleIds -> RuleType \cup {None}],
         snapshot' \in [RuleIds -> Roles \cup {None}],
         chain' \in [ChainNames -> Seq(LineType)],
         req' \in [Workers -> RequestType],
         \A v \in Workers : v # w => req'[v] = req[v],
         target' \in [Threads -> Targets \cup {None}],
         \A t \in Threads : t # w => target'[t] = target[t],
         lines' \in [Threads -> SUBSET Nat],
         UNCHANGED startVars, undisturbed' \in BOOLEAN,
         sets' \in 0..MaxSets, crashes' \in 0..MaxCrashes,
         faults' \in 0..MaxFaults,
         label \in {"erase", "list", "cut"} => target'[w] \in Targets,
         label \notin {"idle", "entry"} =>
           /\ PathId(w)' \in RuleIds
           /\ Deleting(w)' \/ (req'[w].updates # <<>> /\ ValidRule(Update(w)'.body))
           /\ label \in {"store", "apply"} => ~Deleting(w)'
  PROVE  IInv'
<1>1. w \in Threads /\ w # Main /\ pc[Main] = "serve"
  BY WorkerFacts DEF Serving
<1>2. pc'[w] = label /\ \A t \in Threads : t # w => pc'[t] = pc[t]
  BY <1>1 DEF IInv, TypeOK, Goto
<1>3. TypeOK'
  <2>1. pc' \in [Threads -> {"idle", "entry", "erase", "list", "cut", "store",
                       "apply", "snap", "base", "diff", "reconcile", "serve"}]
    BY <1>1 DEF IInv, TypeOK, Goto, WorkerLabels
  <2>2. /\ seen' \in [RuleIds -> ChainNames \cup {None}]
        /\ todo' \subseteq RuleIds
    BY DEF IInv, TypeOK, startVars
  <2> QED
    BY <2>1, <2>2 DEF TypeOK, RequestType, Targets, LineType
<1>4. StartupAlone'
  BY <1>1, <1>2 DEF IInv, StartupAlone, Threads
<1>5. TargetOK'
  BY <1>1, <1>2 DEF IInv, TargetOK
<1>6. EntryOK'
  BY <1>1, <1>2 DEF IInv, EntryOK, PathId, Deleting, Update, Threads
<1>7. TodoOK'
  BY <1>1, <1>2 DEF IInv, TodoOK, startVars, Threads
<1> QED
  BY <1>3, <1>4, <1>5, <1>6, <1>7 DEF IInv

\* A handler that returns or aborts keeps the invariant, whatever it has done
\* to the packet filter.
LEMMA FinishInvariant ==
  ASSUME IInv, NEW w \in Workers, Finish(w), pc[w] # "idle",
         chain' \in [ChainNames -> Seq(LineType)],
         UNCHANGED <<configdb, snapshot, lines, startVars, sets, crashes>>,
         undisturbed' \in BOOLEAN, faults' \in 0..MaxFaults
  PROVE  IInv'
<1>1. Goto(w, "idle") /\ "idle" \in WorkerLabels
  BY DEF Finish, WorkerLabels
<1>2. NoRequest \in RequestType
  BY DEF NoRequest, RequestType, Roles
<1>3. /\ req' \in [Workers -> RequestType]
      /\ \A v \in Workers : v # w => req'[v] = req[v]
  BY <1>2 DEF IInv, TypeOK, Finish, RequestType
<1>4. /\ target' \in [Threads -> Targets \cup {None}]
      /\ \A t \in Threads : t # w => target'[t] = target[t]
  BY DEF IInv, TypeOK, Finish, Targets
<1>5. /\ configdb' \in [RuleIds -> RuleType \cup {None}]
      /\ snapshot' \in [RuleIds -> Roles \cup {None}]
      /\ lines' \in [Threads -> SUBSET Nat]
      /\ sets' \in 0..MaxSets /\ crashes' \in 0..MaxCrashes
  BY DEF IInv, TypeOK
<1> QED
  BY <1>1, <1>3, <1>4, <1>5, WorkerFacts, WorkerStep

\* A step that leaves a worker's request and target alone.
LEMMA PlainWorkerStep ==
  ASSUME IInv, NEW w \in Workers, pc[w] \notin {"idle", "entry"},
         NEW label \in WorkerLabels \ {"idle"}, Goto(w, label),
         configdb' \in [RuleIds -> RuleType \cup {None}],
         chain' \in [ChainNames -> Seq(LineType)],
         lines' \in [Threads -> SUBSET Nat],
         UNCHANGED <<snapshot, req, target, startVars, sets, crashes>>,
         undisturbed' \in BOOLEAN, faults' \in 0..MaxFaults,
         label \in {"erase", "list", "cut"} => target[w] \in Targets,
         label \in {"store", "apply"} => ~Deleting(w)
  PROVE  IInv'
<1>1. Serving /\ label \in WorkerLabels
  BY WorkerFacts
<1>2. /\ snapshot' \in [RuleIds -> Roles \cup {None}]
      /\ req' \in [Workers -> RequestType]
      /\ \A v \in Workers : v # w => req'[v] = req[v]
      /\ target' \in [Threads -> Targets \cup {None}]
      /\ \A t \in Threads : t # w => target'[t] = target[t]
      /\ sets' \in 0..MaxSets /\ crashes' \in 0..MaxCrashes
  BY DEF IInv, TypeOK, RequestType, Targets
<1>3. /\ PathId(w)' = PathId(w) /\ Update(w)' = Update(w) /\ req'[w] = req[w]
      /\ Deleting(w)' = Deleting(w)
  BY DEF PathId, Update, Deleting
<1>4. /\ PathId(w) \in RuleIds
      /\ Deleting(w) \/ (req[w].updates # <<>> /\ ValidRule(Update(w).body))
  BY DEF IInv, EntryOK
<1> QED
  BY <1>1, <1>2, <1>3, <1>4, WorkerStep

\* A Set enters: its request is one a client may send, and it is at its first
\* item, or at its end if it has none.
LEMMA SetBeginInvariant ==
  ASSUME IInv, NEW w \in Workers, NEW q \in Requests, SetBegin(w, q)
  PROVE  IInv'
<1> DEFINE r == [role |-> RoleOf(q.ou), deletes |-> q.deletes,
                 updates |-> q.updates]
<1>1. r \in RequestType
  BY RoleOfType, RequestsAssumption DEF RequestType
<1> HIDE DEF r
<1>2. sets' \in 0..MaxSets
  BY BoundsAssumption DEF IInv, TypeOK, SetBegin
<1>3. /\ configdb' \in [RuleIds -> RuleType \cup {None}]
      /\ snapshot' \in [RuleIds -> Roles \cup {None}]
      /\ chain' \in [ChainNames -> Seq(LineType)]
      /\ lines' \in [Threads -> SUBSET Nat]
      /\ target' \in [Threads -> Targets \cup {None}] /\ target' = target
      /\ crashes' \in 0..MaxCrashes /\ faults' \in 0..MaxFaults
      /\ UNCHANGED startVars
  BY DEF IInv, TypeOK, SetBegin, LineType, Targets
<1>4. CASE RoleOf(q.ou) = "DENY"
  <2>1. UNCHANGED <<pc, req, undisturbed>>
    BY <1>4 DEF SetBegin
  <2>2. UNCHANGED <<configdb, snapshot, chain, target, lines, seen, todo,
                    crashes, faults>>
    BY DEF SetBegin, startVars
  <2>3. TypeOK'
    BY <1>2, <2>1, <2>2 DEF IInv, TypeOK
  <2> QED
    BY <2>1, <2>2, <2>3 DEF IInv, StartupAlone, TargetOK, EntryOK, TodoOK,
                            PathId, Deleting, Update
<1>5. CASE RoleOf(q.ou) # "DENY"
  <2>1. /\ Serving /\ Goto(w, "entry") /\ "entry" \in WorkerLabels
        /\ req' = [req EXCEPT ![w] = r] /\ undisturbed' \in BOOLEAN
    BY <1>5 DEF SetBegin, WorkerLabels, r
  <2>2. /\ req' \in [Workers -> RequestType]
        /\ \A v \in Workers : v # w => req'[v] = req[v]
    BY <1>1, <2>1 DEF IInv, TypeOK, RequestType
  <2> QED
    BY <1>2, <1>3, <2>1, <2>2, WorkerStep
<1> QED
  BY <1>4, <1>5

\* Reading an entry: the target is in its chain, and an update goes on only
\* with a body that validation has let through.
LEMMA ReadEntryInvariant ==
  ASSUME IInv, NEW w \in Workers, ReadDelete(w) \/ ReadUpdate(w)
  PROVE  IInv'
<1>1. /\ pc[w] = "entry"
      /\ UNCHANGED <<configdb, snapshot, chain, lines, startVars, undisturbed,
                     sets, crashes, faults>>
  BY DEF ReadDelete, ReadUpdate, bounds
<1>2. /\ configdb' \in [RuleIds -> RuleType \cup {None}]
      /\ snapshot' \in [RuleIds -> Roles \cup {None}]
      /\ chain' \in [ChainNames -> Seq(LineType)]
      /\ lines' \in [Threads -> SUBSET Nat] /\ undisturbed' \in BOOLEAN
      /\ sets' \in 0..MaxSets /\ crashes' \in 0..MaxCrashes
      /\ faults' \in 0..MaxFaults
  BY <1>1 DEF IInv, TypeOK, LineType
<1>3. CASE Finish(w)
  BY <1>1, <1>2, <1>3, FinishInvariant
<1>4. CASE ~Finish(w)
  <2>1. req' = req /\ target' = [target EXCEPT ![w] = StoredAt(PathId(w))]
    BY <1>4 DEF ReadDelete, ReadUpdate
  <2>2. PathId(w) \in RuleIds
    <3>1. req[w] \in RequestType
      BY WorkerFacts
    <3>2. CASE ReadDelete(w)
      <4>1. /\ PathId(w) = Head(req[w].deletes) /\ PathId(w) # None
            /\ req[w].deletes # <<>>
        BY <1>4, <3>2 DEF ReadDelete, PathId, Deleting
      <4> QED
        BY <3>1, <4>1 DEF RequestType, RuleIdOrNone
    <3>3. CASE ReadUpdate(w)
      <4>1. /\ PathId(w) = Head(req[w].updates).path /\ PathId(w) # None
            /\ req[w].updates # <<>>
        BY <1>4, <3>3 DEF ReadUpdate, Accepted, PathId, Deleting, Update
      <4>2. Head(req[w].updates) \in UpdateType
        BY <3>1, <4>1 DEF RequestType
      <4> QED
        BY <4>1, <4>2 DEF UpdateType, RuleIdOrNone
    <3> QED
      BY <3>2, <3>3
  <2>3. StoredAt(PathId(w)) \in Targets
    BY <2>2, StoredAtType DEF IInv, Targets
  <2>4. /\ req' \in [Workers -> RequestType]
        /\ \A v \in Workers : v # w => req'[v] = req[v]
        /\ target' \in [Threads -> Targets \cup {None}] /\ target'[w] \in Targets
        /\ \A t \in Threads : t # w => target'[t] = target[t]
    BY <2>1, <2>3, WorkerFacts DEF IInv, TypeOK, RequestType, Targets
  <2>5. PathId(w)' = PathId(w) /\ Update(w)' = Update(w) /\ req'[w] = req[w]
        /\ Deleting(w)' = Deleting(w)
    BY <2>1 DEF PathId, Update, Deleting
  <2>6. Serving /\ UNCHANGED startVars
    BY <1>1, WorkerFacts
  <2>7. CASE ReadDelete(w)
    <3>1. Goto(w, "erase") /\ "erase" \in WorkerLabels /\ Deleting(w)
      BY <1>4, <2>7 DEF ReadDelete, WorkerLabels
    <3> QED
      BY <1>2, <2>2, <2>4, <2>5, <2>6, <3>1, WorkerStep
  <2>8. CASE ReadUpdate(w)
    <3>1. PICK label \in {"store", "list"} : Goto(w, label)
      BY <1>4, <2>8 DEF ReadUpdate, Accepted
    <3>2. /\ ~Deleting(w) /\ req[w].updates # <<>>
          /\ ValidRule(Update(w).body)
      BY <1>4, <2>8 DEF ReadUpdate, Accepted
    <3>3. label \in WorkerLabels
      BY DEF WorkerLabels
    <3> QED
      BY <1>2, <2>2, <2>4, <2>5, <2>6, <3>1, <3>2, <3>3, WorkerStep
  <2> QED
    BY <2>7, <2>8
<1> QED
  BY <1>3, <1>4

\* Writing to ConfigDB: an erased name, or a valid body over the older hash.
LEMMA EraseRuleInvariant ==
  ASSUME IInv, NEW w \in Workers, EraseRule(w)
  PROVE  IInv'
<1>1. /\ pc[w] = "erase" /\ Goto(w, "list") /\ "list" \in WorkerLabels \ {"idle"}
      /\ UNCHANGED <<snapshot, chain, req, target, lines, startVars,
                     undisturbed, sets, crashes, faults>>
  BY DEF EraseRule, WorkerLabels, rpcVars, bounds
<1>2. target[w] \in Targets
  BY <1>1, WorkerFacts DEF IInv, TargetOK
<1>3. configdb' \in [RuleIds -> RuleType \cup {None}]
  BY DEF IInv, TypeOK, EraseRule
<1>4. /\ chain' \in [ChainNames -> Seq(LineType)]
      /\ lines' \in [Threads -> SUBSET Nat] /\ undisturbed' \in BOOLEAN
      /\ faults' \in 0..MaxFaults
  BY <1>1 DEF IInv, TypeOK, LineType
<1> QED
  BY <1>1, <1>2, <1>3, <1>4, PlainWorkerStep

\* At its store or apply step a worker has a rule to write, and its name.
LEMMA UpdateFacts ==
  ASSUME IInv, NEW w \in Workers, pc[w] \in {"store", "apply"}
  PROVE  /\ ~Deleting(w) /\ req[w].updates # <<>>
         /\ ValidRule(Update(w).body) /\ Update(w).body \in RuleType
         /\ Update(w).body \in Bodies
         /\ WrittenId(w) \in RuleIds
<1>1. /\ ~Deleting(w) /\ req[w].updates # <<>> /\ PathId(w) \in RuleIds
      /\ ValidRule(Update(w).body)
  BY DEF IInv, EntryOK
<1>2. Update(w) \in UpdateType
  BY <1>1, WorkerFacts DEF Update, RequestType
<1>3. Update(w).body \in RuleType /\ Update(w).body \in Bodies
  BY <1>1, <1>2, RequestsAssumption DEF UpdateType
<1>4. WrittenId(w) \in RuleIds
  BY <1>1, <1>2 DEF WrittenId, PathId, UpdateType, RuleIdOrNone
<1> QED
  BY <1>1, <1>3, <1>4

\* HSET writes a valid rule over the older hash.
LEMMA StoreRuleInvariant ==
  ASSUME IInv, NEW w \in Workers, StoreRule(w)
  PROVE  IInv'
<1>1. /\ pc[w] = "store" /\ Goto(w, "apply")
      /\ "apply" \in WorkerLabels \ {"idle"}
      /\ UNCHANGED <<snapshot, chain, req, target, lines, startVars,
                     undisturbed, sets, crashes, faults>>
  BY DEF StoreRule, WorkerLabels, rpcVars, bounds
<1>2. Update(w).body \in RuleType /\ WrittenId(w) \in RuleIds /\ ~Deleting(w)
  BY <1>1, UpdateFacts
<1>3. configdb' \in [RuleIds -> RuleType \cup {None}]
  <2>1. configdb \in [RuleIds -> RuleType \cup {None}]
    BY DEF IInv, TypeOK
  <2>2. HashSet(configdb[WrittenId(w)], Update(w).body) \in RuleType
    BY <1>2, <2>1, HashSetType
  <2> QED
    BY <2>1, <2>2 DEF StoreRule
<1>4. /\ chain' \in [ChainNames -> Seq(LineType)]
      /\ lines' \in [Threads -> SUBSET Nat] /\ undisturbed' \in BOOLEAN
      /\ faults' \in 0..MaxFaults
  BY <1>1 DEF IInv, TypeOK, LineType
<1> QED
  BY <1>1, <1>2, <1>3, <1>4, PlainWorkerStep

\* iptables gains the rule the handler has validated, refuses it, or fails.
LEMMA ApplyRuleInvariant ==
  ASSUME IInv, NEW w \in Workers, ApplyRule(w)
  PROVE  IInv'
<1> DEFINE r == Update(w).body
<1>1. /\ pc[w] = "apply"
      /\ UNCHANGED <<configdb, snapshot, lines, startVars, undisturbed,
                     sets, crashes, faults>>
  BY DEF ApplyRule, bounds
<1>2. r \in RuleType /\ WrittenId(w) \in RuleIds
  BY <1>1, UpdateFacts
<1>3. /\ chain \in [ChainNames -> Seq(LineType)] /\ r.chain \in ChainNames
      /\ configdb' \in [RuleIds -> RuleType \cup {None}]
      /\ lines' \in [Threads -> SUBSET Nat] /\ undisturbed' \in BOOLEAN
      /\ faults' \in 0..MaxFaults
  BY <1>1, <1>2 DEF IInv, TypeOK, LineType, RuleType
<1>4. CASE Insertable(chain[r.chain], r)
  <2>1. /\ chain' = [chain EXCEPT ![r.chain] =
                       Inserted(chain[r.chain], WrittenId(w), r)]
        /\ Goto(w, "snap") /\ UNCHANGED <<req, target>>
    BY <1>4 DEF ApplyRule, rpcVars
  <2>2. Inserted(chain[r.chain], WrittenId(w), r) \in Seq(LineType)
    BY <1>2, <1>3, <1>4, InsertedType
  <2>3. chain' \in [ChainNames -> Seq(LineType)]
    BY <1>3, <2>1, <2>2
  <2>4. "snap" \in WorkerLabels \ {"idle"}
    BY DEF WorkerLabels
  <2> QED
    BY <1>1, <1>3, <2>1, <2>3, <2>4, PlainWorkerStep
<1>5. CASE ~Insertable(chain[r.chain], r)
  <2>1. Finish(w) /\ chain' = chain
    BY <1>5 DEF ApplyRule
  <2> QED
    BY <1>1, <1>3, <2>1, FinishInvariant
<1> QED
  BY <1>4, <1>5

\* The end-of-Set snapshot takes every name with the tag it has then.
LEMMA TakeSnapshotInvariant ==
  ASSUME IInv, NEW w \in Workers, TakeSnapshot(w)
  PROVE  IInv'
<1>1. /\ pc[w] = "snap" /\ Goto(w, "entry") /\ "entry" \in WorkerLabels
      /\ UNCHANGED <<configdb, chain, target, lines, startVars, undisturbed,
                     sets, crashes, faults>>
  BY DEF TakeSnapshot, WorkerLabels, bounds
<1>2. req[w] \in RequestType /\ Serving
  BY <1>1, WorkerFacts
<1>3. snapshot' \in [RuleIds -> Roles \cup {None}]
  BY <1>2 DEF IInv, TypeOK, TakeSnapshot, RequestType
<1>4. req' \in [Workers -> RequestType] /\ \A v \in Workers : v # w => req'[v] = req[v]
  <2>1. req \in [Workers -> RequestType]
    BY DEF IInv, TypeOK, RequestType
  <2>2. CASE Deleting(w)
    <3>1. Tail(req[w].deletes) \in Seq(RuleIdOrNone)
      BY <1>2, <2>2 DEF RequestType, Deleting
    <3>2. [req[w] EXCEPT !.deletes = Tail(req[w].deletes)] \in RequestType
      BY <1>2, <3>1 DEF RequestType
    <3>3. req' = [req EXCEPT ![w] =
                    [req[w] EXCEPT !.deletes = Tail(req[w].deletes)]]
      BY <2>1, <2>2 DEF TakeSnapshot
    <3> QED
      BY <2>1, <3>2, <3>3
  <2>3. CASE ~Deleting(w)
    <3>1. req[w].updates # <<>>
      BY <1>1, <2>3 DEF IInv, EntryOK
    <3>2. Tail(req[w].updates) \in Seq(UpdateType)
      BY <1>2, <3>1 DEF RequestType
    <3>3. [req[w] EXCEPT !.updates = Tail(req[w].updates)] \in RequestType
      BY <1>2, <3>2 DEF RequestType
    <3>4. req' = [req EXCEPT ![w] =
                    [req[w] EXCEPT !.updates = Tail(req[w].updates)]]
      BY <2>1, <2>3 DEF TakeSnapshot
    <3> QED
      BY <2>1, <3>3, <3>4
  <2> QED
    BY <2>2, <2>3
<1>5. /\ configdb' \in [RuleIds -> RuleType \cup {None}]
      /\ chain' \in [ChainNames -> Seq(LineType)]
      /\ target' \in [Threads -> Targets \cup {None}]
      /\ lines' \in [Threads -> SUBSET Nat] /\ undisturbed' \in BOOLEAN
      /\ sets' \in 0..MaxSets /\ crashes' \in 0..MaxCrashes
      /\ faults' \in 0..MaxFaults
  BY <1>1 DEF IInv, TypeOK, LineType, Targets
<1> QED
  BY <1>1, <1>2, <1>3, <1>4, <1>5, WorkerStep

\* A Set that answers leaves its worker free.
LEMMA SetEndInvariant ==
  ASSUME IInv, NEW w \in Workers, SetEnd(w) \/ ApplyFails(w)
  PROVE  IInv'
<1>1. /\ Finish(w) /\ pc[w] # "idle"
      /\ UNCHANGED <<configdb, snapshot, chain, lines, startVars, sets, crashes>>
  BY DEF SetEnd, ApplyFails, Fault, bounds
<1>2. chain' \in [ChainNames -> Seq(LineType)] /\ undisturbed' \in BOOLEAN
  BY <1>1 DEF IInv, TypeOK, LineType, SetEnd, ApplyFails, Fault
<1>3. faults' \in 0..MaxFaults
  BY BoundsAssumption DEF IInv, TypeOK, SetEnd, ApplyFails, Fault, bounds
<1> QED
  BY <1>1, <1>2, <1>3, FinishInvariant

-----------------------------------------------------------------------------
(* Steps of the main thread.                                               *)

\* Before it serves, the main thread is alone.
LEMMA MainStep ==
  ASSUME IInv, pc[Main] # "serve",
         NEW label \in MainLabels, Goto(Main, label),
         UNCHANGED <<configdb, snapshot, req, sets, crashes>>,
         chain' \in [ChainNames -> Seq(LineType)],
         target' \in [Threads -> Targets \cup {None}],
         \A t \in Threads : t # Main => target'[t] = target[t],
         lines' \in [Threads -> SUBSET Nat],
         seen' \in [RuleIds -> ChainNames \cup {None}],
         todo' \subseteq RuleIds, undisturbed' \in BOOLEAN,
         faults' \in 0..MaxFaults,
         label \in {"list", "cut"} => target'[Main] \in Targets,
         label = "serve" => todo' = {},
         \A id \in todo' : configdb[id] = None => seen'[id] # None
  PROVE  IInv'
<1>1. /\ Main \in Threads /\ Workers \subseteq Threads
      /\ \A w \in Workers : w # Main /\ pc[w] = "idle"
  BY ThreadsAssumption DEF Threads, IInv, StartupAlone
<1>2. pc'[Main] = label /\ \A t \in Threads : t # Main => pc'[t] = pc[t]
  BY <1>1 DEF IInv, TypeOK, Goto
<1>3. TypeOK'
  <2>1. pc' \in [Threads -> {"idle", "entry", "erase", "list", "cut", "store",
                       "apply", "snap", "base", "diff", "reconcile", "serve"}]
    BY <1>1 DEF IInv, TypeOK, Goto, MainLabels
  <2> QED
    BY <2>1 DEF IInv, TypeOK, Targets, LineType
<1>4. StartupAlone'
  BY <1>1, <1>2 DEF StartupAlone, WorkerLabels
<1>5. TargetOK'
  BY <1>1, <1>2 DEF TargetOK, Threads, MainLabels
<1>6. EntryOK'
  BY <1>1, <1>2 DEF EntryOK
<1>7. TodoOK'
  BY <1>2 DEF TodoOK
<1> QED
  BY <1>3, <1>4, <1>5, <1>6, <1>7 DEF IInv

\* What the invariant says of the main thread while it starts.
LEMMA MainFacts ==
  ASSUME IInv
  PROVE  /\ Main \in Threads /\ pc[Main] \in MainLabels
         /\ configdb \in [RuleIds -> RuleType \cup {None}]
         /\ chain \in [ChainNames -> Seq(LineType)]
         /\ target \in [Threads -> Targets \cup {None}]
         /\ lines \in [Threads -> SUBSET Nat]
         /\ seen \in [RuleIds -> ChainNames \cup {None}]
         /\ todo \subseteq RuleIds /\ undisturbed \in BOOLEAN
         /\ faults \in 0..MaxFaults
         /\ \A id \in todo : configdb[id] = None => seen[id] # None
         /\ pc[Main] \in {"list", "cut"} => target[Main] \in Targets
BY DEF Threads, IInv, StartupAlone, TypeOK, TodoOK, TargetOK, LineType, Targets

\* A failure is counted, and the bound holds.
LEMMA FaultFacts ==
  ASSUME IInv, Fault
  PROVE  /\ faults' \in 0..MaxFaults /\ undisturbed' \in BOOLEAN
         /\ UNCHANGED <<configdb, snapshot, sets, crashes>>
<1>1. faults' \in 0..MaxFaults
  <2>1. faults \in 0..MaxFaults
    BY DEF IInv, TypeOK
  <2> QED
    BY <2>1, BoundsAssumption DEF Fault
<1>2. undisturbed' \in BOOLEAN
  BY DEF Fault
<1> QED
  BY <1>1, <1>2 DEF Fault

\* At start-up the base rule is in FORWARD, is appended, or cannot be.
LEMMA EnsureBaseRulesInvariant ==
  ASSUME IInv, EnsureBaseRules \/ BaseRulesFail
  PROVE  IInv'
<1>1. /\ pc[Main] = "base" /\ Goto(Main, "diff") /\ "diff" \in MainLabels
      /\ UNCHANGED <<configdb, snapshot, req, target, lines, seen, todo, sets,
                     crashes>>
  BY DEF EnsureBaseRules, BaseRulesFail, Fault, MainLabels, rpcVars, startVars,
         bounds
<1>2. faults' \in 0..MaxFaults /\ undisturbed' \in BOOLEAN
  BY MainFacts, FaultFacts DEF EnsureBaseRules, BaseRulesFail, bounds
<1>3. chain' \in [ChainNames -> Seq(LineType)]
  <2>1. BaseLine(Established) \in LineType
    BY DEF BaseLine, Line, LineType, BaseTags
  <2>2. "FORWARD" \in ChainNames
    BY DEF ChainNames
  <2>3. Append(chain["FORWARD"], BaseLine(Established)) \in Seq(LineType)
    BY <2>1, <2>2, MainFacts
  <2> QED
    BY <2>2, <2>3, MainFacts DEF EnsureBaseRules, BaseRulesFail
<1> QED
  BY <1>1, <1>2, <1>3, MainFacts, MainStep

\* What reconcile has left to do is made of stored rules and listed names.
LEMMA ReadBothSidesInvariant ==
  ASSUME IInv, ReadBothSides \/ ListAllFails
  PROVE  IInv'
<1>1. /\ pc[Main] = "diff" /\ Goto(Main, "reconcile")
      /\ "reconcile" \in MainLabels
      /\ UNCHANGED <<configdb, snapshot, chain, req, target, lines, sets,
                     crashes>>
  BY DEF ReadBothSides, ListAllFails, Fault, MainLabels, rpcVars, bounds
<1>2. faults' \in 0..MaxFaults /\ undisturbed' \in BOOLEAN
  BY MainFacts, FaultFacts DEF ReadBothSides, ListAllFails, bounds
<1>3. seen' \in [RuleIds -> ChainNames \cup {None}]
  BY ListedChainType DEF ReadBothSides, ListAllFails
<1>4. todo' = Discrepancies(seen')
  BY DEF ReadBothSides, ListAllFails
<1>5. /\ todo' \subseteq RuleIds
      /\ \A id \in todo' : configdb[id] = None => seen'[id] # None
  BY <1>4 DEF Discrepancies
<1> QED
  BY <1>1, <1>2, <1>3, <1>5, MainFacts, MainStep

\* One missing rule, inserted, refused or failed.
LEMMA ReconcileApplyInvariant ==
  ASSUME IInv, NEW id \in RuleIds, ReconcileApply(id) \/ ReconcileApplyFails(id)
  PROVE  IInv'
<1> DEFINE r == configdb[id]
<1>1. /\ pc[Main] = "reconcile" /\ "reconcile" \in MainLabels
      /\ id \in Missing /\ todo' = todo \ {id}
      /\ UNCHANGED <<configdb, snapshot, pc, req, target, lines, seen, sets,
                     crashes>>
  BY DEF ReconcileApply, ReconcileApplyFails, Fault, MainLabels, rpcVars, bounds
<1>2. Goto(Main, "reconcile")
  BY <1>1, MainFacts DEF Goto, IInv, TypeOK
<1>3. faults' \in 0..MaxFaults /\ undisturbed' \in BOOLEAN
  BY MainFacts, FaultFacts DEF ReconcileApply, ReconcileApplyFails, bounds
<1>4. r \in RuleType /\ r.chain \in ChainNames
  <2>1. r \in RuleType
    BY <1>1, MainFacts DEF Missing
  <2> QED
    BY <2>1 DEF RuleType
<1>5. chain' \in [ChainNames -> Seq(LineType)]
  <2>1. CASE ReconcileApply(id) /\ Insertable(chain[r.chain], r)
    <3>1. chain' = [chain EXCEPT ![r.chain] = Inserted(chain[r.chain], id, r)]
      BY <2>1 DEF ReconcileApply
    <3>2. Inserted(chain[r.chain], id, r) \in Seq(LineType)
      BY <1>4, <2>1, MainFacts, InsertedType
    <3> QED
      BY <3>1, <3>2, MainFacts
  <2>2. CASE ~(ReconcileApply(id) /\ Insertable(chain[r.chain], r))
    BY <2>2, MainFacts DEF ReconcileApply, ReconcileApplyFails
  <2> QED
    BY <2>1, <2>2
<1> QED
  BY <1>1, <1>2, <1>3, <1>5, MainFacts, MainStep

\* An orphan reconcile turns to next is a listed name, or none.
LEMMA ReconcileRemoveInvariant ==
  ASSUME IInv, NEW id \in RuleIds, ReconcileRemove(id)
  PROVE  IInv'
<1>1. /\ pc[Main] = "reconcile" /\ Goto(Main, "list") /\ "list" \in MainLabels
      /\ target' = [target EXCEPT ![Main] = [id |-> id, chain |-> seen[id]]]
      /\ seen' = [seen EXCEPT ![id] = None]
      /\ todo' = IF id \in Orphans THEN todo \ {id} ELSE todo
      /\ UNCHANGED <<configdb, snapshot, chain, req, lines, undisturbed, sets,
                     crashes, faults>>
  BY DEF ReconcileRemove, MainLabels, bounds
<1>2. id \in todo /\ seen[id] # None
  BY MainFacts DEF ReconcileRemove, Orphans, Drifted
<1>3. [id |-> id, chain |-> seen[id]] \in Targets
  BY <1>2, MainFacts DEF Targets
<1>4. /\ target' \in [Threads -> Targets \cup {None}]
      /\ target'[Main] \in Targets
      /\ \A t \in Threads : t # Main => target'[t] = target[t]
  BY <1>1, <1>3, MainFacts
<1>5. seen' \in [RuleIds -> ChainNames \cup {None}]
  BY <1>1, MainFacts
<1>6. /\ todo' \subseteq RuleIds
      /\ \A other \in todo' : configdb[other] = None => seen'[other] # None
  BY <1>1, <1>2, MainFacts DEF Orphans
<1> QED
  BY <1>1, <1>4, <1>5, <1>6, MainFacts, MainStep

\* The server starts with every worker free.
LEMMA StartServerInvariant ==
  ASSUME IInv, StartServer
  PROVE  IInv'
<1>1. /\ pc[Main] = "reconcile" /\ Goto(Main, "serve") /\ "serve" \in MainLabels
      /\ target' = [target EXCEPT ![Main] = None]
      /\ seen' = [id \in RuleIds |-> None] /\ todo = {} /\ todo' = todo
      /\ UNCHANGED <<configdb, snapshot, chain, req, lines, undisturbed, sets,
                     crashes, faults>>
  BY DEF StartServer, MainLabels, bounds
<1> QED
  BY <1>1, MainFacts, MainStep

-----------------------------------------------------------------------------
(* remove_rule, under a handler or under reconcile.                        *)

\* A chain without one of its lines is a chain of lines.
LEMMA RemoveAtType ==
  ASSUME NEW c \in Seq(LineType), NEW n \in DOMAIN c
  PROVE  RemoveAt(c, n) \in Seq(LineType)
<1>1. n \in 1..Len(c)
  OBVIOUS
<1> QED
  BY <1>1, RemoveAtProperties

\* Listing the lines, or failing to; deleting one, or failing to: the thread
\* stays in remove_rule or goes on to what follows it.
Removal(t) == ListLines(t) \/ CutLine(t) \/ ListFails(t) \/ CutFails(t)

\* What a step of remove_rule leaves alone, and where the thread is after it.
LEMMA RemovalFacts ==
  ASSUME IInv, NEW t \in Threads, Removal(t)
  PROVE  /\ pc[t] \in {"list", "cut"}
         /\ Goto(t, "cut") \/ Goto(t, AfterRemoval(t))
         /\ UNCHANGED <<configdb, snapshot, req, target, seen, todo, sets,
                        crashes>>
         /\ chain' \in [ChainNames -> Seq(LineType)]
         /\ lines' \in [Threads -> SUBSET Nat]
         /\ undisturbed' \in BOOLEAN /\ faults' \in 0..MaxFaults
<1>1. /\ pc[t] \in {"list", "cut"}
      /\ Goto(t, "cut") \/ Goto(t, AfterRemoval(t))
      /\ UNCHANGED <<configdb, snapshot, req, target, seen, todo, sets, crashes>>
  BY DEF Removal, ListLines, CutLine, ListFails, CutFails, Struck, Fault,
         rpcVars, startVars, bounds
<1>2. undisturbed' \in BOOLEAN /\ faults' \in 0..MaxFaults
  BY MainFacts, FaultFacts
  DEF Removal, ListLines, CutLine, ListFails, CutFails, bounds
<1>3. chain' \in [ChainNames -> Seq(LineType)]
  <2> DEFINE c == target[t].chain
             n == Max(lines[t])
  <2>1. CASE CutLine(t) /\ n \in DOMAIN chain[c]
    <3>1. chain' = [chain EXCEPT ![c] = RemoveAt(chain[c], n)]
      BY <2>1 DEF CutLine
    <3>2. c \in ChainNames
      BY <2>1 DEF CutLine, IInv, TargetOK, Targets
    <3>3. RemoveAt(chain[c], n) \in Seq(LineType)
      BY <2>1, <3>2, MainFacts, RemoveAtType
    <3> QED
      BY <3>1, <3>3, MainFacts
  <2>2. CASE ~(CutLine(t) /\ n \in DOMAIN chain[c])
    BY <2>2, MainFacts DEF Removal, CutLine, ListLines, ListFails, CutFails
  <2> QED
    BY <2>1, <2>2
<1>4. lines' \in [Threads -> SUBSET Nat]
  <2>1. CASE ListLines(t)
    <3> DEFINE found == TaggedLines(chain[target[t].chain], target[t].id)
    <3>1. lines' = [lines EXCEPT ![t] = found]
      BY <2>1 DEF ListLines
    <3>2. target[t].chain \in ChainNames
      BY <2>1 DEF ListLines, IInv, TargetOK, Targets
    <3>3. found \in SUBSET Nat
      BY <3>2, MainFacts DEF TaggedLines
    <3> QED
      BY <3>1, <3>3, MainFacts
  <2>2. CASE CutLine(t) \/ CutFails(t)
    BY <2>2, MainFacts DEF CutLine, CutFails, Struck
  <2>3. CASE ListFails(t)
    BY <2>3, MainFacts DEF ListFails
  <2> QED
    BY <2>1, <2>2, <2>3 DEF Removal
<1> QED
  BY <1>1, <1>2, <1>3, <1>4

\* remove_rule keeps the invariant, whichever of the two callers it has.
LEMMA RemovalInvariant ==
  ASSUME IInv, NEW t \in Threads, Removal(t)
  PROVE  IInv'
<1>1. CASE t \in Workers
  <2>1. t # Main /\ {"cut", "snap", "store"} \subseteq WorkerLabels \ {"idle"}
    BY <1>1, WorkerFacts DEF WorkerLabels
  <2>2. PICK label \in {"cut", "snap", "store"} :
           Goto(t, label) /\ (label = "store" => ~Deleting(t))
    BY <2>1, RemovalFacts DEF AfterRemoval
  <2>3. target[t] \in Targets
    BY RemovalFacts DEF IInv, TargetOK
  <2>4. label \in WorkerLabels \ {"idle"} /\ label # "apply"
    BY <2>1
  <2>5. /\ pc[t] \notin {"idle", "entry"}
        /\ configdb' \in [RuleIds -> RuleType \cup {None}]
        /\ UNCHANGED <<snapshot, req, target, startVars, sets, crashes>>
    BY RemovalFacts, MainFacts DEF startVars
  <2>6. /\ chain' \in [ChainNames -> Seq(LineType)]
        /\ lines' \in [Threads -> SUBSET Nat]
        /\ undisturbed' \in BOOLEAN /\ faults' \in 0..MaxFaults
    BY RemovalFacts
  <2> QED
    BY <1>1, <2>2, <2>3, <2>4, <2>5, <2>6, PlainWorkerStep
<1>2. CASE t = Main
  <2>1. PICK label \in {"cut", "reconcile"} : Goto(Main, label)
    BY <1>2, RemovalFacts DEF AfterRemoval
  <2>2. label \in MainLabels /\ pc[Main] # "serve" /\ target[Main] \in Targets
    BY <1>2, RemovalFacts DEF MainLabels, IInv, TargetOK
  <2> QED
    BY <1>2, <2>1, <2>2, RemovalFacts, MainFacts, MainStep
<1> QED
  BY <1>1, <1>2 DEF Threads

-----------------------------------------------------------------------------
(* Crashes, policy pushes, and the theorem.                                *)

\* A crash forgets the threads' own state; ConfigDB and the filter stay.
LEMMA CrashInvariant ==
  ASSUME IInv, Crash
  PROVE  IInv'
<1>1. TypeOK'
  <2>1. NoRequest \in [role : Roles, deletes : Seq(RuleIdOrNone),
                       updates : Seq(UpdateType)]
    BY DEF NoRequest, Roles
  <2>2. req' \in [Workers -> [role : Roles, deletes : Seq(RuleIdOrNone),
                              updates : Seq(UpdateType)]]
    BY <2>1 DEF Crash
  <2>3. pc' \in [Threads -> {"idle", "entry", "erase", "list", "cut", "store",
                       "apply", "snap", "base", "diff", "reconcile", "serve"}]
    BY DEF Crash
  <2>4. crashes' \in 0..MaxCrashes
    BY BoundsAssumption DEF Crash, IInv, TypeOK
  <2>5. /\ target' \in [Threads -> [id : RuleIds, chain : ChainNames] \cup {None}]
        /\ lines' \in [Threads -> SUBSET Nat]
        /\ seen' \in [RuleIds -> ChainNames \cup {None}]
        /\ todo' \subseteq RuleIds /\ undisturbed' \in BOOLEAN
    BY DEF Crash
  <2>6. UNCHANGED <<configdb, snapshot, chain, sets, faults>>
    BY DEF Crash
  <2> QED
    BY <2>2, <2>3, <2>4, <2>5, <2>6 DEF IInv, TypeOK
<1>2. /\ pc'[Main] = "base"
      /\ \A w \in Workers : pc'[w] = "idle"
      /\ \A t \in Threads : pc'[t] \in {"base", "idle"}
      /\ todo' = {}
  BY ThreadsAssumption DEF Crash, Threads
<1>3. StartupAlone'
  BY <1>2 DEF StartupAlone, WorkerLabels, MainLabels
<1>4. TargetOK' /\ EntryOK'
  BY <1>2 DEF TargetOK, EntryOK
<1>5. TodoOK'
  BY <1>2 DEF TodoOK
<1> QED
  BY <1>1, <1>3, <1>4, <1>5 DEF IInv

\* 07-apply-policy puts the baseline in place, under any thread's feet.
LEMMA ApplyPolicyInvariant ==
  ASSUME IInv, ApplyPolicy
  PROVE  IInv'
<1>1. UNCHANGED <<configdb, snapshot, pc, req, target, lines, seen, todo, sets,
                  crashes>>
  BY DEF ApplyPolicy, Fault, rpcVars, startVars
<1>2. faults' \in 0..MaxFaults /\ undisturbed' \in BOOLEAN
  BY FaultFacts DEF ApplyPolicy
<1>3. chain' \in [ChainNames -> Seq(LineType)]
  BY BasePolicyType, MainFacts DEF ApplyPolicy
<1>4. TypeOK'
  BY <1>1, <1>2, <1>3 DEF IInv, TypeOK, LineType
<1> QED
  BY <1>1, <1>4 DEF IInv, StartupAlone, TargetOK, EntryOK, TodoOK, PathId,
                    Deleting, Update

\* Every step keeps the invariant.
LEMMA NextInvariant == IInv /\ [Next]_vars => IInv'
<1> SUFFICES ASSUME IInv, [Next]_vars PROVE IInv'
  OBVIOUS
<1>1. CASE \E w \in Workers, q \in Requests : SetBegin(w, q)
  BY <1>1, SetBeginInvariant
<1>2. CASE \E w \in Workers : Handle(w)
  <2> SUFFICES ASSUME NEW w \in Workers, Handle(w) PROVE IInv'
    BY <1>2
  <2>1. w \in Threads
    BY DEF Threads
  <2>2. CASE ReadDelete(w) \/ ReadUpdate(w)
    BY <2>2, ReadEntryInvariant
  <2>3. CASE EraseRule(w)
    BY <2>3, EraseRuleInvariant
  <2>4. CASE StoreRule(w)
    BY <2>4, StoreRuleInvariant
  <2>5. CASE ApplyRule(w)
    BY <2>5, ApplyRuleInvariant
  <2>6. CASE TakeSnapshot(w)
    BY <2>6, TakeSnapshotInvariant
  <2>7. CASE SetEnd(w)
    BY <2>7, SetEndInvariant
  <2>8. CASE ListLines(w) \/ CutLine(w)
    BY <2>1, <2>8, RemovalInvariant DEF Removal
  <2> QED
    BY <2>2, <2>3, <2>4, <2>5, <2>6, <2>7, <2>8 DEF Handle
<1>3. CASE Startup
  <2>1. Main \in Threads
    BY DEF Threads
  <2>2. CASE EnsureBaseRules
    BY <2>2, EnsureBaseRulesInvariant
  <2>3. CASE ReadBothSides
    BY <2>3, ReadBothSidesInvariant
  <2>4. CASE StartServer
    BY <2>4, StartServerInvariant
  <2>5. CASE \E id \in RuleIds : ReconcileApply(id) \/ ReconcileRemove(id)
    BY <2>5, ReconcileApplyInvariant, ReconcileRemoveInvariant
  <2>6. CASE ListLines(Main) \/ CutLine(Main)
    BY <2>1, <2>6, RemovalInvariant DEF Removal
  <2> QED
    BY <1>3, <2>2, <2>3, <2>4, <2>5, <2>6 DEF Startup
<1>4. CASE Failures
  <2>1. CASE Crash
    BY <2>1, CrashInvariant
  <2>2. CASE BaseRulesFail
    BY <2>2, EnsureBaseRulesInvariant
  <2>3. CASE ListAllFails
    BY <2>3, ReadBothSidesInvariant
  <2>4. CASE ApplyPolicy
    BY <2>4, ApplyPolicyInvariant
  <2>5. CASE \E t \in Threads : ListFails(t) \/ CutFails(t)
    BY <2>5, RemovalInvariant DEF Removal
  <2>6. CASE \E w \in Workers : ApplyFails(w)
    BY <2>6, SetEndInvariant
  <2>7. CASE \E id \in RuleIds : ReconcileApplyFails(id)
    BY <2>7, ReconcileApplyInvariant
  <2> QED
    BY <1>4, <2>1, <2>2, <2>3, <2>4, <2>5, <2>6, <2>7 DEF Failures
<1>5. CASE UNCHANGED vars
  BY <1>5 DEF vars, IInv, TypeOK, StartupAlone, TargetOK, EntryOK, TodoOK,
              PathId, Deleting, Update
<1> QED
  BY <1>1, <1>2, <1>3, <1>4, <1>5 DEF Next

\* The inductive invariant holds throughout: types, the main thread alone until
\* it serves, and what a thread in the middle of a Set or of reconcile may rely on.
THEOREM Invariant == Spec => []IInv
<1>1. Init => IInv
  BY InitInvariant
<1>2. IInv /\ [Next]_vars => IInv'
  BY NextInvariant
<1> QED
  BY <1>1, <1>2, PTL DEF Spec

\* Whatever clients send, however threads interleave and wherever the process
\* dies, ConfigDB holds only rules, every line of the packet filter is a rule
\* or a base line, and no thread leaves its own control flow.
THEOREM TypeCorrect == Spec => []TypeOK
<1>1. IInv => TypeOK
  BY DEF IInv
<1> QED
  BY <1>1, Invariant, PTL

-----------------------------------------------------------------------------
(* What holds of every rule a leaf enforces, whatever clients send, threads*)
(* interleave and commands fail, rests on one observation: a step changes  *)
(* the packet filter in one of four ways, and ConfigDB in one of two.      *)

-----------------------------------------------------------------------------
(* How a step changes the packet filter and ConfigDB.                      *)

Inserts(id, r) ==
  LET c == r.chain IN
  /\ Position(r, Len(chain[c])) \in 1..Len(chain[c]) + 1
  /\ chain' = [chain EXCEPT ![c] = Inserted(chain[c], id, r)]
Removes(c, n) == chain' = [chain EXCEPT ![c] = RemoveAt(chain[c], n)]
AddsBase ==
  /\ LinesOf(chain["FORWARD"], Established) = {}
  /\ chain' = [chain EXCEPT !["FORWARD"] =
                 Append(chain["FORWARD"], BaseLine(Established))]
Resets == chain' = [chain EXCEPT !["FORWARD"] = BasePolicy]

\* A rule validation has let through, or one ConfigDB has.
Admitted(id, r) == (ValidRule(r) /\ r \in Bodies) \/ r = configdb[id]

\* The filter gains one admitted rule or the base rule, loses one line, or is
\* reset to the baseline policy.
LEMMA ChainSteps ==
  ASSUME IInv, [Next]_vars
  PROVE  \/ chain' = chain
         \/ \E id \in RuleIds, r \in RuleType :
              Admitted(id, r) /\ Inserts(id, r)
         \/ \E c \in ChainNames : \E n \in DOMAIN chain[c] : Removes(c, n)
         \/ AddsBase \/ Resets
<1>1. ASSUME NEW w \in Workers, ApplyRule(w)
      PROVE  \/ chain' = chain
             \/ \E id \in RuleIds, r \in RuleType :
                  Admitted(id, r) /\ Inserts(id, r)
  <2>1. /\ WrittenId(w) \in RuleIds /\ Update(w).body \in RuleType
        /\ ValidRule(Update(w).body) /\ Update(w).body \in Bodies
    BY <1>1, UpdateFacts DEF ApplyRule
  <2>2. chain' = chain \/ Inserts(WrittenId(w), Update(w).body)
    BY <1>1 DEF ApplyRule, Inserts, Insertable
  <2> QED
    BY <2>1, <2>2 DEF Admitted
<1>2. ASSUME NEW id \in RuleIds, ReconcileApply(id)
      PROVE  \/ chain' = chain
             \/ \E r \in RuleType : Admitted(id, r) /\ Inserts(id, r)
  <2>1. configdb[id] \in RuleType
    BY <1>2, MainFacts DEF ReconcileApply, Missing
  <2>2. chain' = chain \/ Inserts(id, configdb[id])
    BY <1>2 DEF ReconcileApply, Inserts, Insertable
  <2> QED
    BY <2>1, <2>2 DEF Admitted
<1>3. ASSUME NEW t \in Threads, Removal(t)
      PROVE  \/ chain' = chain
             \/ \E c \in ChainNames : \E n \in DOMAIN chain[c] : Removes(c, n)
  <2> DEFINE c == target[t].chain
             n == Max(lines[t])
  <2>1. c \in ChainNames
    BY <1>3, RemovalFacts DEF IInv, TargetOK, Targets
  <2>2. \/ chain' = chain
        \/ n \in DOMAIN chain[c] /\ Removes(c, n)
    BY <1>3 DEF Removal, ListLines, CutLine, ListFails, CutFails, Removes
  <2> QED
    BY <2>1, <2>2
<1>4. CASE \E w \in Workers, q \in Requests : SetBegin(w, q)
  BY <1>4 DEF SetBegin
<1>5. CASE \E w \in Workers : Handle(w)
  <2> SUFFICES ASSUME NEW w \in Workers, Handle(w)
               PROVE  \/ chain' = chain
                      \/ \E id \in RuleIds, r \in RuleType :
                           Admitted(id, r) /\ Inserts(id, r)
                      \/ \E c \in ChainNames : \E n \in DOMAIN chain[c] : Removes(c, n)
    BY <1>5
  <2>1. CASE ListLines(w) \/ CutLine(w)
    BY <1>3, <2>1 DEF Removal, Threads
  <2>2. CASE ~(ListLines(w) \/ CutLine(w)) /\ ~ApplyRule(w)
    BY <2>2 DEF Handle, ReadDelete, EraseRule, ReadUpdate, StoreRule,
                TakeSnapshot, SetEnd
  <2> QED
    BY <1>1, <2>1, <2>2
<1>6. CASE Startup
  <2>1. CASE ListLines(Main) \/ CutLine(Main)
    BY <1>3, <2>1 DEF Removal, Threads
  <2>2. CASE \E id \in RuleIds : ReconcileApply(id)
    BY <1>2, <2>2
  <2>3. CASE ReadBothSides \/ StartServer \/ \E id \in RuleIds : ReconcileRemove(id)
    BY <2>3 DEF ReadBothSides, StartServer, ReconcileRemove
  <2>4. CASE EnsureBaseRules
    BY <2>4 DEF EnsureBaseRules, AddsBase
  <2> QED
    BY <1>6, <2>1, <2>2, <2>3, <2>4 DEF Startup
<1>7. CASE Failures
  <2>1. CASE \E t \in Threads : ListFails(t) \/ CutFails(t)
    BY <1>3, <2>1 DEF Removal
  <2>2. CASE ApplyPolicy
    BY <2>2 DEF ApplyPolicy, Resets
  <2>3. CASE \/ Crash \/ BaseRulesFail \/ ListAllFails
             \/ \E w \in Workers : ApplyFails(w)
             \/ \E id \in RuleIds : ReconcileApplyFails(id)
    BY <2>3 DEF Crash, BaseRulesFail, ListAllFails, ApplyFails,
                ReconcileApplyFails
  <2> QED
    BY <1>7, <2>1, <2>2, <2>3 DEF Failures
<1>8. CASE UNCHANGED vars
  BY <1>8 DEF vars
<1> QED
  BY <1>4, <1>5, <1>6, <1>7, <1>8 DEF Next

\* A name of ConfigDB is left alone, erased, or written with a valid rule over
\* what it had.
LEMMA ConfigSteps ==
  ASSUME IInv, [Next]_vars, NEW id \in RuleIds
  PROVE  \/ configdb'[id] \in {configdb[id], None}
         \/ \E r \in RuleType :
              /\ ValidRule(r) /\ r \in Bodies
              /\ configdb'[id] = HashSet(configdb[id], r)
<1>1. configdb \in [RuleIds -> RuleType \cup {None}]
  BY MainFacts
<1>2. ASSUME NEW w \in Workers, StoreRule(w)
      PROVE  \/ configdb'[id] = configdb[id]
             \/ \E r \in RuleType :
                  /\ ValidRule(r) /\ r \in Bodies
              /\ configdb'[id] = HashSet(configdb[id], r)
  <2>1. /\ ValidRule(Update(w).body) /\ Update(w).body \in RuleType
        /\ Update(w).body \in Bodies
    BY <1>2, UpdateFacts DEF StoreRule
  <2>2. configdb'[id] \in {configdb[id], HashSet(configdb[id], Update(w).body)}
    BY <1>1, <1>2 DEF StoreRule
  <2> QED
    BY <2>1, <2>2
<1>3. ASSUME NEW w \in Workers, EraseRule(w)
      PROVE  configdb'[id] \in {configdb[id], None}
  BY <1>1, <1>3 DEF EraseRule
<1>4. CASE \E w \in Workers : StoreRule(w) \/ EraseRule(w)
  BY <1>2, <1>3, <1>4
<1>5. CASE ~\E w \in Workers : StoreRule(w) \/ EraseRule(w)
  <2>1. ASSUME NEW t \in Threads, Removal(t) PROVE configdb' = configdb
    BY <2>1, RemovalFacts
  <2>2. CASE \E w \in Workers, q \in Requests : SetBegin(w, q)
    BY <2>2 DEF SetBegin
  <2>3. CASE \E w \in Workers : Handle(w)
    <3> SUFFICES ASSUME NEW w \in Workers, Handle(w) PROVE configdb' = configdb
      BY <2>3
    <3>1. CASE ListLines(w) \/ CutLine(w)
      BY <2>1, <3>1 DEF Removal, Threads
    <3> QED
      BY <1>5, <3>1 DEF Handle, ReadDelete, ReadUpdate, ApplyRule,
                        TakeSnapshot, SetEnd
  <2>4. CASE Startup
    <3>1. CASE ListLines(Main) \/ CutLine(Main)
      BY <2>1, <3>1 DEF Removal, Threads
    <3> QED
      BY <2>4, <3>1 DEF Startup, EnsureBaseRules, ReadBothSides, StartServer,
                        ReconcileApply, ReconcileRemove
  <2>5. CASE Failures
    BY <2>5 DEF Failures, Crash, BaseRulesFail, ListAllFails, ApplyPolicy,
                ListFails, CutFails, ApplyFails, ReconcileApplyFails, Fault
  <2>6. CASE UNCHANGED vars
    BY <2>6 DEF vars
  <2> QED
    BY <2>2, <2>3, <2>4, <2>5, <2>6 DEF Next
<1> QED
  BY <1>4, <1>5

-----------------------------------------------------------------------------
(* An agent only drops.                                                    *)

Harmless(r) == r # None => (r.source = "agent" => r.action = "DROP")

\* A sequence with one element inserted is a sequence, one longer.
LEMMA InsertedSeq ==
  ASSUME NEW S, NEW s \in Seq(S), NEW e \in S, NEW i \in 1..Len(s) + 1
  PROVE  InsertAt(s, i, e) \in Seq(S) /\ Len(InsertAt(s, i, e)) = Len(s) + 1
BY InsertAtProperties

\* Its elements before the place stay, those from the place on move by one.
LEMMA InsertedElements ==
  ASSUME NEW S, NEW s \in Seq(S), NEW e \in S, NEW i \in 1..Len(s) + 1
  PROVE  \A j \in 1..Len(s) + 1 :
           InsertAt(s, i, e)[j] =
             IF j < i THEN s[j] ELSE IF j = i THEN e ELSE s[j - 1]
BY InsertAtProperties

\* The same of a sequence with one element removed.
LEMMA RemovedElements ==
  ASSUME NEW S, NEW s \in Seq(S), NEW i \in 1..Len(s)
  PROVE  /\ RemoveAt(s, i) \in Seq(S) /\ Len(RemoveAt(s, i)) = Len(s) - 1
         /\ \A j \in 1..Len(s) - 1 :
              RemoveAt(s, i)[j] = IF j < i THEN s[j] ELSE s[j + 1]
BY RemoveAtProperties

\* In every kind of step a line of the filter is an old line of its chain, a
\* base line, or carries an admitted rule.
LEMMA LineOrigins ==
  ASSUME IInv, [Next]_vars, NEW c \in ChainNames, NEW n \in DOMAIN chain'[c]
  PROVE  \/ \E m \in DOMAIN chain[c] : chain'[c][n] = chain[c][m]
         \/ chain'[c][n].rule = None
         \/ \E id \in RuleIds, r \in RuleType :
              Admitted(id, r) /\ chain'[c][n].rule = r
<1>1. /\ chain \in [ChainNames -> Seq(LineType)]
      /\ chain[c] \in Seq(LineType) /\ "FORWARD" \in ChainNames
      /\ DOMAIN chain[c] = 1..Len(chain[c]) /\ Len(chain[c]) \in Nat
  <2>1. chain \in [ChainNames -> Seq(LineType)] /\ "FORWARD" \in ChainNames
    BY MainFacts DEF ChainNames
  <2> QED
    BY <2>1, LenProperties
<1>2. CASE chain'[c] = chain[c]
  BY <1>2
<1>3. ASSUME NEW id \in RuleIds, NEW r \in RuleType, Admitted(id, r),
             Inserts(id, r), r.chain = c
      PROVE  \/ \E m \in DOMAIN chain[c] : chain'[c][n] = chain[c][m]
             \/ chain'[c][n].rule = r
  <2> DEFINE i == Position(r, Len(chain[c]))
  <2>1. /\ i \in 1..Len(chain[c]) + 1 /\ Line(id, r) \in LineType
        /\ chain'[c] = InsertAt(chain[c], i, Line(id, r))
    BY <1>1, <1>3 DEF Inserts, Inserted, Line, LineType
  <2> HIDE DEF i
  <2> DEFINE s == chain[c]
             e == Line(id, r)
  <2>2. /\ chain'[c] \in Seq(LineType) /\ Len(chain'[c]) = Len(chain[c]) + 1
        /\ \A j \in 1..Len(chain[c]) + 1 :
             chain'[c][j] = IF j < i THEN chain[c][j]
                            ELSE IF j = i THEN Line(id, r) ELSE chain[c][j - 1]
    <3>1. s \in Seq(LineType) /\ e \in LineType /\ i \in 1..Len(s) + 1
      BY <1>1, <2>1
    <3>2. chain'[c] = InsertAt(s, i, e)
      BY <2>1
    <3> HIDE DEF s, e
    <3>3. InsertAt(s, i, e) \in Seq(LineType)
          /\ Len(InsertAt(s, i, e)) = Len(s) + 1
      BY <3>1, InsertedSeq
    <3>4. \A j \in 1..Len(s) + 1 :
            InsertAt(s, i, e)[j] =
              IF j < i THEN s[j] ELSE IF j = i THEN e ELSE s[j - 1]
      BY <3>1, InsertedElements
    <3> QED
      BY <3>2, <3>3, <3>4 DEF s, e
  <2>3. n \in 1..Len(chain[c]) + 1
    BY <2>2
  <2>4. CASE n = i
    BY <2>2, <2>3, <2>4 DEF Line
  <2>5. CASE n < i
    BY <1>1, <2>1, <2>2, <2>3, <2>5
  <2>6. CASE n > i
    <3>1. chain'[c][n] = chain[c][n - 1] /\ n - 1 \in DOMAIN chain[c]
      BY <1>1, <2>1, <2>2, <2>3, <2>6
    <3> QED
      BY <3>1
  <2> QED
    BY <2>1, <2>3, <2>4, <2>5, <2>6
<1>4. ASSUME NEW k \in DOMAIN chain[c], Removes(c, k)
      PROVE  \E m \in DOMAIN chain[c] : chain'[c][n] = chain[c][m]
  <2>1. chain'[c] = RemoveAt(chain[c], k) /\ k \in 1..Len(chain[c])
    BY <1>1, <1>4 DEF Removes
  <2>2. /\ chain'[c] \in Seq(LineType) /\ Len(chain'[c]) = Len(chain[c]) - 1
        /\ \A j \in 1..Len(chain[c]) - 1 :
             chain'[c][j] = IF j < k THEN chain[c][j] ELSE chain[c][j + 1]
    <3> DEFINE s == chain[c]
    <3>1. s \in Seq(LineType) /\ k \in 1..Len(s) /\ chain'[c] = RemoveAt(s, k)
      BY <1>1, <2>1
    <3> HIDE DEF s
    <3>2. /\ RemoveAt(s, k) \in Seq(LineType)
          /\ Len(RemoveAt(s, k)) = Len(s) - 1
          /\ \A j \in 1..Len(s) - 1 :
               RemoveAt(s, k)[j] = IF j < k THEN s[j] ELSE s[j + 1]
      BY <3>1, RemovedElements
    <3> QED
      BY <3>1, <3>2 DEF s
  <2>3. n \in 1..Len(chain[c]) - 1
    BY <2>2
  <2>4. n \in DOMAIN chain[c] /\ n + 1 \in DOMAIN chain[c]
    BY <1>1, <2>3
  <2>5. chain'[c][n] \in {chain[c][n], chain[c][n + 1]}
    BY <2>2, <2>3
  <2> QED
    BY <2>4, <2>5
<1>5. CASE AddsBase /\ c = "FORWARD"
  <2>1. chain'[c] = Append(chain[c], BaseLine(Established))
    BY <1>1, <1>5 DEF AddsBase
  <2>2. n \in 1..Len(chain[c]) + 1
    BY <1>1, <2>1
  <2>3. BaseLine(Established).rule = None
    BY DEF BaseLine, Line
  <2>4. CASE n = Len(chain[c]) + 1
    BY <1>1, <2>1, <2>3, <2>4
  <2>5. CASE n \in 1..Len(chain[c])
    <3>1. chain'[c][n] = chain[c][n]
      BY <1>1, <2>1, <2>5
    <3> QED
      BY <1>1, <2>5, <3>1
  <2> QED
    BY <1>1, <2>2, <2>4, <2>5
<1>6. CASE Resets /\ c = "FORWARD"
  BY <1>1, <1>6 DEF Resets, BasePolicy, BaseLine, Line
<1>7. CASE (AddsBase \/ Resets) /\ c # "FORWARD"
  BY <1>1, <1>2, <1>7 DEF AddsBase, Resets
<1>8. CASE \E id \in RuleIds, r \in RuleType : Admitted(id, r) /\ Inserts(id, r)
  <2>1. PICK id \in RuleIds, r \in RuleType : Admitted(id, r) /\ Inserts(id, r)
    BY <1>8
  <2>2. CASE r.chain = c
    BY <1>3, <2>1, <2>2
  <2>3. CASE r.chain # c
    BY <1>1, <1>2, <2>1, <2>3 DEF Inserts
  <2> QED
    BY <2>2, <2>3
<1>9. CASE \E d \in ChainNames : \E k \in DOMAIN chain[d] : Removes(d, k)
  <2>1. PICK d \in ChainNames : \E k \in DOMAIN chain[d] : Removes(d, k)
    BY <1>9
  <2>2. CASE d = c
    BY <1>4, <2>1, <2>2
  <2>3. CASE d # c
    BY <1>1, <1>2, <2>1, <2>3 DEF Removes
  <2> QED
    BY <2>2, <2>3
<1> QED
  BY <1>2, <1>5, <1>6, <1>7, <1>8, <1>9, ChainSteps

\* No client, race, crash or replacement ever makes an agent's rule let
\* traffic through, in ConfigDB or in the packet filter.
THEOREM AgentsOnlyDrop == Spec => []AgentOnlyDrops
<1>1. Init => AgentOnlyDrops
  BY DEF Init, AgentOnlyDrops, BasePolicy, BaseLine, Line, ChainNames
<1>2. IInv /\ AgentOnlyDrops /\ [Next]_vars => AgentOnlyDrops'
  <2> SUFFICES ASSUME IInv, AgentOnlyDrops, [Next]_vars PROVE AgentOnlyDrops'
    OBVIOUS
  <2>1. /\ \A id \in RuleIds : Harmless(configdb[id])
        /\ \A c \in ChainNames : \A n \in DOMAIN chain[c] :
             Harmless(chain[c][n].rule)
    BY DEF AgentOnlyDrops, Harmless
  <2>2. ASSUME NEW r \in RuleType, ValidRule(r) PROVE Harmless(r)
    BY <2>2 DEF ValidRule, Harmless
  <2>3. \A id \in RuleIds : Harmless(configdb'[id])
    <3> SUFFICES ASSUME NEW id \in RuleIds PROVE Harmless(configdb'[id])
      OBVIOUS
    <3>1. CASE configdb'[id] \in {configdb[id], None}
      BY <2>1, <3>1 DEF Harmless
    <3>2. ASSUME NEW r \in RuleType, ValidRule(r),
                 configdb'[id] = HashSet(configdb[id], r)
          PROVE  Harmless(configdb'[id])
      <4>1. configdb[id] \in RuleType \cup {None}
        BY MainFacts
      <4> QED
        BY <2>2, <3>2, <4>1, HashSetType, NamesAssumption DEF Harmless
    <3> QED
      BY <3>1, <3>2, ConfigSteps
  <2>4. \A c \in ChainNames : \A n \in DOMAIN chain'[c] :
          Harmless(chain'[c][n].rule)
    <3> SUFFICES ASSUME NEW c \in ChainNames, NEW n \in DOMAIN chain'[c]
                 PROVE  Harmless(chain'[c][n].rule)
      OBVIOUS
    <3>1. CASE \E m \in DOMAIN chain[c] : chain'[c][n] = chain[c][m]
      BY <2>1, <3>1
    <3>2. CASE chain'[c][n].rule = None
      BY <3>2 DEF Harmless
    <3>3. CASE \E id \in RuleIds, r \in RuleType :
                 Admitted(id, r) /\ chain'[c][n].rule = r
      BY <2>1, <2>2, <3>3 DEF Admitted
    <3> QED
      BY <3>1, <3>2, <3>3, LineOrigins
  <2> QED
    BY <2>3, <2>4 DEF AgentOnlyDrops, Harmless
<1> QED
  BY <1>1, <1>2, Invariant, PTL DEF Spec

-----------------------------------------------------------------------------
(* An auto-block comes before ESTABLISHED.                                 *)

Ordered(s) ==
  \A i, j \in DOMAIN s : IsTop(s[i]) /\ s[j].tag = Established => i < j

\* Priorities compare as integers.
LEMMA PriorityIsInt ==
  ASSUME NEW p \in Priorities
  PROVE  p \in Int
BY DEF Priorities

\* The three classes of Position do not overlap.
LEMMA TopPosition ==
  ASSUME NEW r \in RuleType, NEW n, r.priority < 100
  PROVE  Position(r, n) = 1
<1>1. r.priority \in Int
  BY PriorityIsInt DEF RuleType
<1>2. ~(r.priority \in 100..999) /\ ~(r.priority >= 1000)
  BY <1>1, Z3
<1> QED
  BY <1>2 DEF Position

\* -I 1 puts a rule below 100 first; every other rule is no auto-block, and
\* what stood in an order keeps it.
LEMMA InsertedOrdered ==
  ASSUME NEW s \in Seq(LineType), Ordered(s), NEW id \in RuleIds,
         NEW r \in RuleType, Position(r, Len(s)) \in 1..Len(s) + 1
  PROVE  Ordered(Inserted(s, id, r))
<1> DEFINE p == Position(r, Len(s))
           e == Line(id, r)
           t == Inserted(s, id, r)
<1>1. p \in 1..Len(s) + 1 /\ Len(s) \in Nat /\ t = InsertAt(s, p, e)
  BY LenProperties DEF Inserted
<1>2. e \in LineType /\ e.tag # Established /\ r # None
  BY NamesAssumption DEF Line, LineType, BaseTags
<1>3. IsTop(e) => p = 1
  <2>1. e.rule = r
    BY DEF Line
  <2>2. IsTop(e) => r.priority < 100
    BY <1>2, <2>1, Zenon DEF IsTop
  <2> QED
    BY <2>2, TopPosition
<1> HIDE DEF p, e, t
<1>4. /\ t \in Seq(LineType) /\ Len(t) = Len(s) + 1
      /\ \A j \in 1..Len(s) + 1 :
           t[j] = IF j < p THEN s[j] ELSE IF j = p THEN e ELSE s[j - 1]
  <2>1. e \in LineType /\ p \in 1..Len(s) + 1
    BY <1>1, <1>2
  <2>2. InsertAt(s, p, e) \in Seq(LineType)
        /\ Len(InsertAt(s, p, e)) = Len(s) + 1
    BY <2>1, InsertedSeq
  <2>4. \A j \in 1..Len(s) + 1 :
          InsertAt(s, p, e)[j] =
            IF j < p THEN s[j] ELSE IF j = p THEN e ELSE s[j - 1]
    BY <2>1, InsertedElements
  <2>3. t = InsertAt(s, p, e)
    BY <1>1
  <2> QED
    BY <2>2, <2>3, <2>4
<1> SUFFICES ASSUME NEW i \in DOMAIN t, NEW j \in DOMAIN t,
                    IsTop(t[i]), t[j].tag = Established
             PROVE  i < j
  BY DEF Ordered, t
<1>5. i \in 1..Len(s) + 1 /\ j \in 1..Len(s) + 1
  BY <1>4
<1>6. j # p
  BY <1>2, <1>4, <1>5
<1>7. CASE i = p
  BY <1>1, <1>3, <1>4, <1>5, <1>6, <1>7
<1>8. CASE i # p
  <2> DEFINE old(n) == IF n < p THEN n ELSE n - 1
  <2>1. /\ old(i) \in 1..Len(s) /\ old(j) \in 1..Len(s)
        /\ t[i] = s[old(i)] /\ t[j] = s[old(j)]
    BY <1>1, <1>4, <1>5, <1>6, <1>8
  <2>2. old(i) < old(j)
    BY <2>1 DEF Ordered
  <2> QED
    BY <1>1, <1>5, <1>6, <1>8, <2>2
<1> QED
  BY <1>7, <1>8

\* iptables -D keeps the order of what stays.
LEMMA RemovedOrdered ==
  ASSUME NEW s \in Seq(LineType), Ordered(s), NEW n \in DOMAIN s
  PROVE  Ordered(RemoveAt(s, n))
<1> DEFINE t == RemoveAt(s, n)
<1>1. Len(s) \in Nat /\ n \in 1..Len(s)
  BY LenProperties
<1>2. /\ t \in Seq(LineType) /\ Len(t) = Len(s) - 1
      /\ \A j \in 1..Len(s) - 1 : t[j] = IF j < n THEN s[j] ELSE s[j + 1]
  BY <1>1, RemoveAtProperties
<1> HIDE DEF t
<1> SUFFICES ASSUME NEW i \in DOMAIN t, NEW j \in DOMAIN t,
                    IsTop(t[i]), t[j].tag = Established
             PROVE  i < j
  BY DEF Ordered, t
<1> DEFINE old(k) == IF k < n THEN k ELSE k + 1
<1>3. i \in 1..Len(s) - 1 /\ j \in 1..Len(s) - 1
  BY <1>2
<1>4. /\ old(i) \in 1..Len(s) /\ old(j) \in 1..Len(s)
      /\ t[i] = s[old(i)] /\ t[j] = s[old(j)]
  BY <1>1, <1>2, <1>3
<1>5. old(i) < old(j)
  BY <1>4 DEF Ordered
<1> QED
  BY <1>1, <1>3, <1>5

\* iptables -A of a rule that is not below 100, at the end, keeps the order.
LEMMA AppendedOrdered ==
  ASSUME NEW s \in Seq(LineType), LinesOf(s, Established) = {}
  PROVE  Ordered(Append(s, BaseLine(Established)))
<1> DEFINE e == BaseLine(Established)
           t == Append(s, e)
<1>1. Len(s) \in Nat /\ \A j \in 1..Len(s) : s[j].tag # Established
  BY LenProperties DEF LinesOf
<1>2. ~IsTop(e)
  BY DEF BaseLine, Line, IsTop
<1> HIDE DEF e
<1>3. /\ DOMAIN t = 1..Len(s) + 1 /\ t[Len(s) + 1] = e
      /\ \A j \in 1..Len(s) : t[j] = s[j]
  BY <1>1
<1> HIDE DEF t
<1>4. \A i \in DOMAIN t : IsTop(t[i]) => i \in 1..Len(s)
  BY <1>1, <1>2, <1>3
<1>5. \A j \in DOMAIN t : t[j].tag = Established => j = Len(s) + 1
  BY <1>1, <1>3
<1> QED
  BY <1>1, <1>4, <1>5 DEF Ordered, t, e

\* The baseline has no rule below 100, so it is in order.
LEMMA BasePolicyOrdered == Ordered(BasePolicy) /\ Ordered(<<>>)
<1>1. \A i \in DOMAIN BasePolicy : ~IsTop(BasePolicy[i])
  BY DEF BasePolicy, BaseLine, Line, IsTop
<1> QED
  BY <1>1 DEF Ordered

\* In every chain, always, a rule below 100 is evaluated before the line that
\* lets established connections through: an auto-block stops those too.
THEOREM TopBeforeEstablishedAlways == Spec => []TopBeforeEstablished
<1>1. TopBeforeEstablished <=> \A c \in ChainNames : Ordered(chain[c])
  BY DEF TopBeforeEstablished, Ordered
<1>2. Init => TopBeforeEstablished
  BY <1>1, BasePolicyOrdered DEF Init, ChainNames
<1>3. IInv /\ TopBeforeEstablished /\ [Next]_vars => TopBeforeEstablished'
  <2> SUFFICES ASSUME IInv, TopBeforeEstablished, [Next]_vars,
                      NEW c \in ChainNames
               PROVE  Ordered(chain'[c])
    BY DEF TopBeforeEstablished, Ordered
  <2>1. /\ chain \in [ChainNames -> Seq(LineType)] /\ "FORWARD" \in ChainNames
        /\ Ordered(chain[c])
    BY <1>1, MainFacts DEF ChainNames
  <2>2. CASE chain'[c] = chain[c]
    BY <2>1, <2>2
  <2>3. ASSUME NEW id \in RuleIds, NEW r \in RuleType, Inserts(id, r)
        PROVE  Ordered(chain'[c])
    <3>1. CASE r.chain = c
      <4>1. chain'[c] = Inserted(chain[c], id, r)
        BY <2>1, <2>3, <3>1 DEF Inserts
      <4>2. Position(r, Len(chain[c])) \in 1..Len(chain[c]) + 1
        BY <2>3, <3>1 DEF Inserts
      <4> QED
        BY <2>1, <4>1, <4>2, InsertedOrdered
    <3>2. CASE r.chain # c
      BY <2>1, <2>2, <2>3, <3>2 DEF Inserts
    <3> QED
      BY <3>1, <3>2
  <2>4. ASSUME NEW d \in ChainNames, NEW n \in DOMAIN chain[d], Removes(d, n)
        PROVE  Ordered(chain'[c])
    <3>1. CASE d = c
      <4>1. chain'[c] = RemoveAt(chain[c], n)
        BY <2>1, <2>4, <3>1 DEF Removes
      <4> QED
        BY <2>1, <2>4, <3>1, <4>1, RemovedOrdered
    <3>2. CASE d # c
      BY <2>1, <2>2, <2>4, <3>2 DEF Removes
    <3> QED
      BY <3>1, <3>2
  <2>5. CASE AddsBase \/ Resets
    <3>1. CASE c = "FORWARD"
      <4>1. CASE AddsBase
        <5>1. /\ chain'[c] = Append(chain[c], BaseLine(Established))
              /\ LinesOf(chain[c], Established) = {}
          BY <2>1, <3>1, <4>1 DEF AddsBase
        <5> QED
          BY <2>1, <5>1, AppendedOrdered
      <4>2. CASE Resets
        <5>1. chain'[c] = BasePolicy
          BY <2>1, <3>1, <4>2 DEF Resets
        <5> QED
          BY <5>1, BasePolicyOrdered
      <4> QED
        BY <2>5, <4>1, <4>2
    <3>2. CASE c # "FORWARD"
      BY <2>1, <2>2, <2>5, <3>2 DEF AddsBase, Resets
    <3> QED
      BY <3>1, <3>2
  <2> QED
    BY <2>2, <2>3, <2>4, <2>5, ChainSteps
<1> QED
  BY <1>2, <1>3, Invariant, PTL DEF Spec

=============================================================================
