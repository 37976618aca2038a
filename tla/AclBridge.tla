------------------------------ MODULE AclBridge ------------------------------
(***************************************************************************)
(* nos-acl-bridge on one leaf: a gRPC server whose worker threads carry    *)
(* out Set requests against ConfigDB (Redis) and iptables, and whose main  *)
(* thread reconciles the two when the process starts.                      *)
(*                                                                         *)
(* There is no lock in the bridge.  A step of this specification is one    *)
(* call that leaves the process (one Redis command, one run of iptables),  *)
(* together with the local computation before the next one; steps of       *)
(* different threads interleave freely.                                    *)
(***************************************************************************)
EXTENDS RuleSchema, SequencesExt, FiniteSetsExt

CONSTANTS RuleIds,      \* rule names
          Extending,    \* Extending[id]: the names that start with id
          Workers,      \* threads of the gRPC pool
          Main,         \* the thread that starts the bridge
          Bodies,       \* the rule bodies clients may send, valid or not
          Requests,     \* the Set requests clients may send
          MaxSets,      \* bound: Set requests carried out
          MaxCrashes,   \* bound: times the process dies
          MaxFaults     \* bound: failing iptables runs and policy pushes

\* Lines of a chain that are no rule of the bridge.
Established == "ESTABLISHED,RELATED"
Baseline    == "baseline policy"
BaseTags    == {Established, Baseline}

\* An entry of a Set: a delete carries the name in its path, an update also
\* a body, which may bring a rule-id of its own that overrides the path's.
RuleIdOrNone == RuleIds \cup {None}
UpdateType   == [path : RuleIdOrNone, id : RuleIdOrNone, body : Bodies]
Roles        == {"ADMIN", "OPERATOR", "AGENT", "DENY"}

ASSUME NamesAssumption ==
  /\ None \notin RuleIds /\ None \notin RuleType /\ None \notin ChainNames
  /\ RuleIds \cap BaseTags = {}
  /\ Extending \in [RuleIds -> SUBSET RuleIds]
  /\ \A id \in RuleIds : id \in Extending[id]

ASSUME ThreadsAssumption == Main \notin Workers

ASSUME RequestsAssumption ==
  /\ \A b \in Bodies : ValidRule(b) => b \in RuleType
  /\ \A q \in Requests : /\ q.deletes \in Seq(RuleIdOrNone)
                         /\ q.updates \in Seq(UpdateType)

ASSUME BoundsAssumption ==
  MaxSets \in Nat /\ MaxCrashes \in Nat /\ MaxFaults \in Nat

Threads == Workers \cup {Main}

VARIABLES
  configdb,    \* DB 4: the rule stored under each name
  snapshot,    \* DB 50: the role that last pushed each rule
  chain,       \* the packet filter: the lines of each chain, first to last
  pc,          \* what each thread does next
  req,         \* the Set a worker carries out: its role and what is left
  target,      \* the name, and its chain, a thread is to remove lines of
  lines,       \* line numbers a thread has listed and will delete
  seen,        \* reconcile: the chain each tagged rule was listed in
  todo,        \* reconcile: the names left to repair
  undisturbed, \* nothing but the startup has run since the process began
  sets, crashes, faults  \* counters of the bounds

vars == <<configdb, snapshot, chain, pc, req, target, lines, seen, todo,
          undisturbed, sets, crashes, faults>>

NoRequest == [role |-> "DENY", deletes |-> <<>>, updates |-> <<>>]

-----------------------------------------------------------------------------
(* The packet filter.                                                      *)

Line(tag, r) == [tag |-> tag, rule |-> r]
BaseLine(tag) == Line(tag, None)
BasePolicy == <<BaseLine(Established), BaseLine(Baseline)>>

\* Lines whose text contains nos:<id>: those of every name that starts so.
TaggedLines(c, id) == {n \in DOMAIN c : c[n].tag \in Extending[id]}

\* Lines tagged with exactly this name.
LinesOf(c, id) == {n \in DOMAIN c : c[n].tag = id}

\* -I 2 needs a line to go after; -I 1 and -A always find their place.
Insertable(c, r) ==
  CommandAccepted(r) /\ Position(r, Len(c)) \in 1..Len(c) + 1

Inserted(c, id, r) == InsertAt(c, Position(r, Len(c)), Line(id, r))

\* iptables -L prints INPUT, FORWARD, OUTPUT; the last mention of a name wins.
ListedChain(id) ==
  LET In(c) == LinesOf(chain[c], id) # {} IN
  IF In("OUTPUT") THEN "OUTPUT"
  ELSE IF In("FORWARD") THEN "FORWARD"
  ELSE IF In("INPUT") THEN "INPUT" ELSE None

-----------------------------------------------------------------------------
Init ==
  /\ configdb = [id \in RuleIds |-> None]
  /\ snapshot = [id \in RuleIds |-> None]
  /\ \E forward \in {<<>>, BasePolicy} :
       chain = [c \in ChainNames |-> IF c = "FORWARD" THEN forward ELSE <<>>]
  /\ pc = [t \in Threads |-> IF t = Main THEN "base" ELSE "idle"]
  /\ req = [w \in Workers |-> NoRequest]
  /\ target = [t \in Threads |-> None]
  /\ lines = [t \in Threads |-> {}]
  /\ seen = [id \in RuleIds |-> None]
  /\ todo = {}
  /\ undisturbed = TRUE
  /\ sets = 0 /\ crashes = 0 /\ faults = 0

\* Mutant: the server is started before reconcile is through.
ServingEarly == pc[Main] # "base"
Serving == pc[Main] = "serve"
Goto(t, label) == pc' = [pc EXCEPT ![t] = label]

rpcVars   == <<req, target>>
startVars == <<seen, todo>>
bounds    == <<sets, crashes, faults>>

-----------------------------------------------------------------------------
(* Set, one entry at a time: deletes first.                                *)

\* Worker w returns or aborts: what is left of the request is forgotten.
Finish(w) ==
  /\ Goto(w, "idle")
  /\ req' = [req EXCEPT ![w] = NoRequest]
  /\ target' = [target EXCEPT ![w] = None]

\* A request reaches worker w; a certificate without a role is turned away.
SetBegin(w, q) ==
  /\ Serving /\ pc[w] = "idle" /\ sets < MaxSets
  /\ sets' = sets + 1
  /\ IF RoleOf(q.ou) = "DENY"
     THEN UNCHANGED <<pc, req, undisturbed>>
     ELSE /\ Goto(w, "entry")
          /\ req' = [req EXCEPT ![w] = [role    |-> RoleOf(q.ou),
                                        deletes |-> q.deletes,
                                        updates |-> q.updates]]
          /\ undisturbed' = FALSE
  /\ UNCHANGED <<configdb, snapshot, chain, target, lines, startVars,
                 crashes, faults>>

Deleting(w) == req[w].deletes # <<>>
Update(w)   == Head(req[w].updates)

\* The name an entry's path gives, which the handler looks up and removes.
PathId(w) == IF Deleting(w) THEN Head(req[w].deletes) ELSE Update(w).path

\* The name an update is written under: the body's own, if it has one.
WrittenId(w) == IF Update(w).id = None THEN Update(w).path ELSE Update(w).id

\* Mutant: the default chain, whatever chain the stored rule is in.
StoredAtDefault(id) == [id |-> id, chain |-> "FORWARD"]
\* Where remove_rule is to look: the chain ConfigDB has now, FORWARD if the
\* name is not there.
StoredAt(id) ==
  [id |-> id, chain |-> IF configdb[id] = None THEN "FORWARD"
                        ELSE configdb[id].chain]

\* The next delete: a path without rule-id aborts the call.
ReadDelete(w) ==
  /\ pc[w] = "entry" /\ Deleting(w)
  /\ IF PathId(w) = None THEN Finish(w)
     ELSE /\ Goto(w, "erase")
          /\ target' = [target EXCEPT ![w] = StoredAt(PathId(w))]
          /\ UNCHANGED req
  /\ UNCHANGED <<configdb, snapshot, chain, lines, startVars, undisturbed,
                 bounds>>

EraseRule(w) ==
  /\ pc[w] = "erase"
  /\ configdb' = [configdb EXCEPT ![PathId(w)] = None]
  /\ Goto(w, "list")
  /\ UNCHANGED <<snapshot, chain, rpcVars, lines, startVars, undisturbed,
                 bounds>>

\* Mutant: the role is checked and the rule is not.
AcceptedUnread(w) ==
  PathId(w) # None /\ RoleMayPush(req[w].role, Update(w).body)
Accepted(w) ==
  /\ PathId(w) # None
  /\ ValidRule(Update(w).body)
  /\ RoleMayPush(req[w].role, Update(w).body)

\* The next update: validation and role check first, and any refusal aborts
\* the call with the entries before it already in force.
ReadUpdate(w) ==
  /\ pc[w] = "entry" /\ ~Deleting(w) /\ req[w].updates # <<>>
  /\ IF Accepted(w)
     THEN /\ target' = [target EXCEPT ![w] = StoredAt(PathId(w))]
          /\ Goto(w, IF configdb[PathId(w)] = None THEN "store" ELSE "list")
          /\ UNCHANGED req
     ELSE Finish(w)
  /\ UNCHANGED <<configdb, snapshot, chain, lines, startVars, undisturbed,
                 bounds>>

StoreRule(w) ==
  /\ pc[w] = "store"
  /\ configdb' = [configdb EXCEPT ![WrittenId(w)] = HashSet(@, Update(w).body)]
  /\ Goto(w, "apply")
  /\ UNCHANGED <<snapshot, chain, rpcVars, lines, startVars, undisturbed,
                 bounds>>

\* iptables -I or -A.  A command it refuses raises and ends the call: the
\* rule stays in ConfigDB.
ApplyRule(w) ==
  LET r == Update(w).body IN
  /\ pc[w] = "apply"
  /\ IF Insertable(chain[r.chain], r)
     THEN /\ chain' = [chain EXCEPT ![r.chain] = Inserted(@, WrittenId(w), r)]
          /\ Goto(w, "snap")
          /\ UNCHANGED rpcVars
     ELSE /\ Finish(w)
          /\ UNCHANGED chain
  /\ UNCHANGED <<configdb, snapshot, lines, startVars, undisturbed, bounds>>

\* The snapshot of the entry, after which the loop goes on to the next one.
TakeSnapshot(w) ==
  /\ pc[w] = "snap"
  /\ snapshot' = [snapshot EXCEPT ![PathId(w)] =
                    IF Deleting(w) THEN None ELSE req[w].role]
  /\ req' = IF Deleting(w)
            THEN [req EXCEPT ![w].deletes = Tail(@)]
            ELSE [req EXCEPT ![w].updates = Tail(@)]
  /\ Goto(w, "entry")
  /\ UNCHANGED <<configdb, chain, target, lines, startVars, undisturbed,
                 bounds>>

SetEnd(w) ==
  /\ pc[w] = "entry" /\ ~Deleting(w) /\ req[w].updates = <<>>
  /\ Finish(w)
  /\ UNCHANGED <<configdb, snapshot, chain, lines, startVars, undisturbed,
                 bounds>>

-----------------------------------------------------------------------------
(* remove_rule: list the chain, then delete the matching lines by number,  *)
(* the last one first.  Handlers and reconcile share it.                   *)

\* Where a thread goes on when its lines are gone.
AfterRemoval(t) ==
  IF t = Main THEN "reconcile" ELSE IF Deleting(t) THEN "snap" ELSE "store"

ListLines(t) ==
  /\ pc[t] = "list"
  /\ LET found == TaggedLines(chain[target[t].chain], target[t].id) IN
     /\ lines' = [lines EXCEPT ![t] = found]
     /\ Goto(t, IF found = {} THEN AfterRemoval(t) ELSE "cut")
  /\ UNCHANGED <<configdb, snapshot, chain, rpcVars, startVars, undisturbed,
                 bounds>>

\* Thread t is done with line n of those it listed.
Struck(t, n) ==
  /\ lines' = [lines EXCEPT ![t] = @ \ {n}]
  /\ Goto(t, IF lines[t] = {n} THEN AfterRemoval(t) ELSE "cut")

\* iptables -D chain n deletes whatever is line n now.
CutLine(t) ==
  /\ pc[t] = "cut"
  /\ LET n == Max(lines[t])
         c == target[t].chain IN
     /\ chain' = IF n \in DOMAIN chain[c]
                 THEN [chain EXCEPT ![c] = RemoveAt(@, n)] ELSE chain
     /\ Struck(t, n)
  /\ UNCHANGED <<configdb, snapshot, rpcVars, startVars, undisturbed, bounds>>

-----------------------------------------------------------------------------
(* Startup: the base rule, then reconcile, then the server.                *)

EnsureBaseRules ==
  /\ pc[Main] = "base"
  /\ chain' = IF LinesOf(chain["FORWARD"], Established) # {} THEN chain
              ELSE [chain EXCEPT !["FORWARD"] =
                      Append(@, BaseLine(Established))]
  /\ Goto(Main, "diff")
  /\ UNCHANGED <<configdb, snapshot, rpcVars, lines, startVars, undisturbed,
                 bounds>>

\* Mutants: orphans are left alone; a rule in the wrong chain is left there.
MissingOnly(listed) == {id \in RuleIds : configdb[id] # None /\ listed[id] = None}
PresenceOnly(listed) == {id \in RuleIds : (configdb[id] = None) # (listed[id] = None)}
\* What has to be repaired, given the chain each name was listed in.
Discrepancies(listed) ==
  {id \in RuleIds :
     \/ (configdb[id] = None) # (listed[id] = None)
     \/ /\ configdb[id] # None /\ listed[id] # None
        /\ configdb[id].chain # listed[id]}

ReadBothSides ==
  /\ pc[Main] = "diff"
  /\ seen' = [id \in RuleIds |-> ListedChain(id)]
  /\ todo' = Discrepancies(seen')
  /\ Goto(Main, "reconcile")
  /\ UNCHANGED <<configdb, snapshot, chain, rpcVars, lines, undisturbed, bounds>>

Missing == {id \in todo : configdb[id] # None /\ seen[id] = None}
Orphans == {id \in todo : configdb[id] = None /\ seen[id] # None}
Drifted == {id \in todo : configdb[id] # None /\ seen[id] # None}

\* In Redis, not in iptables.  A command iptables refuses is only logged.
ReconcileApply(id) ==
  LET r == configdb[id] IN
  /\ pc[Main] = "reconcile" /\ id \in Missing
  /\ chain' = IF Insertable(chain[r.chain], r)
              THEN [chain EXCEPT ![r.chain] = Inserted(@, id, r)] ELSE chain
  /\ todo' = todo \ {id}
  /\ UNCHANGED <<configdb, snapshot, pc, rpcVars, lines, seen, undisturbed,
                 bounds>>

\* In iptables only (orphans go first), or in another chain than Redis says:
\* remove it from where it was listed.  A drifted rule is then missing.
ReconcileRemove(id) ==
  /\ pc[Main] = "reconcile" /\ Missing = {}
  /\ id \in (IF Orphans # {} THEN Orphans ELSE Drifted)
  /\ target' = [target EXCEPT ![Main] = [id |-> id, chain |-> seen[id]]]
  /\ seen' = [seen EXCEPT ![id] = None]
  /\ todo' = IF id \in Orphans THEN todo \ {id} ELSE todo
  /\ Goto(Main, "list")
  /\ UNCHANGED <<configdb, snapshot, chain, req, lines, undisturbed, bounds>>

StartServer ==
  /\ pc[Main] = "reconcile" /\ todo = {}
  /\ Goto(Main, "serve")
  /\ seen' = [id \in RuleIds |-> None]
  /\ target' = [target EXCEPT ![Main] = None]
  /\ UNCHANGED <<configdb, snapshot, chain, req, lines, todo, undisturbed,
                 bounds>>

-----------------------------------------------------------------------------
(* What can go wrong.                                                      *)

\* The process dies, or SIGTERM ends it with requests in progress; systemd
\* starts it again.  Redis and the packet filter are left as they are.
Crash ==
  /\ crashes < MaxCrashes
  /\ crashes' = crashes + 1
  /\ pc' = [t \in Threads |-> IF t = Main THEN "base" ELSE "idle"]
  /\ req' = [w \in Workers |-> NoRequest]
  /\ target' = [t \in Threads |-> None]
  /\ lines' = [t \in Threads |-> {}]
  /\ seen' = [id \in RuleIds |-> None]
  /\ todo' = {}
  /\ undisturbed' = TRUE
  /\ UNCHANGED <<configdb, snapshot, chain, sets, faults>>

Fault ==
  /\ faults < MaxFaults
  /\ faults' = faults + 1
  /\ undisturbed' = FALSE
  /\ UNCHANGED <<configdb, snapshot, sets, crashes>>

\* A run of iptables that lists a chain fails: nothing is removed.
ListFails(t) ==
  /\ Fault /\ pc[t] = "list"
  /\ Goto(t, AfterRemoval(t))
  /\ UNCHANGED <<chain, rpcVars, lines, startVars>>

\* A run of iptables -D fails: the line stays and the next one is tried.
CutFails(t) ==
  /\ Fault /\ pc[t] = "cut"
  /\ Struck(t, Max(lines[t]))
  /\ UNCHANGED <<chain, rpcVars, startVars>>

\* A run of iptables -I or -A fails under a handler: the call ends.
ApplyFails(w) ==
  /\ Fault /\ pc[w] = "apply"
  /\ Finish(w)
  /\ UNCHANGED <<chain, lines, startVars>>

\* The same under reconcile: logged, and the next rule is tried.
ReconcileApplyFails(id) ==
  /\ Fault /\ pc[Main] = "reconcile" /\ id \in Missing
  /\ todo' = todo \ {id}
  /\ UNCHANGED <<chain, pc, rpcVars, lines, seen>>

BaseRulesFail ==
  /\ Fault /\ pc[Main] = "base"
  /\ Goto(Main, "diff")
  /\ UNCHANGED <<chain, rpcVars, lines, startVars>>

\* Listing everything fails: reconcile takes it that nothing is installed.
ListAllFails ==
  /\ Fault /\ pc[Main] = "diff"
  /\ seen' = [id \in RuleIds |-> None]
  /\ todo' = Discrepancies(seen')
  /\ Goto(Main, "reconcile")
  /\ UNCHANGED <<chain, rpcVars, lines>>

\* 07-apply-policy.py flushes FORWARD and writes the baseline policy.
ApplyPolicy ==
  /\ Fault
  /\ chain' = [chain EXCEPT !["FORWARD"] = BasePolicy]
  /\ UNCHANGED <<pc, rpcVars, lines, startVars>>

-----------------------------------------------------------------------------
Handle(w) ==
  \/ ReadDelete(w) \/ EraseRule(w) \/ ReadUpdate(w) \/ StoreRule(w)
  \/ ApplyRule(w) \/ TakeSnapshot(w) \/ SetEnd(w)
  \/ ListLines(w) \/ CutLine(w)

Startup ==
  \/ EnsureBaseRules \/ ReadBothSides \/ StartServer
  \/ \E id \in RuleIds : ReconcileApply(id) \/ ReconcileRemove(id)
  \/ ListLines(Main) \/ CutLine(Main)

Failures ==
  \/ Crash \/ BaseRulesFail \/ ListAllFails \/ ApplyPolicy
  \/ \E t \in Threads : ListFails(t) \/ CutFails(t)
  \/ \E w \in Workers : ApplyFails(w)
  \/ \E id \in RuleIds : ReconcileApplyFails(id)

Next ==
  \/ \E w \in Workers, q \in Requests : SetBegin(w, q)
  \/ \E w \in Workers : Handle(w)
  \/ Startup
  \/ Failures

Spec == Init /\ [][Next]_vars

\* Threads that can run do: the kernel schedules them, none holds a lock, and
\* systemd restarts the process (Restart=always).
FairSpec ==
  Spec /\ WF_vars(Startup) /\ \A w \in Workers : WF_vars(Handle(w))

-----------------------------------------------------------------------------
(* Properties.                                                             *)

TypeOK ==
  /\ configdb \in [RuleIds -> RuleType \cup {None}]
  /\ snapshot \in [RuleIds -> Roles \cup {None}]
  /\ chain \in [ChainNames -> Seq([tag : RuleIds \cup BaseTags,
                                  rule : RuleType \cup {None}])]
  /\ pc \in [Threads -> {"idle", "entry", "erase", "list", "cut", "store",
                         "apply", "snap", "base", "diff", "reconcile", "serve"}]
  /\ req \in [Workers -> [role : Roles, deletes : Seq(RuleIdOrNone),
                          updates : Seq(UpdateType)]]
  /\ target \in [Threads -> [id : RuleIds, chain : ChainNames] \cup {None}]
  /\ lines \in [Threads -> SUBSET Nat]
  /\ seen \in [RuleIds -> ChainNames \cup {None}]
  /\ todo \subseteq RuleIds
  /\ undisturbed \in BOOLEAN
  /\ sets \in 0..MaxSets /\ crashes \in 0..MaxCrashes /\ faults \in 0..MaxFaults

\* The places where the packet filter holds a line of this name.
Entries(id) == UNION {{<<c, n>> : n \in LinesOf(chain[c], id)} : c \in ChainNames}

\* What the packet filter does under this name.
EnforcedRule(id) ==
  IF Entries(id) = {} THEN None
  ELSE LET e == CHOOSE e \in Entries(id) : TRUE IN chain[e[1]][e[2]].rule

\* No Set is in progress and the bridge has started.
Quiet == Serving /\ \A w \in Workers : pc[w] = "idle"

\* Whenever the bridge is at rest, each rule of ConfigDB is one line of the
\* packet filter, with the content and in the chain ConfigDB says, and the
\* filter has no other line of a rule: at whatever step of whatever Set the
\* process has died before.
ExactlyInSync ==
  Quiet => \A id \in RuleIds :
    IF configdb[id] = None THEN Entries(id) = {}
    ELSE /\ Cardinality(Entries(id)) = 1
         /\ \A e \in Entries(id) : e[1] = configdb[id].chain
         /\ EnforcedRule(id) = configdb[id]

\* The base rule that lets replies through is in FORWARD from the time
\* ensure_base_rules has run.
EstablishedKept ==
  pc[Main] # "base" => LinesOf(chain["FORWARD"], Established) # {}

\* An agent's rule, stored or enforced, drops: no interleaving, crash,
\* replacement or reconcile turns an AGENT's push into one that lets through.
AgentOnlyDrops ==
  LET Harmless(r) == r # None => (r.source = "agent" => r.action = "DROP") IN
  /\ \A id \in RuleIds : Harmless(configdb[id])
  /\ \A c \in ChainNames : \A n \in DOMAIN chain[c] : Harmless(chain[c][n].rule)

IsTop(line) == IF line.rule = None THEN FALSE ELSE line.rule.priority < 100
\* A rule of priority below 100 (the IDS's auto-block) is evaluated before the
\* line that lets established connections through, so it also stops those.
TopBeforeEstablished ==
  \A c \in ChainNames : \A i, j \in DOMAIN chain[c] :
    IsTop(chain[c][i]) /\ chain[c][j].tag = Established => i < j

\* Whatever concurrent Sets, crashes and failed iptables runs have left
\* behind, a startup that nothing disturbs repairs it: afterwards the filter
\* has a line of exactly the rules ConfigDB has, and the base rule.
RestartHeals ==
  Serving /\ undisturbed =>
    /\ \A id \in RuleIds : configdb[id] = None <=> Entries(id) = {}
    /\ LinesOf(chain["FORWARD"], Established) # {}

\* Of this, what holds for rules of several chains: after such a startup every
\* rule of ConfigDB has a line in its chain.
RestartEnforces ==
  Serving /\ undisturbed =>
    \A id \in RuleIds : configdb[id] # None =>
      LinesOf(chain[configdb[id].chain], id) # {}

\* The bridge keeps the leaf's promise: rules are recorded and enforced as
\* RuleStore says, through every crash.
Store == INSTANCE RuleStore
         WITH Rules <- {b \in Bodies : ValidRule(b)}, NoRule <- None,
              stored <- configdb,
              enforced <- [id \in RuleIds |-> EnforcedRule(id)]
KeepsPromise == Store!StoreSpec

\* Whatever is recorded and not enforced, or enforced and not recorded, does
\* not stay so: the handler that is under way or, if it dies, the startup of
\* the next process settles it.
Converges ==
  \A id \in RuleIds : EnforcedRule(id) # configdb[id]
                      ~> EnforcedRule(id) = configdb[id]
=============================================================================
