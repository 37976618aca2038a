--------------------------- MODULE SecureFramework ---------------------------
(***************************************************************************)
(* The Secure Framework: NETCONF sessions and REST handlers that turn      *)
(* edit-config and /api/rules requests into gNMI Sets on the bridges of    *)
(* two leaves, through a pool of connections opened when the process       *)
(* starts.                                                                 *)
(*                                                                         *)
(* A step is one gNMI call, with the local computation before the next,    *)
(* or one locked access to the policy engine.  What a bridge does with a   *)
(* Set is one step here: AclBridge is about what happens inside it.        *)
(***************************************************************************)
EXTENDS RuleSchema, RolePolicy

CONSTANTS RuleIds,     \* rule names
          FirstLeaf,   \* the pool lists the leaves in this order; the first
          SecondLeaf,  \* one also gets the rules of no known zone
          Owner,       \* Owner[n]: the leaf whose zone holds network n, or None
          CertRole,    \* CertRole[r]: the bridge's role for the pool's certificate
          Pools,       \* the sets of connections a start may come out with
          Sessions,    \* NETCONF connections
          Handlers,    \* REST requests in progress at once
          Words,       \* the values of a body's textual fields, known or not
          Bodies,      \* the rule bodies clients may send, valid or not
          Requests,    \* edit-config requests: the entries of each
          Posts,       \* REST pushes: a name and a body
          PolicyUpdates,  \* REST policy updates: allowed list and default
          MaxRequests, MaxFaults, MaxUpdates  \* bounds

Leaves == {FirstLeaf, SecondLeaf}
Channels == SonicRoles \X Leaves   \* the keys of the pool

\* A body before anyone has looked at it: the fields of a rule, of any value.
BodyType ==
  [chain : Words, action : Words, priority : Int, source : Words,
   protocol : Words, port : Int \cup {None}, src : Networks \cup {None},
   ttl : Int]

\* An entry of an edit-config: a rule to delete, or one to push.  An entry
\* without a rule-id, or with a number that does not parse, has the name None.
EntryType ==
  [op : {"push"}, id : RuleIds \cup {None}, body : Bodies]
    \cup [op : {"delete"}, id : RuleIds \cup {None}, body : {None}]

\* An OpenConfig acl-set as entries.  Names are sequences: an acl-entry's rule
\* is called after the set and its sequence-id, which is also its priority, and
\* a delete names the set alone.
OpenConfigRule(name, e) ==
  [op |-> "push", id |-> Append(name, e.seq),
   body |->
     [chain |-> "FORWARD", priority |-> e.seq, source |-> "sdnc", ttl |-> 0,
      action |-> IF e.action \in {"ACCEPT", "DROP", "RETURN"} THEN e.action
                 ELSE "DROP",
      protocol |-> IF e.protocol \in {"tcp", "udp", "icmp"} THEN e.protocol
                   ELSE "all",
      port |-> e.port, src |-> e.src]]
FromOpenConfig(set) ==
  IF set.op = "delete"
  THEN <<[op |-> "delete", id |-> set.name, body |-> None]>>
  ELSE [i \in DOMAIN set.entries |-> OpenConfigRule(set.name, set.entries[i])]

ASSUME LeavesAssumption == FirstLeaf # SecondLeaf
ASSUME NoneAssumption ==
  /\ None \notin OnapRoles /\ None \notin RuleIds
  /\ None \notin Channels /\ None \notin BodyType
  /\ None \notin {"ok", "error"} /\ None \notin Sessions
ASSUME ZonesAssumption == Owner \in [Networks -> Leaves \cup {None}]
ASSUME ChannelsAssumption ==
  /\ Pools \subseteq SUBSET Channels
  /\ CertRole \in [SonicRoles -> {"ADMIN", "OPERATOR", "AGENT", "DENY"}]
ASSUME BodiesAssumption == Bodies \subseteq BodyType /\ "agent" \in Words
ASSUME RequestsAssumption ==
  /\ Requests \subseteq Seq(EntryType)
  /\ Posts \subseteq [id : RuleIds, body : Bodies]
ASSUME UpdatesAssumption ==
  \A u \in PolicyUpdates :
    u.allowed \in AllowedLists \cup {None} /\ u.default \in SonicRoles \cup {None}
ASSUME BoundsAssumption ==
  MaxRequests \in Nat /\ MaxFaults \in Nat /\ MaxUpdates \in Nat

VARIABLES
  pool,      \* the channels that are connected
  up,        \* the leaves whose bridge answers
  store,     \* ConfigDB of each leaf
  policies,  \* the policy engine
  state,     \* where each session is
  ctx,       \* its ONAP role, allowed list, SONiC role and own channel
  todo,      \* the entries left of its edit-config
  left,      \* the channels a delete still has to call
  failed,    \* whether a call of this delete has failed
  reply,     \* the last reply
  asked,     \* history: the entries of the edit-config the reply is to
  alone,     \* history: nobody else wrote to a leaf since it began
  rest,      \* REST deletes in progress
  late,      \* Sets nobody waits for any longer, which may still take effect
  requests, faults, updates  \* counters of the bounds

leafVars    == <<up, store>>
sessionVars == <<state, ctx, todo, left, failed, reply, asked>>
bounds      == <<requests, faults, updates>>
vars == <<pool, leafVars, policies, sessionVars, alone, rest, late, bounds>>

NoContext == [onap |-> None, allowed |-> <<>>, sonic |-> None, channel |-> None]
NoDelete  == [id |-> None, left |-> <<>>]

InitSessions ==
  /\ state = [s \in Sessions |-> "closed"]
  /\ ctx = [s \in Sessions |-> NoContext]
  /\ todo = [s \in Sessions |-> <<>>]
  /\ left = [s \in Sessions |-> <<>>]
  /\ failed = [s \in Sessions |-> FALSE]
  /\ reply = [s \in Sessions |-> None]
  /\ asked = [s \in Sessions |-> <<>>]

\* connect_all: any channel may be missing, not all of them.
Init ==
  /\ pool \in Pools \ {{}}
  /\ up = Leaves
  /\ store = [l \in Leaves |-> [id \in RuleIds |-> None]]
  /\ policies = DefaultPolicies
  /\ InitSessions
  /\ alone = [s \in Sessions |-> FALSE]
  /\ rest = [h \in Handlers |-> NoDelete]
  /\ late = {}
  /\ requests = 0 /\ faults = 0 /\ updates = 0

-----------------------------------------------------------------------------
(* The pool.                                                               *)

ChannelOf(role, leaf) == <<role, leaf>>

\* get_any_client: the first leaf that is connected for this role.
AnyChannel(role) ==
  IF ChannelOf(role, FirstLeaf) \in pool THEN ChannelOf(role, FirstLeaf)
  ELSE IF ChannelOf(role, SecondLeaf) \in pool THEN ChannelOf(role, SecondLeaf)
  ELSE None

\* ip_to_leaf: the leaf of the zone a source prefix lies in.
ZoneLeaf(net) == IF net = None THEN None ELSE Owner[net]

\* get_client_for_zone: an unknown zone is the first leaf's.
ZoneChannel(net) ==
  LET leaf == IF ZoneLeaf(net) = None THEN FirstLeaf ELSE ZoneLeaf(net)
      c == ChannelOf("admin", leaf) IN
  IF c \in pool THEN c ELSE None

\* get_client_by_key over the leaves, in order.
IfConnected(c) == IF c \in pool THEN <<c>> ELSE <<>>
AdminChannels ==
  IfConnected(ChannelOf("admin", FirstLeaf))
    \o IfConnected(ChannelOf("admin", SecondLeaf))

\* What the bridge at the other end of a channel does with a Set.
Accepts(c, body) ==
  c[2] \in up /\ ValidRule(body) /\ RoleMayPush(CertRole[c[1]], body)
Deletes(c) == c[2] \in up /\ CertRole[c[1]] # "DENY"

Put(c, id, body) == store' = [store EXCEPT ![c[2]][id] = HashSet(@, body)]
Drop(c, id)      == store' = [store EXCEPT ![c[2]][id] = None]

\* Thread t has written to a leaf: to every other session's reply it counts.
Disturbs(t) == alone' = [s \in Sessions |-> alone[s] /\ s = t]

\* A Set on its way to a leaf, and whether an agent's session sent it.
Call(c, op, id, body, onap) ==
  [channel |-> c, op |-> op, id |-> id, body |-> body, onap |-> onap]

-----------------------------------------------------------------------------
(* A session begins: role from the certificate, two reads of the policy    *)
(* engine, a channel of its own.                                           *)

\* No certificate at all is an administrator's.
OnapRoleOf(ou) == IF ou = None THEN "ADMIN" ELSE RoleOf(ou)

Accept(s, ou) ==
  /\ state[s] = "closed" /\ OnapRoleOf(ou) # "DENY"
  /\ state' = [state EXCEPT ![s] = "reading"]
  /\ ctx' = [ctx EXCEPT ![s].onap = OnapRoleOf(ou)]
  /\ reply' = [reply EXCEPT ![s] = None]
  /\ asked' = [asked EXCEPT ![s] = <<>>]
  /\ alone' = [alone EXCEPT ![s] = FALSE]
  /\ UNCHANGED <<pool, leafVars, policies, todo, left, failed, rest, late,
                 bounds>>

ReadAllowed(s) ==
  /\ state[s] = "reading"
  /\ ctx' = [ctx EXCEPT ![s].allowed = policies[ctx[s].onap].allowed]
  /\ state' = [state EXCEPT ![s] = "opening"]
  /\ UNCHANGED <<pool, leafVars, policies, todo, left, failed, reply, asked,
                 alone, rest, late, bounds>>

\* Without a channel for its role the connection is closed.
ReadDefault(s) ==
  LET none  == ctx[s].allowed = <<>>
      list  == IF none THEN <<"operator">> ELSE ctx[s].allowed
      sonic == IF none THEN "operator" ELSE policies[ctx[s].onap].default
      c     == AnyChannel(sonic) IN
  /\ state[s] = "opening"
  /\ IF c = None
     THEN /\ state' = [state EXCEPT ![s] = "closed"]
          /\ ctx' = [ctx EXCEPT ![s] = NoContext]
     ELSE /\ state' = [state EXCEPT ![s] = "ready"]
          /\ ctx' = [ctx EXCEPT ![s] =
               [onap |-> @.onap, allowed |-> list, sonic |-> sonic, channel |-> c]]
  /\ UNCHANGED <<pool, leafVars, policies, todo, left, failed, reply, asked,
                 alone, rest, late, bounds>>

Close(s) ==
  /\ state[s] = "ready"
  /\ state' = [state EXCEPT ![s] = "closed"]
  /\ ctx' = [ctx EXCEPT ![s] = NoContext]
  /\ reply' = [reply EXCEPT ![s] = None]
  /\ UNCHANGED <<pool, leafVars, policies, todo, left, failed, asked, alone,
                 rest, late, bounds>>

-----------------------------------------------------------------------------
(* edit-config, one entry at a time; the first error ends it, and what the *)
(* entries before it have done stays.                                      *)

EditConfig(s, q) ==
  /\ state[s] = "ready" /\ requests < MaxRequests
  /\ requests' = requests + 1
  /\ state' = [state EXCEPT ![s] = "edit"]
  /\ todo' = [todo EXCEPT ![s] = q]
  /\ asked' = [asked EXCEPT ![s] = q]
  /\ reply' = [reply EXCEPT ![s] = None]
  /\ alone' = [alone EXCEPT ![s] = TRUE]
  /\ UNCHANGED <<pool, leafVars, policies, ctx, left, failed, rest, late,
                 faults, updates>>

Answer(s, what) ==
  /\ state' = [state EXCEPT ![s] = "ready"]
  /\ todo' = [todo EXCEPT ![s] = <<>>]
  /\ left' = [left EXCEPT ![s] = <<>>]
  /\ failed' = [failed EXCEPT ![s] = FALSE]
  /\ reply' = [reply EXCEPT ![s] = what]
  /\ UNCHANGED <<ctx, asked>>

NextEntry(s) ==
  /\ state' = [state EXCEPT ![s] = "edit"]
  /\ todo' = [todo EXCEPT ![s] = Tail(@)]
  /\ left' = [left EXCEPT ![s] = <<>>]
  /\ UNCHANGED <<ctx, failed, reply, asked>>

Done(s) ==
  /\ state[s] = "edit" /\ todo[s] = <<>>
  /\ Answer(s, "ok")
  /\ UNCHANGED <<pool, leafVars, policies, alone, rest, late, bounds>>

Entry(s) == Head(todo[s])

\* _validate_and_push, before the push: the adapter knows RETURN, which the
\* bridge does not, and neither REJECT nor sctp, which the bridge does.  An
\* agent may only drop.
Admissible(s, b) ==
  /\ b.action \in {"ACCEPT", "DROP", "RETURN"}
  /\ b.protocol \in {"tcp", "udp", "icmp", "all"}
  /\ b.source \in Sources
  /\ ctx[s].onap = "AGENT" => b.action = "DROP"

\* Mutant: the source the client gives is left as it is.
Unstamped(s, b) == b
\* An agent's rule is stamped as such.
Stamped(s, b) ==
  IF ctx[s].onap = "AGENT" THEN [b EXCEPT !.source = "agent"] ELSE b

\* Mutant: straight to the session's own channel.
OwnChannel(s, b) == ctx[s].channel
\* The administrator's channel to the leaf of the rule's zone; failing that,
\* the session's own, to whatever leaf it goes.
PushChannel(s, b) ==
  IF ZoneChannel(b.src) # None THEN ZoneChannel(b.src) ELSE ctx[s].channel

AtPush(s) ==
  /\ state[s] = "edit" /\ todo[s] # <<>>
  /\ Entry(s).op = "push" /\ Entry(s).id # None

\* No rule-id, or a body the adapter or the bridge refuses, or no bridge.
Refuse(s) ==
  /\ state[s] = "edit" /\ todo[s] # <<>>
  /\ \/ Entry(s).id = None
     \/ /\ AtPush(s)
        /\ LET b == Stamped(s, Entry(s).body) IN
           ~Admissible(s, Entry(s).body) \/ ~Accepts(PushChannel(s, b), b)
  /\ Answer(s, "error")
  /\ UNCHANGED <<pool, leafVars, policies, alone, rest, late, bounds>>

\* The Set of a push takes effect at the bridge.
PushRule(s) ==
  LET b == Stamped(s, Entry(s).body)
      c == PushChannel(s, b) IN
  /\ AtPush(s) /\ Admissible(s, Entry(s).body) /\ Accepts(c, b)
  /\ Put(c, Entry(s).id, b)
  /\ Disturbs(s)
  /\ NextEntry(s)
  /\ UNCHANGED <<pool, up, policies, rest, late, requests, faults, updates>>

\* Mutant: only the leaf the pool lists first.
FirstAdmin(s) ==
  IF AdminChannels = <<>> THEN <<ctx[s].channel>> ELSE <<Head(AdminChannels)>>
\* _delete_rule goes to every leaf it is connected to as administrator, or
\* with none to the session's own.
DeleteChannels(s) ==
  IF AdminChannels # <<>> THEN AdminChannels ELSE <<ctx[s].channel>>

BeginDelete(s) ==
  /\ state[s] = "edit" /\ todo[s] # <<>>
  /\ Entry(s).op = "delete" /\ Entry(s).id # None
  /\ state' = [state EXCEPT ![s] = "delete"]
  /\ left' = [left EXCEPT ![s] = DeleteChannels(s)]
  /\ failed' = [failed EXCEPT ![s] = FALSE]
  /\ UNCHANGED <<pool, leafVars, policies, ctx, todo, reply, asked, alone,
                 rest, late, bounds>>

\* Mutant: a leaf that failed is called again.
CalledAgain(s, bad) ==
  IF bad THEN UNCHANGED <<state, ctx, todo, left, failed, reply, asked>>
  ELSE IF Tail(left[s]) # <<>>
  THEN /\ left' = [left EXCEPT ![s] = Tail(@)]
       /\ UNCHANGED <<state, ctx, todo, failed, reply, asked>>
  ELSE NextEntry(s)

\* One call of a delete is over: on to the next leaf, the next entry, or the
\* error reply that names the leaves that failed.
DeleteCalled(s, bad) ==
  LET rest_ == Tail(left[s])
      any   == failed[s] \/ bad IN
  IF rest_ # <<>>
  THEN /\ left' = [left EXCEPT ![s] = rest_]
       /\ failed' = [failed EXCEPT ![s] = any]
       /\ UNCHANGED <<state, ctx, todo, reply, asked>>
  ELSE IF any THEN Answer(s, "error") ELSE NextEntry(s)

DeleteRule(s) ==
  /\ state[s] = "delete" /\ Deletes(Head(left[s]))
  /\ Drop(Head(left[s]), Entry(s).id)
  /\ Disturbs(s)
  /\ DeleteCalled(s, FALSE)
  /\ UNCHANGED <<pool, up, policies, rest, late, requests, faults, updates>>

DeleteFails(s) ==
  /\ state[s] = "delete" /\ ~Deletes(Head(left[s]))
  /\ DeleteCalled(s, TRUE)
  /\ UNCHANGED <<pool, leafVars, policies, alone, rest, late, bounds>>

-----------------------------------------------------------------------------
(* A Set whose answer is lost or late is an error to its caller, and may   *)
(* take effect afterwards, when the bridge's worker gets to it, or never.  *)

Unanswered(m) ==
  /\ faults < MaxFaults /\ faults' = faults + 1
  /\ m.channel[2] \in up
  /\ late' = late \cup {m}

PushUnanswered(s) ==
  LET b == Stamped(s, Entry(s).body) IN
  /\ AtPush(s) /\ Admissible(s, Entry(s).body)
  /\ Unanswered(Call(PushChannel(s, b), "push", Entry(s).id, b, ctx[s].onap))
  /\ Answer(s, "error")
  /\ UNCHANGED <<pool, leafVars, policies, alone, rest, requests, updates>>

DeleteUnanswered(s) ==
  /\ state[s] = "delete"
  /\ Unanswered(Call(Head(left[s]), "delete", Entry(s).id, None, ctx[s].onap))
  /\ DeleteCalled(s, TRUE)
  /\ UNCHANGED <<pool, leafVars, policies, alone, rest, requests, updates>>

Carry(m) ==
  \/ /\ m.op = "push" /\ Accepts(m.channel, m.body)
     /\ Put(m.channel, m.id, m.body)
  \/ /\ m.op = "delete" /\ Deletes(m.channel)
     /\ Drop(m.channel, m.id)

Lands(m) ==
  /\ Carry(m)
  /\ late' = late \ {m}
  /\ Disturbs(None)
  /\ UNCHANGED <<pool, up, policies, sessionVars, rest, bounds>>

-----------------------------------------------------------------------------
(* /api/rules: nobody's role is looked at and nothing is stamped.  Whether *)
(* the response reports success is left out.                               *)

\* The administrator's channel to the leaf of the rule's zone, and no other;
\* the first one connected when there is no such zone.
PostChannel(net) ==
  IF ZoneLeaf(net) = None THEN AnyChannel("admin") ELSE ZoneChannel(net)

Posted(p) ==
  /\ requests < MaxRequests /\ requests' = requests + 1
  /\ p.body.action \in {"ACCEPT", "DROP", "RETURN"}
  /\ PostChannel(p.body.src) # None

PostRule(p) ==
  /\ Posted(p) /\ Accepts(PostChannel(p.body.src), p.body)
  /\ Put(PostChannel(p.body.src), p.id, p.body)
  /\ Disturbs(None)
  /\ UNCHANGED <<pool, up, policies, sessionVars, rest, late, faults, updates>>

PostUnanswered(p) ==
  /\ Posted(p)
  /\ Unanswered(Call(PostChannel(p.body.src), "push", p.id, p.body, None))
  /\ UNCHANGED <<pool, leafVars, policies, sessionVars, alone, rest, updates>>

BeginRestDelete(h, id) ==
  /\ rest[h] = NoDelete /\ AdminChannels # <<>>
  /\ requests < MaxRequests /\ requests' = requests + 1
  /\ rest' = [rest EXCEPT ![h] = [id |-> id, left |-> AdminChannels]]
  /\ UNCHANGED <<pool, leafVars, policies, sessionVars, alone, late, faults,
                 updates>>

RestCalled(h) ==
  rest' = [rest EXCEPT ![h] =
             IF Len(@.left) = 1 THEN NoDelete
             ELSE [id |-> @.id, left |-> Tail(@.left)]]

\* Lands on this leaf or fails; either way the next one is called.
RestDelete(h) ==
  /\ rest[h] # NoDelete
  /\ IF Deletes(Head(rest[h].left))
     THEN Drop(Head(rest[h].left), rest[h].id) /\ Disturbs(None)
     ELSE UNCHANGED <<store, alone>>
  /\ RestCalled(h)
  /\ UNCHANGED <<pool, up, policies, sessionVars, late, bounds>>

RestUnanswered(h) ==
  /\ rest[h] # NoDelete
  /\ Unanswered(Call(Head(rest[h].left), "delete", rest[h].id, None, None))
  /\ RestCalled(h)
  /\ UNCHANGED <<pool, leafVars, policies, sessionVars, alone, requests,
                 updates>>

-----------------------------------------------------------------------------
(* /policy.                                                                *)

UpdatePolicy(r, u) ==
  /\ updates < MaxUpdates /\ updates' = updates + 1
  /\ policies' =
       [policies EXCEPT ![r] = Updated(@, u.allowed, u.default, None)]
  /\ UNCHANGED <<pool, leafVars, sessionVars, alone, rest, late, requests,
                 faults>>

ResetPolicies ==
  /\ updates < MaxUpdates /\ updates' = updates + 1
  /\ policies' = DefaultPolicies
  /\ UNCHANGED <<pool, leafVars, sessionVars, alone, rest, late, requests,
                 faults>>

-----------------------------------------------------------------------------
(* What fails.  A bridge that goes down takes the Sets it has not carried  *)
(* out with it; its channel stays in the pool, where no push or delete     *)
(* notices.  (GET /interfaces, which is left out, takes the channel that   *)
(* fails it out of the pool, as if a start had not reached that leaf.)     *)

LeafDown(l) ==
  /\ l \in up /\ faults < MaxFaults /\ faults' = faults + 1
  /\ up' = up \ {l}
  /\ late' = {m \in late : m.channel[2] # l}
  /\ UNCHANGED <<pool, store, policies, sessionVars, alone, rest, requests,
                 updates>>

LeafUp(l) ==
  /\ l \notin up
  /\ up' = up \cup {l}
  /\ UNCHANGED <<pool, store, policies, sessionVars, alone, rest, late, bounds>>

\* The process starts again: sessions, requests and policy updates are gone,
\* and the pool holds what can be reached now.  Calls of a killed process may
\* still take effect: those count as unanswered before it.
Restart ==
  /\ faults < MaxFaults /\ faults' = faults + 1
  /\ pool' \in {p \in Pools \ {{}} : \A c \in p : c[2] \in up}
  /\ policies' = DefaultPolicies
  /\ state' = [s \in Sessions |-> "closed"]
  /\ ctx' = [s \in Sessions |-> NoContext]
  /\ todo' = [s \in Sessions |-> <<>>]
  /\ left' = [s \in Sessions |-> <<>>]
  /\ failed' = [s \in Sessions |-> FALSE]
  /\ reply' = [s \in Sessions |-> None]
  /\ asked' = [s \in Sessions |-> <<>>]
  /\ alone' = [s \in Sessions |-> FALSE]
  /\ rest' = [h \in Handlers |-> NoDelete]
  /\ UNCHANGED <<leafVars, late, requests, updates>>

-----------------------------------------------------------------------------
OrganisationalUnits == {"internal", "sdnc", "aws", "auto", None}

Handle(s) ==
  \/ Done(s) \/ Refuse(s) \/ PushRule(s)
  \/ BeginDelete(s) \/ DeleteRule(s) \/ DeleteFails(s)

Client(s) ==
  \/ \E ou \in OrganisationalUnits : Accept(s, ou)
  \/ ReadAllowed(s) \/ ReadDefault(s) \/ Close(s)
  \/ \E q \in Requests : EditConfig(s, q)

Rest ==
  \/ \E p \in Posts : PostRule(p) \/ PostUnanswered(p)
  \/ \E h \in Handlers :
       \/ \E id \in RuleIds : BeginRestDelete(h, id)
       \/ RestDelete(h) \/ RestUnanswered(h)
  \/ \E r \in OnapRoles, u \in PolicyUpdates : UpdatePolicy(r, u)
  \/ ResetPolicies

Failures ==
  \/ \E s \in Sessions : PushUnanswered(s) \/ DeleteUnanswered(s)
  \/ \E m \in late : Lands(m)
  \/ \E l \in Leaves : LeafDown(l) \/ LeafUp(l)
  \/ Restart

Next == (\E s \in Sessions : Handle(s) \/ Client(s)) \/ Rest \/ Failures

Spec == Init /\ [][Next]_vars

\* A thread that runs gets on with its request: every call to a bridge comes
\* back with an answer or an error.
FairSpec == Spec /\ \A s \in Sessions : WF_vars(Handle(s))

-----------------------------------------------------------------------------
(* Properties.                                                             *)

ContextType ==
  [onap : OnapRoles \cup {None}, allowed : AllowedLists,
   sonic : SonicRoles \cup {None}, channel : Channels \cup {None}]
CallType ==
  [channel : Channels, op : {"push", "delete"}, id : RuleIds,
   body : BodyType \cup {None}, onap : OnapRoles \cup {None}]

\* Every variable in its range; above all, a leaf only ever holds rules whose
\* fields its validators know, whoever sent them and however late.
TypeOK ==
  /\ pool \subseteq Channels /\ pool # {}
  /\ up \subseteq Leaves
  /\ store \in [Leaves -> [RuleIds -> RuleType \cup {None}]]
  /\ policies \in [OnapRoles -> PolicyType]
  /\ state \in [Sessions -> {"closed", "reading", "opening", "ready", "edit",
                             "delete"}]
  /\ ctx \in [Sessions -> ContextType]
  /\ todo \in [Sessions -> Seq(EntryType)]
  /\ asked \in [Sessions -> Seq(EntryType)]
  /\ left \in [Sessions -> Seq(Channels)]
  /\ failed \in [Sessions -> BOOLEAN]
  /\ reply \in [Sessions -> {"ok", "error", None}]
  /\ alone \in [Sessions -> BOOLEAN]
  /\ rest \in [Handlers -> [id : RuleIds \cup {None}, left : Seq(Channels)]]
  /\ late \subseteq CallType
  /\ requests \in 0..MaxRequests
  /\ faults \in 0..MaxFaults
  /\ updates \in 0..MaxUpdates

AgentDrop(r) == r.action = "DROP" /\ r.source = "agent"
Changed(l, id) == store'[l][id] \notin {None, store[l][id]}

\* What a changed rule looks like after an agent's push, or its late Set.
AgentsDrop(l, id) ==
  Changed(l, id) =>
    /\ \A s \in Sessions :
         ctx[s].onap = "AGENT" /\ todo'[s] # todo[s] => AgentDrop(store'[l][id])
    /\ \A m \in late \ late' : m.onap = "AGENT" => AgentDrop(store'[l][id])

AgentStep == \A l \in Leaves, id \in RuleIds : AgentsDrop(l, id)

\* An agent's session leaves no rule anywhere that does more than drop, or
\* that hides where it comes from: not by a push, nor by one that lands after
\* its session has been told of an error (netconf_gnmi_adapter.py, 251-260).
AgentAddsOnlyDrops == [][AgentStep]_vars

\* A new rule of a zone, or one that changes zones, goes to the zone's leaf if
\* the pool has the administrator's channel to it.
Routed(l, id) ==
  LET owner == ZoneLeaf(store'[l][id].src) IN
  /\ Changed(l, id) /\ late' = late
  /\ owner # None /\ ChannelOf("admin", owner) \in pool
  /\ store[l][id] = None \/ store[l][id].src # store'[l][id].src
  => l = owner

RouteStep == \A l \in Leaves, id \in RuleIds : Routed(l, id)

\* While the pool has the administrator's channel to the leaf that owns a
\* zone, the rules of the zone go to that leaf, from whichever interface:
\* no fallback sends one elsewhere.  A call issued under an earlier pool may
\* still land (nos_gnmi_pool.py, 162-171; role_api.py, 522-528).
RoutedByZone == [][RouteStep]_vars

IndicesOf(q, id) == {i \in DOMAIN q : q[i].id = id}
\* The entry of q that decides about a name.
LastEntry(q, id) ==
  q[CHOOSE i \in IndicesOf(q, id) : \A j \in IndicesOf(q, id) : j <= i]

InEffect(s, e) ==
  IF e.op = "delete" THEN \A l \in Leaves : store[l][e.id] = None
  ELSE \E l \in Leaves :
         /\ store[l][e.id] # None
         /\ HashSet(store[l][e.id], Stamped(s, e.body)) = store[l][e.id]

\* With both leaves connected, an edit-config answered ok is in effect, all of
\* it, as long as nobody else writes: what it pushed is on a leaf, what it
\* deleted is on none (netconf_gnmi_adapter.py, 136-171 and 314-339).
AckedInForce ==
  \A s \in Sessions :
    /\ reply[s] = "ok" /\ alone[s]
    /\ \A l \in Leaves : ChannelOf("admin", l) \in pool
    => \A i \in DOMAIN asked[s] :
         InEffect(s, LastEntry(asked[s], asked[s][i].id))

\* An ok to a delete means the rule is gone, from both leaves, whatever the
\* pool is connected to (netconf_gnmi_adapter.py, 315).
AckedDeleteGone ==
  \A s \in Sessions :
    reply[s] = "ok" /\ alone[s] =>
      \A i \in DOMAIN asked[s] :
        LET e == LastEntry(asked[s], asked[s][i].id) IN
        e.op = "delete" => InEffect(s, e)

\* Whatever the updates, with or without a list and with or without a
\* default, the role a session would get is one it may have, unless none is
\* (role_policy.py, 130-148).
DefaultAllowed ==
  \A r \in OnapRoles :
    policies[r].allowed = <<>> \/ Holds(policies[r].allowed, policies[r].default)

\* Every edit-config is answered, or its session is gone, whatever the
\* bridges do (netconf_session.py, 355-368).
Answered ==
  \A s \in Sessions :
    state[s] \in {"edit", "delete"} ~> state[s] \in {"ready", "closed"}

=============================================================================
