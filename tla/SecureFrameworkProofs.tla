------------------------ MODULE SecureFrameworkProofs ------------------------
(***************************************************************************)
(* Proofs about SecureFramework for every set of names, bodies, requests,  *)
(* sessions and REST handlers, every zone map, and every bound.            *)
(***************************************************************************)
EXTENDS SecureFramework, SequenceTheorems, NaturalsInduction,
        WellFoundedInduction, TLAPS

-----------------------------------------------------------------------------
(* Operators.                                                              *)

\* A rule in range, stored over another one, is in range.
LEMMA HashSetType ==
  ASSUME NEW old \in RuleType \cup {None}, NEW b \in BodyType, ValidRule(b)
  PROVE  /\ HashSet(old, b) \in RuleType
         /\ HashSet(old, b).action = b.action
         /\ HashSet(old, b).source = b.source
         /\ old = None => HashSet(old, b).src = b.src
         /\ old # None => HashSet(old, b).src = IF b.src = None THEN old.src
                                                ELSE b.src
<1>1. b \in RuleType
  BY DEF ValidRule, BodyType, RuleType
<1>2. CASE old = None
  BY <1>1, <1>2 DEF HashSet
<1>3. CASE old # None
  BY <1>1, <1>3 DEF HashSet, RuleType
<1> QED
  BY <1>2, <1>3

\* Stamping a body leaves a body, with the action it had.
LEMMA StampedType ==
  ASSUME NEW s, NEW b \in BodyType
  PROVE  /\ Stamped(s, b) \in BodyType
         /\ Stamped(s, b).action = b.action
         /\ Stamped(s, b).src = b.src
         /\ ctx[s].onap = "AGENT" => Stamped(s, b).source = "agent"
<1>1. [b EXCEPT !.source = "agent"] \in BodyType
  BY BodiesAssumption DEF BodyType
<1>2. /\ [b EXCEPT !.source = "agent"].action = b.action
      /\ [b EXCEPT !.source = "agent"].src = b.src
      /\ [b EXCEPT !.source = "agent"].source = "agent"
  BY DEF BodyType
<1> QED
  BY <1>1, <1>2 DEF Stamped

\* Every channel a call may go to is a key of the pool.
LEMMA ChannelTypes ==
  ASSUME TypeOK
  PROVE  /\ \A role : AnyChannel(role) \in Channels \cup {None}
         /\ \A net : ZoneChannel(net) \in Channels \cup {None}
         /\ \A net : PostChannel(net) \in Channels \cup {None}
         /\ AdminChannels \in Seq(Channels)
<1>1. pool \subseteq Channels
  BY DEF TypeOK
<1>2. /\ \A role : AnyChannel(role) \in Channels \cup {None}
      /\ \A net : ZoneChannel(net) \in Channels \cup {None}
  BY <1>1 DEF AnyChannel, ZoneChannel
<1>3. \A net : PostChannel(net) \in Channels \cup {None}
  BY <1>2 DEF PostChannel
<1>4. \A c : IfConnected(c) \in Seq(Channels)
  BY <1>1 DEF IfConnected
<1> QED
  BY <1>2, <1>3, <1>4, ConcatProperties DEF AdminChannels

\* A valid body put under a name, or a name dropped, leaves rules in range.
LEMMA StoreType ==
  ASSUME TypeOK, NEW c \in Channels, NEW id \in RuleIds
  PROVE  /\ Drop(c, id) => store' \in [Leaves -> [RuleIds -> RuleType \cup {None}]]
         /\ \A b \in BodyType :
              Put(c, id, b) /\ ValidRule(b) =>
                store' \in [Leaves -> [RuleIds -> RuleType \cup {None}]]
<1>1. store \in [Leaves -> [RuleIds -> RuleType \cup {None}]]
  BY DEF TypeOK
<1>2. c[2] \in Leaves
  BY DEF Channels
<1>3. ASSUME NEW b \in BodyType, Put(c, id, b), ValidRule(b)
      PROVE  store' \in [Leaves -> [RuleIds -> RuleType \cup {None}]]
  <2>1. HashSet(store[c[2]][id], b) \in RuleType
    BY <1>1, <1>2, <1>3, HashSetType
  <2> QED
    BY <1>1, <1>3, <2>1 DEF Put
<1> QED
  BY <1>1, <1>3 DEF Drop

-----------------------------------------------------------------------------
(* The invariant.                                                          *)

\* Where a session is says what it has: a role once it is accepted, a channel
\* once it is ready, and in a delete the entry and a leaf left to call.
Poised(s) ==
  /\ state[s] # "closed" => ctx[s].onap # None
  /\ state[s] \in {"ready", "edit", "delete"} => ctx[s].channel # None
  /\ state[s] = "delete" =>
       /\ todo[s] # <<>> /\ left[s] # <<>>
       /\ Entry(s).op = "delete" /\ Entry(s).id # None
SessionsPoised == \A s \in Sessions : Poised(s)

\* A REST delete in progress has a name and a leaf left to call.
RestPoised ==
  \A h \in Handlers :
    rest[h] # NoDelete => rest[h].id \in RuleIds /\ rest[h].left # <<>>

\* What an agent's session has sent, and nobody waits for, only drops.
LateStamped ==
  \A m \in late : m.op = "push" =>
    m.body # None /\ (m.onap = "AGENT" => AgentDrop(m.body))

IInv == TypeOK /\ SessionsPoised /\ RestPoised /\ LateStamped /\ DefaultAllowed

\* The engine starts with defaults that are allowed, and an update leaves them so.
LEMMA PolicyTypes ==
  /\ DefaultPolicies \in [OnapRoles -> PolicyType]
  /\ \A r \in OnapRoles : Holds(DefaultPolicies[r].allowed, DefaultPolicies[r].default)
  /\ \A p \in PolicyType, u \in PolicyUpdates :
       LET q == Updated(p, u.allowed, u.default, None) IN
       /\ q \in PolicyType
       /\ q.allowed = <<>> \/ Holds(q.allowed, q.default)
<1>1. /\ <<"admin", "operator">> \in AllowedLists
      /\ <<"operator">> \in AllowedLists /\ <<"admin">> \in AllowedLists
  BY DEF AllowedLists
<1>2. /\ Holds(<<"admin", "operator">>, "admin")
      /\ Holds(<<"operator">>, "operator") /\ Holds(<<"admin">>, "admin")
  BY DEF Holds
<1>3. ASSUME NEW list \in AllowedLists, list # <<>>
      PROVE  Head(list) \in SonicRoles /\ Holds(list, Head(list))
  BY <1>3 DEF AllowedLists, SonicRoles, Holds
<1>4. ASSUME NEW p \in PolicyType, NEW u \in PolicyUpdates
      PROVE  LET q == Updated(p, u.allowed, u.default, None) IN
             /\ q \in PolicyType
             /\ q.allowed = <<>> \/ Holds(q.allowed, q.default)
  <2> DEFINE list == Given(u.allowed, p.allowed, None)
             role == Given(u.default, p.default, None)
  <2>1. list \in AllowedLists /\ role \in SonicRoles
    BY UpdatesAssumption DEF Given, PolicyType
  <2>2. "operator" \in SonicRoles
    BY DEF SonicRoles
  <2>3. Updated(p, u.allowed, u.default, None) =
          [allowed |-> list,
           default |-> IF Holds(list, role) THEN role
                       ELSE IF list # <<>> THEN Head(list) ELSE "operator"]
    BY DEF Updated
  <2> HIDE DEF list, role
  <2> QED
    BY <1>3, <2>1, <2>2, <2>3 DEF PolicyType
<1> QED
  BY <1>1, <1>2, <1>4 DEF DefaultPolicies, OnapRoles, SonicRoles, PolicyType

-----------------------------------------------------------------------------
(* What a step does to the sessions.                                       *)

\* TypeOK's part about sessions.
SessionTypes ==
  /\ state \in [Sessions -> {"closed", "reading", "opening", "ready", "edit",
                             "delete"}]
  /\ ctx \in [Sessions -> ContextType]
  /\ todo \in [Sessions -> Seq(EntryType)]
  /\ asked \in [Sessions -> Seq(EntryType)]
  /\ left \in [Sessions -> Seq(Channels)]
  /\ failed \in [Sessions -> BOOLEAN]
  /\ reply \in [Sessions -> {"ok", "error", None}]

\* The entry a session is at, and the rule it stands for.
LEMMA EntryFacts ==
  ASSUME TypeOK, NEW s \in Sessions, todo[s] # <<>>
  PROVE  /\ Entry(s) \in EntryType
         /\ Entry(s).id \in RuleIds \cup {None}
         /\ Entry(s).op = "push" => Entry(s).body \in BodyType
         /\ Tail(todo[s]) \in Seq(EntryType)
<1>1. todo[s] \in Seq(EntryType)
  BY DEF TypeOK
<1>2. Entry(s) \in EntryType /\ Tail(todo[s]) \in Seq(EntryType)
  BY <1>1, HeadTailProperties DEF Entry
<1>3. \A e \in EntryType : /\ e.id \in RuleIds \cup {None}
                           /\ e.op = "push" => e.body \in BodyType
  BY BodiesAssumption DEF EntryType
<1> QED
  BY <1>2, <1>3

\* An answer ends the edit-config.
LEMMA AnswerKeeps ==
  ASSUME TypeOK, SessionsPoised, NEW s \in Sessions, NEW what \in {"ok", "error"},
         state[s] \in {"edit", "delete"}, Answer(s, what)
  PROVE  SessionTypes' /\ SessionsPoised'
<1>1. <<>> \in Seq(EntryType) /\ <<>> \in Seq(Channels)
  OBVIOUS
<1>2. SessionTypes'
  BY <1>1 DEF Answer, TypeOK, SessionTypes
<1>3. ASSUME NEW t \in Sessions PROVE Poised(t)'
  BY <1>3 DEF Answer, TypeOK, SessionsPoised, Poised, Entry
<1> QED
  BY <1>2, <1>3 DEF SessionsPoised

\* The next entry is the rest of the list's first.
LEMMA NextEntryKeeps ==
  ASSUME TypeOK, SessionsPoised, NEW s \in Sessions, todo[s] # <<>>,
         state[s] \in {"edit", "delete"}, NextEntry(s)
  PROVE  SessionTypes' /\ SessionsPoised'
<1>1. <<>> \in Seq(Channels) /\ Tail(todo[s]) \in Seq(EntryType)
  BY EntryFacts
<1>2. SessionTypes'
  BY <1>1 DEF NextEntry, TypeOK, SessionTypes
<1>3. ASSUME NEW t \in Sessions PROVE Poised(t)'
  BY <1>3 DEF NextEntry, TypeOK, SessionsPoised, Poised, Entry
<1> QED
  BY <1>2, <1>3 DEF SessionsPoised

\* A delete goes on to the next leaf, or ends.
LEMMA DeleteCalledKeeps ==
  ASSUME TypeOK, SessionsPoised, NEW s \in Sessions, NEW bad \in BOOLEAN,
         state[s] = "delete", DeleteCalled(s, bad)
  PROVE  SessionTypes' /\ SessionsPoised'
<1>1. todo[s] # <<>> /\ left[s] # <<>> /\ left[s] \in Seq(Channels)
  BY DEF SessionsPoised, Poised, TypeOK
<1>2. Tail(left[s]) \in Seq(Channels)
  BY <1>1, HeadTailProperties
<1>3. CASE Tail(left[s]) # <<>>
  <2>1. /\ left' = [left EXCEPT ![s] = Tail(@)]
        /\ failed' = [failed EXCEPT ![s] = failed[s] \/ bad]
        /\ UNCHANGED <<state, ctx, todo, reply, asked>>
    BY <1>3 DEF DeleteCalled
  <2>2. (failed[s] \/ bad) \in BOOLEAN
    BY DEF TypeOK
  <2>3. SessionTypes'
    BY <1>2, <2>1, <2>2 DEF TypeOK, SessionTypes
  <2>4. ASSUME NEW t \in Sessions PROVE Poised(t)'
    BY <1>3, <2>1 DEF TypeOK, SessionsPoised, Poised, Entry
  <2> QED
    BY <2>3, <2>4 DEF SessionsPoised
<1>4. CASE Tail(left[s]) = <<>>
  <2>1. Answer(s, "error") \/ NextEntry(s)
    BY <1>4 DEF DeleteCalled
  <2> QED
    BY <1>1, <2>1, AnswerKeeps, NextEntryKeeps
<1> QED
  BY <1>3, <1>4

\* What a session knows, put together from its parts.
LEMMA ContextMade ==
  ASSUME NEW o \in OnapRoles \cup {None}, NEW a \in AllowedLists,
         NEW r \in SonicRoles \cup {None}, NEW d \in Channels \cup {None}
  PROVE  [onap |-> o, allowed |-> a, sonic |-> r, channel |-> d] \in ContextType
BY DEF ContextType

\* A session between requests: accepted, given its context, closed, asked.
LEMMA ClientKeeps ==
  ASSUME IInv, NEW s \in Sessions, Client(s)
  PROVE  SessionTypes' /\ SessionsPoised'
<1>1. /\ SessionTypes /\ SessionsPoised
      /\ policies \in [OnapRoles -> PolicyType]
  BY DEF IInv, TypeOK, SessionTypes
<1>2. NoContext \in ContextType
  BY DEF NoContext, ContextType, AllowedLists
<1>3. <<>> \in Seq(EntryType)
  OBVIOUS
<1>4. ASSUME NEW ou, Accept(s, ou)
      PROVE  SessionTypes' /\ SessionsPoised'
  <2>1. OnapRoleOf(ou) \in OnapRoles
    BY <1>4 DEF Accept, OnapRoleOf, RoleOf, OnapRoles
  <2>2. [ctx[s] EXCEPT !.onap = OnapRoleOf(ou)] \in ContextType
    <3>1. ctx[s] \in ContextType
      BY <1>1 DEF SessionTypes
    <3> QED
      BY <2>1, <3>1, SMTT(30) DEF ContextType
  <2>3. ctx' = [ctx EXCEPT ![s] = [ctx[s] EXCEPT !.onap = OnapRoleOf(ou)]]
    BY <1>4 DEF Accept
  <2>4. ctx'[s].onap # None
    <3>1. [ctx[s] EXCEPT !.onap = OnapRoleOf(ou)].onap = OnapRoleOf(ou)
      BY <1>1 DEF SessionTypes, ContextType
    <3>2. ctx'[s] = [ctx[s] EXCEPT !.onap = OnapRoleOf(ou)]
      BY <1>1, <2>3 DEF SessionTypes
    <3> QED
      BY <2>1, <3>1, <3>2, NoneAssumption
  <2>5. SessionTypes'
    BY <1>1, <1>3, <1>4, <2>2, <2>3 DEF Accept, SessionTypes
  <2>6. ASSUME NEW t \in Sessions PROVE Poised(t)'
    BY <1>1, <1>4, <2>3, <2>4
    DEF Accept, SessionTypes, SessionsPoised, Poised, Entry
  <2> QED
    BY <2>5, <2>6 DEF SessionsPoised
<1>5. ASSUME ReadAllowed(s)
      PROVE  SessionTypes' /\ SessionsPoised'
  <2> DEFINE c == [ctx[s] EXCEPT !.allowed = policies[ctx[s].onap].allowed]
  <2>1. ctx[s] \in ContextType /\ ctx[s].onap # None
    BY <1>1, <1>5 DEF ReadAllowed, SessionTypes, SessionsPoised, Poised
  <2>2. policies[ctx[s].onap].allowed \in AllowedLists
    BY <1>1, <2>1 DEF ContextType, PolicyType
  <2>3. c \in ContextType /\ c.onap # None
    BY <2>1, <2>2 DEF ContextType
  <2>4. ctx' = [ctx EXCEPT ![s] = c]
    BY <1>5 DEF ReadAllowed
  <2> HIDE DEF c
  <2>5. SessionTypes'
    BY <1>1, <1>5, <2>3, <2>4 DEF ReadAllowed, SessionTypes
  <2>6. ASSUME NEW t \in Sessions PROVE Poised(t)'
    BY <1>1, <1>5, <2>3, <2>4
    DEF ReadAllowed, SessionTypes, SessionsPoised, Poised, Entry
  <2> QED
    BY <2>5, <2>6 DEF SessionsPoised
<1>6. ASSUME ReadDefault(s)
      PROVE  SessionTypes' /\ SessionsPoised'
  <2> DEFINE none  == ctx[s].allowed = <<>>
             sonic == IF none THEN "operator" ELSE policies[ctx[s].onap].default
             d     == AnyChannel(sonic)
             list  == IF none THEN <<"operator">> ELSE ctx[s].allowed
             c     == [onap |-> ctx[s].onap, allowed |-> list,
                       sonic |-> sonic, channel |-> d]
  <2>1. ctx[s] \in ContextType /\ ctx[s].onap # None
    BY <1>1, <1>6 DEF ReadDefault, SessionTypes, SessionsPoised, Poised
  <2>2. sonic \in SonicRoles /\ <<"operator">> \in AllowedLists
    BY <1>1, <2>1 DEF ContextType, PolicyType, SonicRoles, AllowedLists
  <2>3. d \in Channels \cup {None}
    BY ChannelTypes DEF IInv
  <2>4. \/ /\ d = None /\ state' = [state EXCEPT ![s] = "closed"]
           /\ ctx' = [ctx EXCEPT ![s] = NoContext]
        \/ /\ d # None /\ state' = [state EXCEPT ![s] = "ready"]
           /\ ctx' = [ctx EXCEPT ![s] = c]
    BY <1>6 DEF ReadDefault
  <2> HIDE DEF sonic, d
  <2>5. c \in ContextType /\ c.onap # None /\ c.channel = d
    <3>1. list \in AllowedLists /\ ctx[s].onap \in OnapRoles \cup {None}
      BY <2>1, <2>2 DEF ContextType
    <3>2. sonic \in SonicRoles \cup {None}
      BY <2>2
    <3>3. c.onap = ctx[s].onap /\ c.channel = d
      OBVIOUS
    <3> HIDE DEF list
    <3>4. c \in ContextType
      BY <2>3, <3>1, <3>2, ContextMade, ZenonT(60)
    <3> QED
      BY <2>1, <3>3, <3>4
  <2>6. state[s] = "opening" /\ UNCHANGED <<todo, left, failed, reply, asked>>
    BY <1>6 DEF ReadDefault
  <2> HIDE DEF c
  <2>7. SessionTypes'
    <3>1. CASE /\ state' = [state EXCEPT ![s] = "closed"]
               /\ ctx' = [ctx EXCEPT ![s] = NoContext]
      BY <1>1, <1>2, <2>6, <3>1 DEF SessionTypes
    <3>2. CASE /\ state' = [state EXCEPT ![s] = "ready"]
               /\ ctx' = [ctx EXCEPT ![s] = c]
      BY <1>1, <2>5, <2>6, <3>2 DEF SessionTypes
    <3> QED
      BY <2>4, <3>1, <3>2
  <2>8. ASSUME NEW t \in Sessions PROVE Poised(t)'
    BY <1>1, <2>4, <2>5, <2>6
    DEF SessionTypes, SessionsPoised, Poised, Entry
  <2> QED
    BY <2>7, <2>8 DEF SessionsPoised
<1>7. ASSUME Close(s)
      PROVE  SessionTypes' /\ SessionsPoised'
  <2>1. SessionTypes'
    BY <1>1, <1>2, <1>7 DEF Close, SessionTypes
  <2>2. ASSUME NEW t \in Sessions PROVE Poised(t)'
    BY <1>1, <1>7 DEF Close, SessionTypes, SessionsPoised, Poised, Entry
  <2> QED
    BY <2>1, <2>2 DEF SessionsPoised
<1>8. ASSUME NEW q \in Requests, EditConfig(s, q)
      PROVE  SessionTypes' /\ SessionsPoised'
  <2>1. q \in Seq(EntryType)
    BY RequestsAssumption
  <2>2. SessionTypes'
    BY <1>1, <1>8, <2>1 DEF EditConfig, SessionTypes
  <2>3. ASSUME NEW t \in Sessions PROVE Poised(t)'
    BY <1>1, <1>8 DEF EditConfig, SessionTypes, SessionsPoised, Poised, Entry
  <2> QED
    BY <2>2, <2>3 DEF SessionsPoised
<1> QED
  BY <1>4, <1>5, <1>6, <1>7, <1>8 DEF Client

\* A session in an edit-config: one entry, or one call, further, or answered.
LEMMA HandleKeeps ==
  ASSUME IInv, NEW s \in Sessions,
         Handle(s) \/ PushUnanswered(s) \/ DeleteUnanswered(s)
  PROVE  SessionTypes' /\ SessionsPoised'
<1>1. TypeOK /\ SessionTypes /\ SessionsPoised
  BY DEF IInv, TypeOK, SessionTypes
<1>2. CASE Done(s)
  BY <1>1, <1>2, AnswerKeeps DEF Done
<1>3. CASE Refuse(s)
  BY <1>1, <1>3, AnswerKeeps DEF Refuse
<1>4. CASE PushRule(s)
  BY <1>1, <1>4, NextEntryKeeps DEF PushRule, AtPush
<1>5. CASE BeginDelete(s)
  <2>1. ctx[s].channel \in Channels
    BY <1>1, <1>5 DEF BeginDelete, SessionTypes, SessionsPoised, Poised,
                      ContextType
  <2>2. DeleteChannels(s) \in Seq(Channels) /\ DeleteChannels(s) # <<>>
    BY <1>1, <2>1, ChannelTypes DEF DeleteChannels
  <2>3. SessionTypes'
    BY <1>1, <1>5, <2>2 DEF BeginDelete, SessionTypes
  <2>4. ASSUME NEW t \in Sessions PROVE Poised(t)'
    BY <1>1, <1>5, <2>2
    DEF BeginDelete, SessionTypes, SessionsPoised, Poised, Entry
  <2> QED
    BY <2>3, <2>4 DEF SessionsPoised
<1>6. CASE DeleteRule(s)
  BY <1>1, <1>6, DeleteCalledKeeps DEF DeleteRule
<1>7. CASE DeleteFails(s)
  BY <1>1, <1>7, DeleteCalledKeeps DEF DeleteFails
<1>8. CASE PushUnanswered(s)
  BY <1>1, <1>8, AnswerKeeps DEF PushUnanswered, AtPush
<1>9. CASE DeleteUnanswered(s)
  BY <1>1, <1>9, DeleteCalledKeeps DEF DeleteUnanswered
<1> QED
  BY <1>2, <1>3, <1>4, <1>5, <1>6, <1>7, <1>8, <1>9 DEF Handle

-----------------------------------------------------------------------------
(* What a step does to the leaves and to the Sets under way.               *)

StoreOK == store \in [Leaves -> [RuleIds -> RuleType \cup {None}]]
LateOK  == late \subseteq CallType /\ LateStamped

\* A push goes to a channel, as a body; an agent's has been made a drop.
LEMMA PushFacts ==
  ASSUME IInv, NEW s \in Sessions, AtPush(s), Admissible(s, Entry(s).body)
  PROVE  LET b == Stamped(s, Entry(s).body) IN
         /\ Entry(s).id \in RuleIds
         /\ b \in BodyType
         /\ PushChannel(s, b) \in Channels
         /\ ctx[s].onap \in OnapRoles
         /\ ctx[s].onap = "AGENT" => AgentDrop(b)
<1> DEFINE b == Stamped(s, Entry(s).body)
<1>1. state[s] = "edit" /\ todo[s] # <<>> /\ Entry(s).op = "push" /\ Entry(s).id # None
  BY DEF AtPush
<1>2. Entry(s).id \in RuleIds /\ Entry(s).body \in BodyType
  BY <1>1, EntryFacts DEF IInv
<1>3. ctx[s].channel \in Channels /\ ctx[s].onap \in OnapRoles
  BY <1>1 DEF IInv, TypeOK, SessionsPoised, Poised, ContextType
<1>4. /\ b \in BodyType /\ b.action = Entry(s).body.action
      /\ ctx[s].onap = "AGENT" => b.source = "agent"
  BY <1>2, StampedType
<1> HIDE DEF b
<1>5. PushChannel(s, b) \in Channels
  BY <1>3, ChannelTypes DEF PushChannel, IInv
<1> QED
  BY <1>1, <1>2, <1>3, <1>4, <1>5 DEF Admissible, AgentDrop, b

\* The next leaf of a delete is a channel, and the name is a rule's.
LEMMA DeleteFacts ==
  ASSUME IInv, NEW s \in Sessions, state[s] = "delete"
  PROVE  /\ Head(left[s]) \in Channels /\ Entry(s).id \in RuleIds
         /\ ctx[s].onap \in OnapRoles
<1>1. /\ todo[s] # <<>> /\ left[s] # <<>> /\ Entry(s).id # None
      /\ left[s] \in Seq(Channels) /\ ctx[s].onap \in OnapRoles
  BY DEF IInv, TypeOK, SessionsPoised, Poised, ContextType
<1> QED
  BY <1>1, EntryFacts, HeadTailProperties DEF IInv

\* The same of a REST delete, and what is left of it after a call.
LEMMA RestFacts ==
  ASSUME IInv, NEW h \in Handlers, rest[h] # NoDelete
  PROVE  /\ Head(rest[h].left) \in Channels /\ rest[h].id \in RuleIds
         /\ RestCalled(h) =>
              /\ rest' \in [Handlers -> [id : RuleIds \cup {None}, left : Seq(Channels)]]
              /\ RestPoised'
<1>1. /\ rest \in [Handlers -> [id : RuleIds \cup {None}, left : Seq(Channels)]]
      /\ RestPoised
  BY DEF IInv, TypeOK
<1>2. rest[h].id \in RuleIds /\ rest[h].left # <<>> /\ rest[h].left \in Seq(Channels)
  BY <1>1 DEF RestPoised
<1>3. /\ Head(rest[h].left) \in Channels /\ Tail(rest[h].left) \in Seq(Channels)
      /\ Len(rest[h].left) # 1 => Tail(rest[h].left) # <<>>
  <2> DEFINE q == rest[h].left
  <2>1. q \in Seq(Channels) /\ q # <<>>
    BY <1>2
  <2> HIDE DEF q
  <2>2. /\ Head(q) \in Channels /\ Tail(q) \in Seq(Channels)
        /\ Len(Tail(q)) = Len(q) - 1 /\ Len(q) \in Nat
    BY <2>1, HeadTailProperties, LenProperties
  <2>3. Len(q) # 1 => Tail(q) # <<>>
    BY <2>2
  <2> QED
    BY <2>2, <2>3 DEF q
<1>4. NoDelete \in [id : RuleIds \cup {None}, left : Seq(Channels)]
  BY DEF NoDelete
<1>5. ASSUME RestCalled(h)
      PROVE  /\ rest' \in [Handlers -> [id : RuleIds \cup {None}, left : Seq(Channels)]]
             /\ RestPoised'
  <2> DEFINE shorter == [id |-> rest[h].id, left |-> Tail(rest[h].left)]
  <2>1. /\ shorter \in [id : RuleIds \cup {None}, left : Seq(Channels)]
        /\ shorter.id = rest[h].id /\ shorter.left = Tail(rest[h].left)
    BY <1>1, <1>2, <1>3
  <2>2. \/ rest' = [rest EXCEPT ![h] = NoDelete]
        \/ Len(rest[h].left) # 1 /\ rest' = [rest EXCEPT ![h] = shorter]
    BY <1>5 DEF RestCalled
  <2> HIDE DEF shorter
  <2> QED
    BY <1>1, <1>2, <1>3, <1>4, <2>1, <2>2 DEF RestPoised
<1> QED
  BY <1>2, <1>3, <1>5

\* What an accepted Set leaves at its leaf.
LEMMA AcceptedType ==
  ASSUME TypeOK, NEW c \in Channels, NEW id \in RuleIds, NEW b \in BodyType,
         Accepts(c, b), Put(c, id, b)
  PROVE  StoreOK'
BY StoreType DEF Accepts, StoreOK

\* Whoever writes to a leaf, and however late, leaves rules in range there.
LEMMA StoreSteps ==
  ASSUME IInv, Next PROVE StoreOK'
<1>1. TypeOK /\ StoreOK
  BY DEF IInv, TypeOK, StoreOK
<1>2. ASSUME NEW s \in Sessions, PushRule(s) PROVE StoreOK'
  BY <1>1, <1>2, PushFacts, AcceptedType DEF PushRule
<1>3. ASSUME NEW s \in Sessions, DeleteRule(s) PROVE StoreOK'
  BY <1>1, <1>3, DeleteFacts, StoreType DEF DeleteRule, StoreOK
<1>4. ASSUME NEW m \in late, Lands(m) PROVE StoreOK'
  <2>1. /\ m.channel \in Channels /\ m.id \in RuleIds
        /\ m.op = "push" => m.body \in BodyType
    BY DEF IInv, TypeOK, LateStamped, CallType
  <2> QED
    BY <1>1, <1>4, <2>1, StoreType, AcceptedType DEF Lands, Carry, StoreOK
<1>5. ASSUME NEW p \in Posts, PostRule(p) PROVE StoreOK'
  <2>1. p.id \in RuleIds /\ p.body \in BodyType
    BY RequestsAssumption, BodiesAssumption
  <2>2. PostChannel(p.body.src) \in Channels
    BY <1>1, <1>5, ChannelTypes DEF PostRule, Posted
  <2> QED
    BY <1>1, <1>5, <2>1, <2>2, AcceptedType DEF PostRule
<1>6. ASSUME NEW h \in Handlers, RestDelete(h) PROVE StoreOK'
  BY <1>1, <1>6, RestFacts, StoreType DEF RestDelete, StoreOK
<1>7. CASE UNCHANGED store
  BY <1>1, <1>7 DEF StoreOK
<1> QED
  BY <1>2, <1>3, <1>4, <1>5, <1>6, <1>7
  DEF Next, Handle, Client, Rest, Failures, Done, Refuse, BeginDelete,
      DeleteFails, Accept, ReadAllowed, ReadDefault, Close, EditConfig,
      PostUnanswered, BeginRestDelete, RestUnanswered, UpdatePolicy,
      ResetPolicies, PushUnanswered, DeleteUnanswered, LeafDown, LeafUp,
      Restart, leafVars

\* A Set whose answer is lost is one of a channel, and an agent's is stamped.
LEMMA LateSteps ==
  ASSUME IInv, Next PROVE LateOK'
<1>1. LateOK
  BY DEF IInv, TypeOK, LateOK
<1>2. ASSUME NEW m \in CallType, late' = late \cup {m},
             m.op = "push" =>
               m.body # None /\ (m.onap = "AGENT" => AgentDrop(m.body))
      PROVE  LateOK'
  BY <1>1, <1>2 DEF LateOK, LateStamped, AgentDrop
<1>3. ASSUME NEW c \in Channels, NEW id \in RuleIds, NEW b \in BodyType,
             NEW onap \in OnapRoles \cup {None}
      PROVE  LET m == Call(c, "push", id, b, onap) IN
             m \in CallType /\ m.body = b /\ m.onap = onap
  BY DEF Call, CallType
<1>4. ASSUME NEW c \in Channels, NEW id \in RuleIds, NEW onap \in OnapRoles \cup {None}
      PROVE  LET m == Call(c, "delete", id, None, onap) IN
             m \in CallType /\ m.op = "delete"
  BY DEF Call, CallType
<1>5. ASSUME NEW s \in Sessions, PushUnanswered(s) PROVE LateOK'
  <2> DEFINE b == Stamped(s, Entry(s).body)
             m == Call(PushChannel(s, b), "push", Entry(s).id, b, ctx[s].onap)
  <2>1. /\ Entry(s).id \in RuleIds /\ b \in BodyType
        /\ PushChannel(s, b) \in Channels /\ ctx[s].onap \in OnapRoles
        /\ ctx[s].onap = "AGENT" => AgentDrop(b)
    BY <1>5, PushFacts DEF PushUnanswered
  <2>2. late' = late \cup {m}
    BY <1>5 DEF PushUnanswered, Unanswered
  <2>3. b # None
    BY <2>1, NoneAssumption
  <2>4. m \in CallType /\ m.body = b /\ m.onap = ctx[s].onap
    BY <1>3, <2>1
  <2> HIDE DEF b, m
  <2> QED
    BY <1>2, <2>1, <2>2, <2>3, <2>4
<1>6. ASSUME NEW s \in Sessions, DeleteUnanswered(s) PROVE LateOK'
  <2> DEFINE m == Call(Head(left[s]), "delete", Entry(s).id, None, ctx[s].onap)
  <2>1. m \in CallType /\ m.op = "delete"
    BY <1>4, <1>6, DeleteFacts DEF DeleteUnanswered
  <2>2. late' = late \cup {m}
    BY <1>6 DEF DeleteUnanswered, Unanswered
  <2> HIDE DEF m
  <2> QED
    BY <1>2, <2>1, <2>2
<1>7. ASSUME NEW p \in Posts, PostUnanswered(p) PROVE LateOK'
  <2> DEFINE m == Call(PostChannel(p.body.src), "push", p.id, p.body, None)
  <2>1. p.id \in RuleIds /\ p.body \in BodyType
    BY RequestsAssumption, BodiesAssumption
  <2>2. PostChannel(p.body.src) \in Channels
    BY <1>7, ChannelTypes DEF PostUnanswered, Posted, IInv
  <2>3. m \in CallType /\ m.body = p.body /\ m.onap = None
    BY <1>3, <2>1, <2>2
  <2>4. late' = late \cup {m}
    BY <1>7 DEF PostUnanswered, Unanswered
  <2>5. p.body # None /\ None # "AGENT"
    BY <2>1, NoneAssumption DEF OnapRoles
  <2> HIDE DEF m
  <2> QED
    BY <1>2, <2>3, <2>4, <2>5
<1>8. ASSUME NEW h \in Handlers, RestUnanswered(h) PROVE LateOK'
  <2> DEFINE m == Call(Head(rest[h].left), "delete", rest[h].id, None, None)
  <2>1. m \in CallType /\ m.op = "delete"
    BY <1>4, <1>8, RestFacts DEF RestUnanswered
  <2>2. late' = late \cup {m}
    BY <1>8 DEF RestUnanswered, Unanswered
  <2> HIDE DEF m
  <2> QED
    BY <1>2, <2>1, <2>2
<1>9. CASE late' \subseteq late
  BY <1>1, <1>9 DEF LateOK, LateStamped, AgentDrop
<1>10. (\E m \in late : Lands(m)) \/ (\E l \in Leaves : LeafDown(l)) => late' \subseteq late
  BY DEF Lands, LeafDown
<1> QED
  BY <1>5, <1>6, <1>7, <1>8, <1>9, <1>10
  DEF Next, Handle, Client, Rest, Failures, Done, Refuse, PushRule, BeginDelete,
      DeleteRule, DeleteFails, Accept, ReadAllowed, ReadDefault, Close,
      EditConfig, PostRule, BeginRestDelete, RestDelete, UpdatePolicy,
      ResetPolicies, LeafUp, Restart

\* A REST delete begins with the leaves connected, and goes through them.
LEMMA RestSteps ==
  ASSUME IInv, Next
  PROVE  /\ rest' \in [Handlers -> [id : RuleIds \cup {None}, left : Seq(Channels)]]
         /\ RestPoised'
<1>1. /\ rest \in [Handlers -> [id : RuleIds \cup {None}, left : Seq(Channels)]]
      /\ RestPoised
  BY DEF IInv, TypeOK
<1>2. ASSUME NEW h \in Handlers, RestDelete(h) \/ RestUnanswered(h)
      PROVE  /\ rest' \in [Handlers -> [id : RuleIds \cup {None}, left : Seq(Channels)]]
             /\ RestPoised'
  BY <1>2, RestFacts DEF RestDelete, RestUnanswered
<1>3. ASSUME NEW h \in Handlers, NEW id \in RuleIds, BeginRestDelete(h, id)
      PROVE  /\ rest' \in [Handlers -> [id : RuleIds \cup {None}, left : Seq(Channels)]]
             /\ RestPoised'
  <2>1. AdminChannels \in Seq(Channels) /\ AdminChannels # <<>>
    BY <1>3, ChannelTypes DEF BeginRestDelete, IInv
  <2>2. rest' = [rest EXCEPT ![h] = [id |-> id, left |-> AdminChannels]]
    BY <1>3 DEF BeginRestDelete
  <2> QED
    BY <1>1, <2>1, <2>2 DEF RestPoised
<1>4. CASE UNCHANGED rest
  BY <1>1, <1>4 DEF RestPoised
<1>5. CASE Restart
  <2>1. <<>> \in Seq(Channels)
    OBVIOUS
  <2>2. NoDelete \in [id : RuleIds \cup {None}, left : Seq(Channels)]
    BY <2>1 DEF NoDelete
  <2>3. rest' = [h \in Handlers |-> NoDelete]
    BY <1>5 DEF Restart
  <2> QED
    BY <2>2, <2>3 DEF RestPoised
<1> QED
  BY <1>2, <1>3, <1>4, <1>5
  DEF Next, Handle, Client, Rest, Failures, Done, Refuse, PushRule, BeginDelete,
      DeleteRule, DeleteFails, Accept, ReadAllowed, ReadDefault, Close,
      EditConfig, PostRule, PostUnanswered, UpdatePolicy, ResetPolicies,
      PushUnanswered, DeleteUnanswered, Lands, LeafDown, LeafUp

\* The pool only changes when the process starts, and is never empty then; the
\* leaves that answer are leaves; nothing exceeds its bound.
LEMMA PoolSteps ==
  ASSUME TypeOK, Next
  PROVE  /\ pool' \subseteq Channels /\ pool' # {}
         /\ up' \subseteq Leaves
         /\ alone' \in [Sessions -> BOOLEAN]
         /\ requests' \in 0..MaxRequests
         /\ faults' \in 0..MaxFaults
         /\ updates' \in 0..MaxUpdates
<1>1. /\ pool \subseteq Channels /\ pool # {} /\ up \subseteq Leaves
      /\ alone \in [Sessions -> BOOLEAN]
      /\ requests \in 0..MaxRequests /\ faults \in 0..MaxFaults
      /\ updates \in 0..MaxUpdates
  BY DEF TypeOK
<1>2. pool' \subseteq Channels /\ pool' # {}
  BY <1>1, ChannelsAssumption
  DEF Next, Handle, Client, Rest, Failures, Done, Refuse, PushRule, BeginDelete,
      DeleteRule, DeleteFails, Accept, ReadAllowed, ReadDefault, Close,
      EditConfig, PostRule, PostUnanswered, BeginRestDelete, RestDelete,
      RestUnanswered, UpdatePolicy, ResetPolicies, PushUnanswered,
      DeleteUnanswered, Lands, LeafDown, LeafUp, Restart
<1>3. up' \subseteq Leaves
  BY <1>1, ZenonT(60)
  DEF Next, Handle, Client, Rest, Failures, Done, Refuse, PushRule, BeginDelete,
      DeleteRule, DeleteFails, Accept, ReadAllowed, ReadDefault, Close,
      EditConfig, PostRule, PostUnanswered, BeginRestDelete, RestDelete,
      RestUnanswered, UpdatePolicy, ResetPolicies, PushUnanswered,
      DeleteUnanswered, Lands, LeafDown, LeafUp, Restart, leafVars
<1>4. alone' \in [Sessions -> BOOLEAN]
  <2>1. \A t : Disturbs(t) => alone' \in [Sessions -> BOOLEAN]
    BY <1>1 DEF Disturbs
  <2> QED
    BY <1>1, <2>1, ZenonT(60)
    DEF Next, Handle, Client, Rest, Failures, Done, Refuse, PushRule,
        BeginDelete, DeleteRule, DeleteFails, Accept, ReadAllowed, ReadDefault,
        Close, EditConfig, PostRule, PostUnanswered, BeginRestDelete,
        RestDelete, RestUnanswered, UpdatePolicy, ResetPolicies,
        PushUnanswered, DeleteUnanswered, Lands, LeafDown, LeafUp, Restart
<1>5. requests' \in 0..MaxRequests
  <2>1. \/ UNCHANGED requests
        \/ \E s \in Sessions, q \in Requests : EditConfig(s, q)
        \/ \E p \in Posts : Posted(p)
        \/ \E h \in Handlers, id \in RuleIds : BeginRestDelete(h, id)
    BY DEF Next, Handle, Client, Rest, Failures, Done, Refuse, PushRule,
        BeginDelete, DeleteRule, DeleteFails, Accept, ReadAllowed,
        ReadDefault, Close, PostRule, PostUnanswered, RestDelete,
        RestUnanswered, UpdatePolicy, ResetPolicies, PushUnanswered,
        DeleteUnanswered, Unanswered, Lands, LeafDown, LeafUp, Restart,
        bounds
  <2>2. ASSUME NEW s \in Sessions, NEW q \in Requests, EditConfig(s, q) PROVE requests' \in 0..MaxRequests
    BY <1>1, <2>2, BoundsAssumption DEF EditConfig
  <2>3. ASSUME NEW p \in Posts, Posted(p) PROVE requests' \in 0..MaxRequests
    BY <1>1, <2>3, BoundsAssumption DEF Posted
  <2>4. ASSUME NEW h \in Handlers, NEW id \in RuleIds,
               BeginRestDelete(h, id)
        PROVE requests' \in 0..MaxRequests
    BY <1>1, <2>4, BoundsAssumption DEF BeginRestDelete
  <2> QED
    BY <1>1, <2>1, <2>2, <2>3, <2>4
<1>6. faults' \in 0..MaxFaults
  <2>1. \/ UNCHANGED faults
        \/ \E m : Unanswered(m)
        \/ \E l \in Leaves : LeafDown(l)
        \/ Restart
    BY ZenonT(60) DEF Next, Handle, Client, Rest, Failures, Done, Refuse, PushRule,
        BeginDelete, DeleteRule, DeleteFails, Accept, ReadAllowed,
        ReadDefault, Close, EditConfig, PostRule, PostUnanswered,
        BeginRestDelete, RestDelete, RestUnanswered, UpdatePolicy,
        ResetPolicies, PushUnanswered, DeleteUnanswered, Lands, LeafUp,
        bounds
  <2>2. ASSUME NEW m, Unanswered(m) PROVE faults' \in 0..MaxFaults
    BY <1>1, <2>2, BoundsAssumption DEF Unanswered
  <2>3. ASSUME NEW l \in Leaves, LeafDown(l) PROVE faults' \in 0..MaxFaults
    BY <1>1, <2>3, BoundsAssumption DEF LeafDown
  <2>4. ASSUME Restart PROVE faults' \in 0..MaxFaults
    BY <1>1, <2>4, BoundsAssumption DEF Restart
  <2> QED
    BY <1>1, <2>1, <2>2, <2>3, <2>4
<1>7. updates' \in 0..MaxUpdates
  <2>1. \/ UNCHANGED updates
        \/ \E r \in OnapRoles, u \in PolicyUpdates : UpdatePolicy(r, u)
        \/ ResetPolicies
    BY ZenonT(60) DEF Next, Handle, Client, Rest, Failures, Done, Refuse, PushRule,
        BeginDelete, DeleteRule, DeleteFails, Accept, ReadAllowed,
        ReadDefault, Close, EditConfig, PostRule, PostUnanswered,
        BeginRestDelete, RestDelete, RestUnanswered, PushUnanswered,
        DeleteUnanswered, Unanswered, Lands, LeafDown, LeafUp, Restart,
        bounds
  <2>2. ASSUME NEW r \in OnapRoles, NEW u \in PolicyUpdates,
               UpdatePolicy(r, u)
        PROVE updates' \in 0..MaxUpdates
    BY <1>1, <2>2, BoundsAssumption DEF UpdatePolicy
  <2>3. ASSUME ResetPolicies PROVE updates' \in 0..MaxUpdates
    BY <1>1, <2>3, BoundsAssumption DEF ResetPolicies
  <2> QED
    BY <1>1, <2>1, <2>2, <2>3
<1> QED
  BY <1>1, <1>2, <1>3, <1>4, <1>5, <1>6, <1>7, BoundsAssumption

\* The engine is reset, or one role's policy is updated.
LEMMA PolicySteps ==
  ASSUME IInv, Next
  PROVE  policies' \in [OnapRoles -> PolicyType] /\ DefaultAllowed'
<1>1. policies \in [OnapRoles -> PolicyType] /\ DefaultAllowed
  BY DEF IInv, TypeOK
<1>2. CASE policies' = DefaultPolicies
  BY <1>2, PolicyTypes DEF DefaultAllowed
<1>3. ASSUME NEW r \in OnapRoles, NEW u \in PolicyUpdates, UpdatePolicy(r, u)
      PROVE  policies' \in [OnapRoles -> PolicyType] /\ DefaultAllowed'
  <2> DEFINE q == Updated(policies[r], u.allowed, u.default, None)
  <2>1. policies[r] \in PolicyType
    BY <1>1
  <2>2. q \in PolicyType /\ (q.allowed = <<>> \/ Holds(q.allowed, q.default))
    BY <2>1, PolicyTypes
  <2>3. policies' = [policies EXCEPT ![r] = q]
    BY <1>3 DEF UpdatePolicy
  <2> HIDE DEF q
  <2> QED
    BY <1>1, <2>2, <2>3 DEF DefaultAllowed
<1>4. CASE UNCHANGED policies
  BY <1>1, <1>4 DEF DefaultAllowed
<1> QED
  BY <1>2, <1>3, <1>4
  DEF Next, Handle, Client, Rest, Failures, Done, Refuse, PushRule, BeginDelete,
      DeleteRule, DeleteFails, Accept, ReadAllowed, ReadDefault, Close,
      EditConfig, PostRule, PostUnanswered, BeginRestDelete, RestDelete,
      RestUnanswered, ResetPolicies, PushUnanswered, DeleteUnanswered, Lands,
      LeafDown, LeafUp, Restart

\* A session's own steps keep the sessions in order, and the others leave them
\* alone or, when the process starts again, closed.
LEMMA SessionSteps ==
  ASSUME IInv, Next
  PROVE  SessionTypes' /\ SessionsPoised'
<1>1. SessionTypes /\ SessionsPoised
  BY DEF IInv, TypeOK, SessionTypes
<1>2. CASE UNCHANGED sessionVars
  BY <1>1, <1>2
  DEF sessionVars, SessionTypes, SessionsPoised, Poised, Entry
<1>3. CASE Restart
  <2>1. /\ <<>> \in Seq(EntryType) /\ <<>> \in Seq(Channels)
        /\ NoContext \in ContextType
    BY DEF NoContext, ContextType, AllowedLists
  <2>2. SessionTypes'
    BY <1>3, <2>1 DEF Restart, SessionTypes
  <2>3. ASSUME NEW t \in Sessions PROVE Poised(t)'
    BY <1>3 DEF Restart, Poised
  <2> QED
    BY <2>2, <2>3 DEF SessionsPoised
<1> QED
  BY <1>2, <1>3, ClientKeeps, HandleKeeps
  DEF Next, Rest, Failures, PostRule, PostUnanswered, BeginRestDelete,
      RestDelete, RestUnanswered, UpdatePolicy, ResetPolicies, Lands, LeafDown,
      LeafUp

\* When the process first starts the invariant holds.
LEMMA InitInvariant == Init => IInv
<1> SUFFICES ASSUME Init PROVE IInv
  OBVIOUS
<1>1. /\ <<>> \in Seq(EntryType) /\ <<>> \in Seq(Channels)
      /\ NoContext \in ContextType
  BY DEF NoContext, ContextType, AllowedLists
<1>2. NoDelete \in [id : RuleIds \cup {None}, left : Seq(Channels)]
  BY <1>1 DEF NoDelete
<1>3. SessionTypes /\ SessionsPoised
  BY <1>1 DEF Init, InitSessions, SessionTypes, SessionsPoised, Poised
<1>4. TypeOK
  BY <1>2, <1>3, ChannelsAssumption, BoundsAssumption, PolicyTypes
  DEF Init, TypeOK, SessionTypes
<1>5. RestPoised /\ LateStamped
  BY DEF Init, RestPoised, LateStamped
<1>6. DefaultAllowed
  BY PolicyTypes DEF Init, DefaultAllowed
<1> QED
  BY <1>3, <1>4, <1>5, <1>6 DEF IInv

\* Every step keeps it.
LEMMA NextInvariant == IInv /\ [Next]_vars => IInv'
<1>1. ASSUME IInv, Next PROVE IInv'
  <2>1. TypeOK'
    BY <1>1, PoolSteps, PolicySteps, SessionSteps, StoreSteps, LateSteps,
       RestSteps
    DEF IInv, TypeOK, SessionTypes, StoreOK, LateOK
  <2> QED
    BY <1>1, <2>1, PolicySteps, SessionSteps, LateSteps, RestSteps
    DEF IInv, LateOK
<1>2. ASSUME IInv, UNCHANGED vars PROVE IInv'
  BY <1>2
  DEF IInv, TypeOK, SessionsPoised, Poised, Entry, RestPoised, LateStamped,
      AgentDrop, DefaultAllowed, vars, leafVars, sessionVars, bounds
<1> QED
  BY <1>1, <1>2

-----------------------------------------------------------------------------
(* The theorems.                                                           *)

\* Whatever clients ask, bridges do and threads interleave, the inductive
\* invariant holds.
THEOREM Invariant == Spec => []IInv
<1>1. Init => IInv
  BY InitInvariant
<1>2. IInv /\ [Next]_vars => IInv'
  BY NextInvariant
<1> QED
  BY <1>1, <1>2, PTL DEF Spec

\* Every variable keeps its range: a leaf only ever holds rules whose fields
\* the validators know, whoever sent them and however late.
THEOREM TypeCorrect == Spec => []TypeOK
<1>1. IInv => TypeOK
  BY DEF IInv
<1> QED
  BY <1>1, Invariant, PTL

\* Whatever policy updates arrive, the role a session of any ONAP role gets by
\* default is one it is allowed, unless none is.
THEOREM DefaultAlwaysAllowed == Spec => []DefaultAllowed
<1>1. IInv => DefaultAllowed
  BY DEF IInv
<1> QED
  BY <1>1, Invariant, PTL

-----------------------------------------------------------------------------
(* What a step adds to a leaf.                                             *)

\* A push changes one name of one leaf, to what HSET makes of it.
LEMMA ChangedByPut ==
  ASSUME TypeOK, NEW c \in Channels, NEW id \in RuleIds, NEW b \in BodyType,
         ValidRule(b), Put(c, id, b),
         NEW l \in Leaves, NEW i \in RuleIds, Changed(l, i)
  PROVE  /\ l = c[2]
         /\ store'[l][i].action = b.action /\ store'[l][i].source = b.source
         /\ store[l][i] = None => store'[l][i].src = b.src
         /\ store[l][i] # None /\ b.src = None => store'[l][i].src = store[l][i].src
         /\ b.src # None => store'[l][i].src = b.src
<1>1. /\ store \in [Leaves -> [RuleIds -> RuleType \cup {None}]]
      /\ c[2] \in Leaves
  BY DEF TypeOK, Channels
<1>2. store' = [store EXCEPT ![c[2]][id] = HashSet(store[c[2]][id], b)]
  BY DEF Put
<1>3. l = c[2] /\ i = id /\ store'[l][i] = HashSet(store[l][i], b)
  BY <1>1, <1>2 DEF Changed
<1>4. store[l][i] \in RuleType \cup {None}
  BY <1>1
<1> QED
  BY <1>3, <1>4, HashSetType

\* An erased name is not a rule that changed.
LEMMA NotChangedByDrop ==
  ASSUME TypeOK, NEW c \in Channels, NEW id \in RuleIds, Drop(c, id),
         NEW l \in Leaves, NEW i \in RuleIds
  PROVE  ~Changed(l, i)
<1>1. /\ store \in [Leaves -> [RuleIds -> RuleType \cup {None}]]
      /\ c[2] \in Leaves
  BY DEF TypeOK, Channels
<1> QED
  BY <1>1 DEF Drop, Changed

\* Who may change a rule: a session's push, a Set that lands late, or a REST
\* push.
LEMMA Writers ==
  ASSUME IInv, [Next]_vars, NEW l \in Leaves, NEW i \in RuleIds, Changed(l, i)
  PROVE  \/ \E s \in Sessions : PushRule(s)
         \/ \E m \in late : Lands(m) /\ m.op = "push"
         \/ \E p \in Posts : PostRule(p)
<1>1. TypeOK
  BY DEF IInv
<1>2. store' # store
  BY DEF Changed
<1>3. ASSUME NEW s \in Sessions PROVE ~DeleteRule(s)
  BY <1>1, DeleteFacts, NotChangedByDrop DEF DeleteRule
<1>4. ASSUME NEW h \in Handlers PROVE ~RestDelete(h)
  BY <1>1, <1>2, RestFacts, NotChangedByDrop DEF RestDelete
<1>5. ASSUME NEW m \in late, Lands(m) PROVE m.op = "push"
  <2>1. m.channel \in Channels /\ m.id \in RuleIds
    BY <1>1 DEF TypeOK, CallType
  <2> QED
    BY <1>1, <1>5, <2>1, NotChangedByDrop DEF Lands, Carry
<1> QED
  BY <1>2, <1>3, <1>4, <1>5
  DEF Next, Handle, Client, Rest, Failures, Done, Refuse, BeginDelete,
      DeleteFails, Accept, ReadAllowed, ReadDefault, Close, EditConfig,
      PostUnanswered, BeginRestDelete, RestUnanswered, UpdatePolicy,
      ResetPolicies, PushUnanswered, DeleteUnanswered, LeafDown, LeafUp,
      Restart, vars, leafVars

\* What a session's own push leaves of its request, and who else moves.
LEMMA PushStep ==
  ASSUME IInv, NEW s \in Sessions, PushRule(s)
  PROVE  LET b == Stamped(s, Entry(s).body) IN
         /\ b \in BodyType /\ ValidRule(b)
         /\ PushChannel(s, b) \in Channels /\ Entry(s).id \in RuleIds
         /\ Put(PushChannel(s, b), Entry(s).id, b)
         /\ ctx[s].onap = "AGENT" => AgentDrop(b)
         /\ \A t \in Sessions : t # s => todo'[t] = todo[t]
         /\ late' = late
<1>1. AtPush(s) /\ Admissible(s, Entry(s).body)
  BY DEF PushRule
<1>2. \A t \in Sessions : t # s => todo'[t] = todo[t]
  BY DEF PushRule, NextEntry, IInv, TypeOK
<1> QED
  BY <1>1, <1>2, PushFacts DEF PushRule, Accepts

\* Every rule an agent's session adds, at once or late, only drops and says
\* that an agent asked for it.
THEOREM AgentsAddOnlyDrops == Spec => AgentAddsOnlyDrops
<1>1. ASSUME IInv, [Next]_vars, NEW l \in Leaves, NEW i \in RuleIds, Changed(l, i)
      PROVE  AgentsDrop(l, i)
  <2>1. TypeOK
    BY <1>1 DEF IInv
  <2>2. ASSUME NEW s \in Sessions, PushRule(s) PROVE AgentsDrop(l, i)
    BY <1>1, <2>1, <2>2, PushStep, ChangedByPut DEF AgentsDrop, AgentDrop
  <2>3. ASSUME NEW m \in late, Lands(m), m.op = "push" PROVE AgentsDrop(l, i)
    <3>1. /\ m.channel \in Channels /\ m.id \in RuleIds /\ m.body \in BodyType
          /\ m.onap = "AGENT" => AgentDrop(m.body)
      BY <1>1, <2>1, <2>3 DEF IInv, TypeOK, CallType, LateStamped
    <3>2. ValidRule(m.body) /\ Put(m.channel, m.id, m.body)
      BY <2>3 DEF Lands, Carry, Accepts
    <3>3. todo' = todo /\ late' = late \ {m}
      BY <2>3 DEF Lands, sessionVars
    <3> QED
      BY <1>1, <2>1, <3>1, <3>2, <3>3, ChangedByPut DEF AgentsDrop, AgentDrop
  <2>4. ASSUME NEW p \in Posts, PostRule(p) PROVE AgentsDrop(l, i)
    BY <2>4 DEF PostRule, sessionVars, AgentsDrop
  <2> QED
    BY <1>1, <2>2, <2>3, <2>4, Writers
<1>2. IInv /\ [Next]_vars => [AgentStep]_vars
  BY <1>1 DEF AgentStep, AgentsDrop
<1> QED
  BY <1>2, Invariant, PTL DEF Spec, AgentAddsOnlyDrops

\* Through either interface, a rule of a zone whose leaf the pool can reach as
\* administrator goes to that leaf.
THEOREM AlwaysRoutedByZone == Spec => RoutedByZone
<1>1. ASSUME IInv, [Next]_vars, NEW l \in Leaves, NEW i \in RuleIds,
             Changed(l, i), late' = late,
             ZoneLeaf(store'[l][i].src) # None,
             ChannelOf("admin", ZoneLeaf(store'[l][i].src)) \in pool,
             store[l][i] = None \/ store[l][i].src # store'[l][i].src
      PROVE  l = ZoneLeaf(store'[l][i].src)
  <2>1. TypeOK
    BY <1>1 DEF IInv
  <2>2. \A net, leaf : ChannelOf("admin", leaf) = <<"admin", leaf>>
    BY DEF ChannelOf
  <2>3. ASSUME NEW net, ZoneLeaf(net) # None,
               ChannelOf("admin", ZoneLeaf(net)) \in pool
        PROVE  /\ ZoneChannel(net) = <<"admin", ZoneLeaf(net)>>
               /\ PostChannel(net) = <<"admin", ZoneLeaf(net)>>
               /\ <<"admin", ZoneLeaf(net)>> # None
    <3>1. <<"admin", ZoneLeaf(net)>> \in Channels
      BY <2>1, <2>3 DEF TypeOK, ChannelOf
    <3> QED
      BY <2>3, <3>1, NoneAssumption DEF ZoneChannel, PostChannel, ChannelOf
  <2>4. ASSUME NEW s \in Sessions, PushRule(s)
        PROVE  l = ZoneLeaf(store'[l][i].src)
    <3> DEFINE b == Stamped(s, Entry(s).body)
    <3>1. /\ b \in BodyType /\ ValidRule(b)
          /\ PushChannel(s, b) \in Channels /\ Entry(s).id \in RuleIds
          /\ Put(PushChannel(s, b), Entry(s).id, b)
      BY <1>1, <2>4, PushStep
    <3> HIDE DEF b
    <3>2. l = PushChannel(s, b)[2] /\ store'[l][i].src = b.src
      BY <1>1, <2>1, <3>1, ChangedByPut
    <3>3. PushChannel(s, b) = <<"admin", ZoneLeaf(b.src)>>
      BY <1>1, <2>3, <3>2 DEF PushChannel
    <3> QED
      BY <3>2, <3>3
  <2>5. ASSUME NEW p \in Posts, PostRule(p)
        PROVE  l = ZoneLeaf(store'[l][i].src)
    <3>1. p.id \in RuleIds /\ p.body \in BodyType
      BY RequestsAssumption, BodiesAssumption
    <3>2. /\ PostChannel(p.body.src) \in Channels /\ ValidRule(p.body)
          /\ Put(PostChannel(p.body.src), p.id, p.body)
      BY <2>1, <2>5, ChannelTypes DEF PostRule, Posted, Accepts
    <3>3. l = PostChannel(p.body.src)[2] /\ store'[l][i].src = p.body.src
      BY <1>1, <2>1, <3>1, <3>2, ChangedByPut
    <3> QED
      BY <1>1, <2>3, <3>3
  <2>6. ASSUME NEW m \in late PROVE ~Lands(m)
    BY <1>1 DEF Lands
  <2> QED
    BY <1>1, <2>4, <2>5, <2>6, Writers
<1>2. IInv /\ [Next]_vars => [RouteStep]_vars
  BY <1>1 DEF RouteStep, Routed
<1> QED
  BY <1>2, Invariant, PTL DEF Spec, RoutedByZone

-----------------------------------------------------------------------------
(* What an ok is worth.                                                    *)

\* InEffect and Stamped, of any content of the leaves and any role.
StampedAs(onap, b) == IF onap = "AGENT" THEN [b EXCEPT !.source = "agent"] ELSE b
EffectIn(st, onap, e) ==
  IF e.op = "delete" THEN \A l \in Leaves : st[l][e.id] = None
  ELSE \E l \in Leaves :
         /\ st[l][e.id] # None
         /\ HashSet(st[l][e.id], StampedAs(onap, e.body)) = st[l][e.id]

\* The first k entries of q are in effect, each name in the version of its last
\* one; the name but is left aside.
KeptIn(st, onap, q, k, but) ==
  \A i \in 1..k :
    q[i].id # but /\ (\A j \in (i + 1)..k : q[j].id # q[i].id)
      => EffectIn(st, onap, q[i])

\* t is what is left of q.
PassedOf(q, t) == Len(q) - Len(t)
RestOf(q, t) ==
  /\ Len(t) <= Len(q)
  /\ \A n \in 1..Len(t) : t[n] = q[PassedOf(q, t) + n]
  /\ \A i \in 1..PassedOf(q, t) : q[i].id # None

\* With both leaves connected, a delete under way has them both left to call,
\* or the second one; then the first has failed, or the rule is gone from it.
First  == ChannelOf("admin", FirstLeaf)
Second == ChannelOf("admin", SecondLeaf)
BothLeaves == \A l \in Leaves : ChannelOf("admin", l) \in pool
Called(s) ==
  \/ left[s] = <<First, Second>>
  \/ /\ left[s] = <<Second>>
     /\ failed[s] \/ store[FirstLeaf][Entry(s).id] = None

\* The invariant behind AckedInForce: what is left of an edit-config is the end
\* of it, and as long as nobody else writes, what is past is in effect but for
\* the name a delete is at.
AckOK(s) ==
  /\ reply[s] = "ok" => state[s] = "ready"
  /\ state[s] \in {"edit", "delete"} => RestOf(asked[s], todo[s])
  /\ alone[s] /\ BothLeaves =>
       /\ state[s] = "edit" =>
            KeptIn(store, ctx[s].onap, asked[s], PassedOf(asked[s], todo[s]), None)
       /\ state[s] = "delete" =>
            /\ KeptIn(store, ctx[s].onap, asked[s],
                      PassedOf(asked[s], todo[s]), Entry(s).id)
            /\ Called(s)
       /\ reply[s] = "ok" =>
            /\ \A i \in 1..Len(asked[s]) : asked[s][i].id # None
            /\ KeptIn(store, ctx[s].onap, asked[s], Len(asked[s]), None)
AckInv == \A s \in Sessions : AckOK(s)

LEMMA SameEffect ==
  ASSUME NEW s, NEW e
  PROVE  InEffect(s, e) <=> EffectIn(store, ctx[s].onap, e)
BY DEF InEffect, EffectIn, Stamped, StampedAs

\* A set of positions that is not empty has a last one.
LEMMA LastPosition ==
  ASSUME NEW n \in Nat, NEW S \in SUBSET (1..n), S # {}
  PROVE  \E x \in S : \A y \in S : y <= x
<1> DEFINE T == {k \in 0..n : n - k \in S}
           R == OpToRel(<, Nat)
<1>1. T \in SUBSET Nat /\ T # {}
  <2>1. PICK x \in S : x \in 1..n
    OBVIOUS
  <2>2. n - x \in 0..n /\ n - (n - x) = x
    BY <2>1
  <2>3. n - x \in T
    BY <2>2
  <2>4. T \in SUBSET Nat
    OBVIOUS
  <2> HIDE DEF T
  <2> QED
    BY <2>3, <2>4
<1>2. IsWellFoundedOn(R, Nat)
  BY NatLessThanWellFounded
<1>3. \A x, y \in Nat : ~(<<y, x>> \in R) => x <= y
  BY DEF OpToRel
<1> HIDE DEF R
<1>4. PICK m \in T : \A k \in T : ~(<<k, m>> \in R)
  <2> HIDE DEF T
  <2> QED
    BY <1>1, <1>2, WFMin
<1>5. \A k \in T : m <= k
  <2> HIDE DEF T
  <2> QED
    BY <1>1, <1>3, <1>4
<1>6. m \in 0..n /\ n - m \in S
  OBVIOUS
<1>7. ASSUME NEW y \in S PROVE y <= n - m
  <2>1. y \in 1..n
    OBVIOUS
  <2>2. n - y \in 0..n /\ n - (n - y) = y
    BY <2>1
  <2>3. n - y \in T
    BY <2>2
  <2>4. m <= n - y
    BY <1>5, <2>3
  <2> HIDE DEF T
  <2> QED
    BY <1>6, <2>1, <2>2, <2>4
<1> QED
  BY <1>6, <1>7

\* The whole of q in effect, name by name.
LEMMA KeptWhole ==
  ASSUME NEW st, NEW onap, NEW q, Len(q) \in Nat, DOMAIN q = 1..Len(q),
         \A i \in 1..Len(q) : q[i].id # None,
         KeptIn(st, onap, q, Len(q), None), NEW i \in DOMAIN q
  PROVE  EffectIn(st, onap, LastEntry(q, q[i].id))
<1> DEFINE S == IndicesOf(q, q[i].id)
           x == CHOOSE m \in S : \A j \in S : j <= m
<1>1. S \in SUBSET (1..Len(q)) /\ i \in S
  BY DEF IndicesOf
<1>2. \E m \in S : \A j \in S : j <= m
  <2> HIDE DEF S
  <2> QED
    BY <1>1, LastPosition
<1>3. x \in S /\ \A j \in S : j <= x
  BY <1>2
<1>4. x \in 1..Len(q) /\ q[x].id = q[i].id
  BY <1>3 DEF IndicesOf
<1>5. LastEntry(q, q[i].id) = q[x]
  BY DEF LastEntry
<1> HIDE DEF x
<1>6. ASSUME NEW j \in (x + 1)..Len(q) PROVE q[j].id # q[x].id
  <2>1. j \in 1..Len(q) /\ ~(j <= x)
    BY <1>4
  <2>2. j \notin S
    BY <1>3, <2>1
  <2> QED
    BY <1>4, <2>1, <2>2 DEF IndicesOf
<1>7. EffectIn(st, onap, q[x])
  BY <1>4, <1>6 DEF KeptIn
<1> QED
  BY <1>5, <1>7

\* What other names a step touches does not matter to what is in effect.
LEMMA KeptStays ==
  ASSUME NEW st, NEW st2, NEW onap, NEW q, NEW k, NEW but, NEW id,
         KeptIn(st, onap, q, k, but),
         \A i \in 1..k : q[i].id = but => q[i].id = id,
         \A l \in Leaves, i \in 1..k :
           q[i].id # id => st2[l][q[i].id] = st[l][q[i].id]
  PROVE  KeptIn(st2, onap, q, k, id)
BY DEF KeptIn, EffectIn

\* One more entry in effect.
LEMMA KeptNext ==
  ASSUME NEW st, NEW onap, NEW q, NEW k \in Nat,
         KeptIn(st, onap, q, k, q[k + 1].id), EffectIn(st, onap, q[k + 1])
  PROVE  KeptIn(st, onap, q, k + 1, None)
<1> SUFFICES ASSUME NEW i \in 1..(k + 1),
                    \A j \in (i + 1)..(k + 1) : q[j].id # q[i].id
             PROVE  EffectIn(st, onap, q[i])
  BY DEF KeptIn
<1>1. CASE i = k + 1
  BY <1>1
<1>2. CASE i # k + 1
  <2>1. i \in 1..k /\ k + 1 \in (i + 1)..(k + 1)
    BY <1>2
  <2>2. q[k + 1].id # q[i].id
    BY <2>1
  <2>3. \A j \in (i + 1)..k : j \in (i + 1)..(k + 1)
    BY <2>1
  <2> QED
    BY <2>1, <2>2, <2>3 DEF KeptIn
<1> QED
  BY <1>1, <1>2

\* The first of what is left is the entry after those that are past.
LEMMA RestNext ==
  ASSUME NEW T, NEW q \in Seq(T), NEW t \in Seq(T), RestOf(q, t), t # <<>>
  PROVE  /\ PassedOf(q, t) \in Nat /\ PassedOf(q, t) + 1 \in 1..Len(q)
         /\ Head(t) = q[PassedOf(q, t) + 1]
         /\ PassedOf(q, Tail(t)) = PassedOf(q, t) + 1
         /\ Head(t).id # None => RestOf(q, Tail(t))
<1> DEFINE L == Len(q)
           n == Len(t)
           p == PassedOf(q, t)
<1>1. /\ L \in Nat /\ n \in Nat /\ n <= L /\ n # 0
      /\ p = L - n
      /\ \A m \in 1..n : t[m] = q[p + m]
      /\ \A i \in 1..p : q[i].id # None
  BY DEF RestOf, PassedOf
<1>2. Len(Tail(t)) = n - 1 /\ \A m \in 1..(n - 1) : Tail(t)[m] = t[m + 1]
  BY HeadTailProperties
<1>3. Head(t) = t[1]
  OBVIOUS
<1>4. PassedOf(q, Tail(t)) = L - (n - 1)
  BY <1>2 DEF PassedOf
<1> HIDE DEF L, n, p
<1>5. p \in Nat /\ p + 1 \in 1..L /\ L - (n - 1) = p + 1
  BY <1>1
<1>6. Head(t) = q[p + 1]
  BY <1>1, <1>3
<1>7. ASSUME Head(t).id # None PROVE RestOf(q, Tail(t))
  <2>1. ASSUME NEW m \in 1..(n - 1) PROVE Tail(t)[m] = q[(p + 1) + m]
    <3>1. m + 1 \in 1..n /\ p + (m + 1) = (p + 1) + m
      BY <1>1, <1>5
    <3> QED
      BY <1>1, <1>2, <3>1
  <2>2. \A i \in 1..(p + 1) : q[i].id # None
    <3> SUFFICES ASSUME NEW i \in 1..(p + 1) PROVE q[i].id # None
      OBVIOUS
    <3>1. i \in 1..p \/ i = p + 1
      BY <1>5
    <3> QED
      BY <1>1, <1>6, <1>7, <3>1
  <2>3. n - 1 <= L
    BY <1>1
  <2> QED
    BY <1>2, <1>4, <1>5, <2>1, <2>2, <2>3 DEF RestOf, L
<1> QED
  BY <1>4, <1>5, <1>6, <1>7 DEF p, L

\* HSET of what is there already changes nothing.
LEMMA HashSetAgain ==
  ASSUME NEW old \in RuleType \cup {None}, NEW b \in BodyType, ValidRule(b)
  PROVE  /\ HashSet(old, b) # None
         /\ HashSet(HashSet(old, b), b) = HashSet(old, b)
<1> DEFINE h == HashSet(old, b)
<1>1. h \in BodyType
  <2>1. CASE old = None
    BY <2>1 DEF HashSet
  <2>2. CASE old # None
    <3>1. /\ old.src \in Networks \cup {None} /\ old.port \in Int \cup {None}
          /\ b.src \in Networks \cup {None} /\ b.port \in Int \cup {None}
      <4>1. old \in RuleType /\ Ports \subseteq Int
        BY <2>2 DEF Ports
      <4>2. old.src \in Networks \cup {None} /\ old.port \in Ports \cup {None}
        BY <4>1 DEF RuleType
      <4>3. b.src \in Networks \cup {None} /\ b.port \in Int \cup {None}
        BY DEF BodyType
      <4> QED
        BY <4>1, <4>2, <4>3
    <3>2. h = [b EXCEPT !.src = IF b.src = None THEN old.src ELSE b.src,
                        !.port = IF b.port = None THEN old.port ELSE b.port]
      BY <2>2 DEF HashSet
    <3> QED
      BY <3>1, <3>2 DEF BodyType
  <2> QED
    BY <2>1, <2>2
<1>2. b # None
  BY NoneAssumption
<1>3. h # None
  BY <1>1, NoneAssumption
<1>4. CASE old = None
  <2>1. h = b
    BY <1>4 DEF HashSet
  <2>2. HashSet(b, b) = [b EXCEPT !.src = IF @ = None THEN b.src ELSE @,
                                  !.port = IF @ = None THEN b.port ELSE @]
    BY <1>2 DEF HashSet
  <2>3. HashSet(b, b) = b
    BY <2>2 DEF BodyType
  <2> QED
    BY <1>3, <2>1, <2>3
<1>5. CASE old # None
  <2>1. h = [b EXCEPT !.src = IF b.src = None THEN old.src ELSE b.src,
                      !.port = IF b.port = None THEN old.port ELSE b.port]
    BY <1>5 DEF HashSet
  <2>2. HashSet(h, b) = [b EXCEPT !.src = IF b.src = None THEN h.src ELSE b.src,
                                  !.port = IF b.port = None THEN h.port ELSE b.port]
    BY <1>3 DEF HashSet
  <2>3. /\ b.src = None => h.src = old.src
        /\ b.port = None => h.port = old.port
    BY <2>1 DEF BodyType
  <2>4. HashSet(h, b) = h
    BY <2>1, <2>2, <2>3
  <2> QED
    BY <1>3, <2>4
<1> QED
  BY <1>4, <1>5

\* What a step that is not the session's own leaves of it: the session as it
\* was, and the leaves too unless it no longer counts as alone.
Untouched(s) ==
  /\ pool' = pool /\ state'[s] = state[s] /\ todo'[s] = todo[s]
  /\ ctx'[s] = ctx[s] /\ left'[s] = left[s] /\ failed'[s] = failed[s]
  /\ reply'[s] = reply[s] /\ asked'[s] = asked[s]
  /\ alone'[s] => alone[s] /\ store' = store

LEMMA UntouchedKeeps ==
  ASSUME NEW s \in Sessions, AckOK(s), Untouched(s)
  PROVE  AckOK(s)'
BY DEF AckOK, Untouched, Called, BothLeaves, Entry, First, Second

\* An error is no ok.
LEMMA AnswerErrorKeeps ==
  ASSUME TypeOK, NEW s \in Sessions, Answer(s, "error")
  PROVE  AckOK(s)'
<1>1. reply'[s] = "error" /\ state'[s] = "ready"
  BY DEF TypeOK, Answer
<1> QED
  BY <1>1 DEF AckOK

\* With nothing left to do, ok: all that was asked is in effect.
LEMMA DoneKeeps ==
  ASSUME TypeOK, NEW s \in Sessions, AckOK(s), Done(s)
  PROVE  AckOK(s)'
<1>1. /\ state[s] = "edit" /\ todo[s] = <<>> /\ asked[s] \in Seq(EntryType)
      /\ state'[s] = "ready" /\ asked'[s] = asked[s]
      /\ ctx' = ctx /\ pool' = pool /\ store' = store /\ alone' = alone
  BY DEF TypeOK, Done, Answer, leafVars
<1>2. /\ PassedOf(asked[s], todo[s]) = Len(asked[s])
      /\ \A i \in 1..Len(asked[s]) : asked[s][i].id # None
  <2>1. Len(asked[s]) \in Nat /\ Len(todo[s]) = 0
    BY <1>1
  <2>2. PassedOf(asked[s], todo[s]) = Len(asked[s])
    BY <2>1 DEF PassedOf
  <2> QED
    BY <1>1, <2>2 DEF AckOK, RestOf
<1>3. alone[s] /\ BothLeaves =>
        KeptIn(store, ctx[s].onap, asked[s], Len(asked[s]), None)
  BY <1>1, <1>2 DEF AckOK
<1>4. BothLeaves' = BothLeaves
  BY <1>1 DEF BothLeaves
<1> QED
  BY <1>1, <1>2, <1>3, <1>4 DEF AckOK

\* Nobody else has written, and the pool is the one it was.
LEMMA StillAlone ==
  ASSUME TypeOK, NEW s \in Sessions, Disturbs(s), pool' = pool
  PROVE  alone'[s] /\ BothLeaves' => alone[s] /\ BothLeaves
BY DEF TypeOK, Disturbs, BothLeaves

\* A write under one name leaves the others as they are.
LEMMA OthersStay ==
  ASSUME TypeOK, NEW c \in Channels, NEW id \in RuleIds,
         Drop(c, id) \/ \E b : Put(c, id, b)
  PROVE  \A l \in Leaves : \A i : i # id => store'[l][i] = store[l][i]
<1>1. /\ store \in [Leaves -> [RuleIds -> RuleType \cup {None}]]
      /\ c[2] \in Leaves
  BY DEF TypeOK, Channels
<1>2. \E x : store' = [store EXCEPT ![c[2]][id] = x]
  BY DEF Drop, Put
<1> QED
  BY <1>1, <1>2

\* A push: the entries past are one more, and in effect.
LEMMA PushKeeps ==
  ASSUME IInv, NEW s \in Sessions, AckOK(s), PushRule(s)
  PROVE  AckOK(s)'
<1> DEFINE e == Entry(s)
           b == Stamped(s, e.body)
           c == PushChannel(s, b)
           o == ctx[s].onap
           q == asked[s]
           t == todo[s]
           k == PassedOf(q, t)
           st == store'
<1>1. /\ TypeOK /\ AtPush(s) /\ Admissible(s, e.body) /\ Accepts(c, b)
      /\ Put(c, e.id, b) /\ Disturbs(s) /\ NextEntry(s) /\ pool' = pool
  BY DEF IInv, PushRule
<1>2. /\ e.id \in RuleIds /\ b \in BodyType /\ c \in Channels /\ ValidRule(b)
  BY <1>1, PushFacts DEF Accepts
<1>3. state[s] = "edit" /\ t # <<>> /\ e.op = "push" /\ e.id # None
  BY <1>1 DEF AtPush
<1>4. q \in Seq(EntryType) /\ t \in Seq(EntryType) /\ e = Head(t)
  BY <1>1 DEF TypeOK, Entry
<1>5. RestOf(q, t) /\ reply[s] # "ok"
  BY <1>3 DEF AckOK
<1>6. /\ state'[s] = "edit" /\ todo'[s] = Tail(t) /\ asked'[s] = q
      /\ ctx'[s].onap = o /\ reply'[s] = reply[s]
  BY <1>1 DEF NextEntry, TypeOK
<1>7. /\ c[2] \in Leaves
      /\ st[c[2]][e.id] = HashSet(store[c[2]][e.id], b)
      /\ store[c[2]][e.id] \in RuleType \cup {None}
  BY <1>1, <1>2 DEF TypeOK, Channels, Put
<1>8. b = StampedAs(o, e.body)
  BY DEF Stamped, StampedAs
<1>9. \A l \in Leaves : \A i : i # e.id => st[l][i] = store[l][i]
  BY <1>1, <1>2, OthersStay
<1>10. alone'[s] /\ BothLeaves' => KeptIn(store, o, q, k, None)
  BY <1>1, <1>3, StillAlone DEF AckOK
<1> HIDE DEF e, b, c, o, q, t, st
<1>11. /\ k \in Nat /\ e = q[k + 1] /\ PassedOf(q, Tail(t)) = k + 1
       /\ RestOf(q, Tail(t))
  BY <1>3, <1>4, <1>5, RestNext
<1>12. \A i \in 1..k : q[i].id # None
  BY <1>5 DEF RestOf
<1> HIDE DEF k
<1>13. EffectIn(st, o, e)
  <2>1. st[c[2]][e.id] # None /\ HashSet(st[c[2]][e.id], b) = st[c[2]][e.id]
    BY <1>2, <1>7, HashSetAgain
  <2> QED
    BY <1>3, <1>7, <1>8, <2>1 DEF EffectIn
<1>14. KeptIn(store, o, q, k, None) => KeptIn(st, o, q, k + 1, None)
  <2> SUFFICES ASSUME KeptIn(store, o, q, k, None)
               PROVE  KeptIn(st, o, q, k + 1, None)
    OBVIOUS
  <2>1. KeptIn(st, o, q, k, e.id)
    BY <1>9, <1>12, KeptStays
  <2> QED
    BY <1>11, <1>13, <2>1, KeptNext
<1> QED
  BY <1>5, <1>6, <1>10, <1>11, <1>14 DEF AckOK, st, o, q

\* Two leaves to call, and the second when the first has been.
LEMMA TwoLeft ==
  ASSUME NEW a, NEW b
  PROVE  /\ <<a>> \o <<b>> = <<a, b>> /\ <<a, b>> # <<>> /\ <<b>> # <<>>
         /\ Head(<<a, b>>) = a /\ Tail(<<a, b>>) = <<b>>
         /\ Head(<<b>>) = b /\ Tail(<<b>>) = <<>>
<1> DEFINE T == {a, b}
           u == <<a>>
           v == <<b>>
           w == <<a, b>>
<1>1. u \in Seq(T) /\ v \in Seq(T) /\ w \in Seq(T)
  OBVIOUS
<1>2. /\ Len(u) = 1 /\ Len(v) = 1 /\ Len(w) = 2 /\ u[1] = a /\ v[1] = b
      /\ w[1] = a /\ w[2] = b
  OBVIOUS
<1> HIDE DEF u, v, w
<1>3. /\ u \o v \in Seq(T) /\ Len(u \o v) = 2
      /\ (u \o v)[1] = a /\ (u \o v)[2] = b
  <2>1. u \o v \in Seq(T) /\ Len(u \o v) = 2
    BY <1>1, <1>2, ConcatProperties
  <2>2. (u \o v)[1] = u[1] /\ (u \o v)[2] = v[1]
    BY <1>1, <1>2, ConcatProperties
  <2> QED
    BY <1>2, <2>1, <2>2
<1>4. u \o v = w
  <2> DEFINE x == u \o v
  <2>1. x \in Seq(T) /\ Len(x) = Len(w) /\ \A i \in 1..Len(x) : x[i] = w[i]
    BY <1>2, <1>3
  <2> HIDE DEF x
  <2>2. x = w
    BY <1>1, <2>1, SeqEqual
  <2> QED
    BY <2>2 DEF x
<1>5. Tail(w) = v
  <2> DEFINE x == Tail(w)
  <2>1. w # <<>>
    BY <1>2
  <2>2. x \in Seq(T) /\ Len(x) = 1 /\ x[1] = b
    BY <1>1, <1>2, <2>1, HeadTailProperties
  <2> HIDE DEF x
  <2>3. \A i \in 1..Len(x) : x[i] = v[i]
    BY <1>2, <2>2
  <2>4. x = v
    BY <1>1, <1>2, <2>2, <2>3, SeqEqual
  <2> QED
    BY <2>4 DEF x
<1>6. w # <<>> /\ v # <<>> /\ Head(w) = a /\ Head(v) = b
  BY <1>1, <1>2
<1>7. Tail(<<b>>) = <<>>
  OBVIOUS
<1> QED
  BY <1>4, <1>5, <1>6, <1>7 DEF u, v, w

\* A delete begins with both leaves to call, if both are connected.
LEMMA BeginDeleteKeeps ==
  ASSUME IInv, NEW s \in Sessions, AckOK(s), BeginDelete(s)
  PROVE  AckOK(s)'
<1> DEFINE o == ctx[s].onap
           q == asked[s]
           k == PassedOf(asked[s], todo[s])
           id == Entry(s).id
<1>1. TypeOK /\ state[s] = "edit"
  BY DEF IInv, BeginDelete
<1>2. /\ state'[s] = "delete" /\ left'[s] = DeleteChannels(s)
      /\ todo'[s] = todo[s] /\ asked'[s] = q /\ ctx'[s] = ctx[s]
      /\ reply'[s] = reply[s] /\ alone' = alone /\ pool' = pool
      /\ store' = store /\ Entry(s)' = Entry(s)
  BY <1>1 DEF BeginDelete, TypeOK, leafVars, Entry
<1>3. BothLeaves => DeleteChannels(s) = <<First, Second>>
  <2> SUFFICES ASSUME BothLeaves PROVE DeleteChannels(s) = <<First, Second>>
    OBVIOUS
  <2>1. First \in pool /\ Second \in pool
    BY DEF BothLeaves, Leaves, First, Second
  <2>2. AdminChannels = <<First>> \o <<Second>>
    BY <2>1 DEF AdminChannels, IfConnected, First, Second
  <2>3. /\ <<First>> \o <<Second>> = <<First, Second>>
        /\ <<First, Second>> # <<>>
    BY TwoLeft
  <2> QED
    BY <2>2, <2>3 DEF DeleteChannels
<1>4. RestOf(q, todo[s]) /\ reply[s] # "ok"
  BY <1>1 DEF AckOK
<1>5. \A i \in 1..k : q[i].id # None
  BY <1>4 DEF RestOf
<1>6. alone[s] /\ BothLeaves => KeptIn(store, o, q, k, id)
  <2>1. alone[s] /\ BothLeaves => KeptIn(store, o, q, k, None)
    BY <1>1 DEF AckOK
  <2> HIDE DEF o, q, k, id
  <2> QED
    BY <1>5, <2>1, KeptStays
<1>7. BothLeaves' = BothLeaves /\ First' = First /\ Second' = Second
  BY <1>2 DEF BothLeaves, First, Second, ChannelOf
<1> QED
  BY <1>2, <1>3, <1>4, <1>6, <1>7 DEF AckOK, Called

\* A call of a delete is over: the next leaf's turn, or the next entry's once
\* the name is gone from both, or an error.
LEMMA DeletedKeeps ==
  ASSUME IInv, NEW s \in Sessions, AckOK(s), state[s] = "delete",
         NEW bad \in BOOLEAN, DeleteCalled(s, bad), pool' = pool,
         alone'[s] => alone[s],
         IF bad THEN store' = store ELSE Drop(Head(left[s]), Entry(s).id)
  PROVE  AckOK(s)'
<1> DEFINE e == Entry(s)
           o == ctx[s].onap
           q == asked[s]
           t == todo[s]
           k == PassedOf(q, t)
           st == store'
<1>1. /\ TypeOK /\ t # <<>> /\ left[s] # <<>> /\ left[s] \in Seq(Channels)
      /\ e.op = "delete" /\ e.id # None
  BY DEF IInv, SessionsPoised, Poised, TypeOK
<1>2. Head(left[s]) \in Channels /\ e.id \in RuleIds
  BY DeleteFacts
<1>3. q \in Seq(EntryType) /\ t \in Seq(EntryType) /\ e = Head(t)
  BY <1>1 DEF TypeOK, Entry
<1>4. RestOf(q, t) /\ reply[s] # "ok"
  BY DEF AckOK
<1>5. alone'[s] /\ BothLeaves' =>
        /\ KeptIn(store, o, q, k, e.id)
        /\ Called(s)
  BY DEF AckOK, BothLeaves
<1>6. \A l \in Leaves : \A i : i # e.id => st[l][i] = store[l][i]
  <2>1. CASE bad
    BY <2>1
  <2>2. CASE ~bad
    BY <1>1, <1>2, <2>2, OthersStay
  <2> QED
    BY <2>1, <2>2
<1>7. KeptIn(store, o, q, k, e.id) => KeptIn(st, o, q, k, e.id)
  <2> HIDE DEF e, o, q, k, st
  <2> QED
    BY <1>6, KeptStays
<1>8. ~bad => \A l \in Leaves :
        st[l][e.id] = IF l = Head(left[s])[2] THEN None ELSE store[l][e.id]
  <2>1. /\ store \in [Leaves -> [RuleIds -> RuleType \cup {None}]]
        /\ Head(left[s])[2] \in Leaves
    BY <1>1, <1>2 DEF TypeOK, Channels
  <2> QED
    BY <1>2, <2>1 DEF Drop
<1>9. /\ First[2] = FirstLeaf /\ Second[2] = SecondLeaf /\ First # Second
      /\ Leaves = {FirstLeaf, SecondLeaf}
  BY LeavesAssumption DEF First, Second, ChannelOf, Leaves
<1>10. CASE Tail(left[s]) # <<>>
  <2>1. /\ state'[s] = "delete" /\ left'[s] = Tail(left[s])
        /\ todo'[s] = t /\ asked'[s] = q /\ ctx'[s] = ctx[s]
        /\ reply'[s] = reply[s] /\ failed'[s] = (failed[s] \/ bad)
        /\ Entry(s)' = e
    BY <1>1, <1>10 DEF DeleteCalled, TypeOK, Entry
  <2>2. Called(s) => Called(s)'
    <3> SUFFICES ASSUME Called(s) PROVE Called(s)'
      OBVIOUS
    <3>1. left[s] = <<First, Second>>
      BY <1>10, TwoLeft DEF Called
    <3>2. Head(left[s]) = First /\ left'[s] = <<Second>>
      BY <2>1, <3>1, TwoLeft
    <3>3. ~bad => st[FirstLeaf][e.id] = None
      BY <1>8, <1>9, <3>2
    <3> QED
      BY <2>1, <3>2, <3>3 DEF Called, First, Second, ChannelOf
  <2> QED
    BY <1>4, <1>5, <1>7, <2>1, <2>2 DEF AckOK
<1>11. CASE Tail(left[s]) = <<>> /\ (failed[s] \/ bad)
  BY <1>1, <1>11, AnswerErrorKeeps DEF DeleteCalled
<1>12. CASE Tail(left[s]) = <<>> /\ ~failed[s] /\ ~bad
  <2>1. /\ state'[s] = "edit" /\ todo'[s] = Tail(t) /\ asked'[s] = q
        /\ ctx'[s].onap = o /\ reply'[s] = reply[s]
    BY <1>1, <1>12 DEF DeleteCalled, NextEntry, TypeOK
  <2>2. Called(s) => EffectIn(st, o, e)
    <3> SUFFICES ASSUME Called(s) PROVE \A l \in Leaves : st[l][e.id] = None
      BY <1>1 DEF EffectIn
    <3>1. left[s] = <<Second>> /\ store[FirstLeaf][e.id] = None
      BY <1>12, TwoLeft DEF Called
    <3>2. Head(left[s]) = Second
      BY <3>1, TwoLeft
    <3> QED
      BY <1>8, <1>9, <1>12, <3>1, <3>2
  <2> HIDE DEF e, o, q, t, st
  <2>3. /\ k \in Nat /\ e = q[k + 1] /\ PassedOf(q, Tail(t)) = k + 1
        /\ RestOf(q, Tail(t))
    BY <1>1, <1>3, <1>4, RestNext
  <2> HIDE DEF k
  <2>4. KeptIn(st, o, q, k, e.id) /\ EffectIn(st, o, e) =>
          KeptIn(st, o, q, k + 1, None)
    BY <2>3, KeptNext
  <2> QED
    BY <1>4, <1>5, <1>7, <2>1, <2>2, <2>3, <2>4 DEF AckOK, st, o, q
<1> QED
  BY <1>10, <1>11, <1>12

\* An edit-config begins with nothing past.
LEMMA EditConfigKeeps ==
  ASSUME TypeOK, NEW s \in Sessions, NEW q \in Requests, EditConfig(s, q)
  PROVE  AckOK(s)'
<1>1. /\ state'[s] = "edit" /\ todo'[s] = q /\ asked'[s] = q /\ reply'[s] = None
      /\ q \in Seq(EntryType)
  BY RequestsAssumption DEF TypeOK, EditConfig
<1>2. /\ Len(q) \in Nat /\ PassedOf(q, q) = 0
  BY <1>1 DEF PassedOf
<1>3. RestOf(q, q)
  BY <1>2 DEF RestOf
<1>4. KeptIn(store', ctx'[s].onap, q, 0, None)
  BY DEF KeptIn
<1>5. None # "ok"
  BY NoneAssumption
<1> QED
  BY <1>1, <1>2, <1>3, <1>4, <1>5 DEF AckOK

\* A session that is not in an edit-config keeps what its last reply said.
LEMMA ClientAckKeeps ==
  ASSUME IInv, NEW s \in Sessions, AckOK(s), Client(s)
  PROVE  AckOK(s)'
<1>1. TypeOK
  BY DEF IInv
<1>2. ASSUME NEW ou, Accept(s, ou) PROVE AckOK(s)'
  <2>1. state'[s] = "reading" /\ reply'[s] = None /\ alone'[s] = FALSE
    BY <1>1, <1>2 DEF Accept, TypeOK
  <2> QED
    BY <2>1, NoneAssumption DEF AckOK
<1>3. CASE ReadAllowed(s) \/ ReadDefault(s)
  <2>1. /\ state[s] \in {"reading", "opening"} /\ reply' = reply
        /\ state'[s] \in {"opening", "ready", "closed"}
    BY <1>1, <1>3 DEF ReadAllowed, ReadDefault, TypeOK
  <2>2. reply'[s] # "ok"
    BY <2>1 DEF AckOK
  <2> QED
    BY <2>1, <2>2 DEF AckOK
<1>4. CASE Close(s)
  <2>1. state'[s] = "closed" /\ reply'[s] = None
    BY <1>1, <1>4 DEF Close, TypeOK
  <2> QED
    BY <2>1, NoneAssumption DEF AckOK
<1>5. ASSUME NEW q \in Requests, EditConfig(s, q) PROVE AckOK(s)'
  BY <1>1, <1>5, EditConfigKeeps
<1> QED
  BY <1>2, <1>3, <1>4, <1>5 DEF Client

\* A session in an edit-config: every way a step of it can go.
LEMMA HandleAckKeeps ==
  ASSUME IInv, NEW s \in Sessions, AckOK(s),
         Handle(s) \/ PushUnanswered(s) \/ DeleteUnanswered(s)
  PROVE  AckOK(s)'
<1>1. TypeOK
  BY DEF IInv
<1>2. CASE Done(s)
  BY <1>1, <1>2, DoneKeeps
<1>3. CASE Refuse(s) \/ PushUnanswered(s)
  BY <1>1, <1>3, AnswerErrorKeeps DEF Refuse, PushUnanswered
<1>4. CASE PushRule(s)
  BY <1>4, PushKeeps
<1>5. CASE BeginDelete(s)
  BY <1>5, BeginDeleteKeeps
<1>6. CASE DeleteRule(s)
  <2>1. alone'[s] => alone[s]
    BY <1>1, <1>6, StillAlone DEF DeleteRule, Disturbs, TypeOK
  <2> QED
    BY <1>6, <2>1, DeletedKeeps DEF DeleteRule
<1>7. CASE DeleteFails(s) \/ DeleteUnanswered(s)
  BY <1>7, DeletedKeeps DEF DeleteFails, DeleteUnanswered, leafVars
<1> QED
  BY <1>2, <1>3, <1>4, <1>5, <1>6, <1>7 DEF Handle

\* A session's own step leaves the other sessions where they are.
LEMMA OtherSession ==
  ASSUME TypeOK, NEW s \in Sessions, NEW t \in Sessions, t # s,
         Handle(t) \/ Client(t) \/ PushUnanswered(t) \/ DeleteUnanswered(t)
  PROVE  Untouched(s)
<1> DEFINE Frame ==
      /\ state'[s] = state[s] /\ todo'[s] = todo[s] /\ ctx'[s] = ctx[s]
      /\ left'[s] = left[s] /\ failed'[s] = failed[s]
      /\ reply'[s] = reply[s] /\ asked'[s] = asked[s]
<1>1. ASSUME NEW what, Answer(t, what) PROVE Frame
  BY <1>1 DEF Answer, TypeOK
<1>2. ASSUME NextEntry(t) PROVE Frame
  BY <1>2 DEF NextEntry, TypeOK
<1>3. ASSUME NEW bad, DeleteCalled(t, bad) PROVE Frame
  <2>1. CASE Tail(left[t]) # <<>>
    BY <1>3, <2>1 DEF DeleteCalled, TypeOK
  <2>2. CASE Tail(left[t]) = <<>>
    <3>1. Answer(t, "error") \/ NextEntry(t)
      BY <1>3, <2>2 DEF DeleteCalled
    <3> HIDE DEF Frame
    <3> QED
      BY <1>1, <1>2, <3>1
  <2> QED
    BY <2>1, <2>2
<1>4. Disturbs(t) => ~alone'[s]
  BY DEF Disturbs
<1>5. ASSUME Client(t) PROVE Frame /\ pool' = pool /\ store' = store /\ (alone'[s] => alone[s])
  <2>1. CASE \E ou : Accept(t, ou)
    BY <2>1 DEF Accept, TypeOK, leafVars
  <2>2. CASE ReadAllowed(t)
    BY <2>2 DEF ReadAllowed, TypeOK, leafVars
  <2>3. CASE ReadDefault(t)
    BY <2>3 DEF ReadDefault, TypeOK, leafVars
  <2>4. CASE Close(t)
    BY <2>4 DEF Close, TypeOK, leafVars
  <2>5. CASE \E q \in Requests : EditConfig(t, q)
    BY <2>5 DEF EditConfig, TypeOK, leafVars
  <2> HIDE DEF Frame
  <2> QED
    BY <1>5, <2>1, <2>2, <2>3, <2>4, <2>5 DEF Client
<1>6. ASSUME BeginDelete(t) PROVE Frame
  BY <1>6 DEF BeginDelete, TypeOK
<1> HIDE DEF Frame
<1>7. ASSUME Handle(t) \/ PushUnanswered(t) \/ DeleteUnanswered(t)
      PROVE  /\ Frame /\ pool' = pool
             /\ alone'[s] => alone[s] /\ store' = store
  BY <1>1, <1>2, <1>3, <1>4, <1>6, <1>7
  DEF Handle, Done, Refuse, PushRule, BeginDelete, DeleteRule, DeleteFails,
      PushUnanswered, DeleteUnanswered, leafVars
<1> QED
  BY <1>5, <1>7 DEF Untouched, Frame

\* So does what REST handlers, late Sets, leaves and policy updates do.
LEMMA NoSession ==
  ASSUME NEW s \in Sessions,
         Rest \/ (\E m \in late : Lands(m)) \/ \E l \in Leaves : LeafDown(l) \/ LeafUp(l)
  PROVE  Untouched(s)
<1>1. Disturbs(None) => ~alone'[s]
  BY NoneAssumption DEF Disturbs
<1>2. pool' = pool /\ UNCHANGED sessionVars
  BY ZenonT(60)
  DEF Rest, PostRule, PostUnanswered, BeginRestDelete, RestDelete,
      RestUnanswered, UpdatePolicy, ResetPolicies, Lands, LeafDown, LeafUp,
      sessionVars
<1>3. alone'[s] => alone[s] /\ store' = store
  BY <1>1
  DEF Rest, PostRule, PostUnanswered, BeginRestDelete, RestDelete,
      RestUnanswered, UpdatePolicy, ResetPolicies, Lands, LeafDown, LeafUp,
      leafVars
<1> QED
  BY <1>2, <1>3 DEF Untouched, sessionVars

\* When the process starts again, nobody has a reply.
LEMMA RestartAckKeeps ==
  ASSUME NEW s \in Sessions, Restart PROVE AckOK(s)'
BY NoneAssumption DEF Restart, AckOK

\* Every step keeps what an ok is worth.
LEMMA AckStep == IInv /\ AckInv /\ [Next]_vars => AckInv'
<1> SUFFICES ASSUME IInv, AckInv, [Next]_vars, NEW s \in Sessions
             PROVE  AckOK(s)'
  BY DEF AckInv
<1>1. TypeOK /\ AckOK(s)
  BY DEF IInv, AckInv
<1>2. ASSUME Handle(s) \/ PushUnanswered(s) \/ DeleteUnanswered(s)
      PROVE  AckOK(s)'
  BY <1>1, <1>2, HandleAckKeeps
<1>3. CASE Client(s)
  BY <1>1, <1>3, ClientAckKeeps
<1>4. ASSUME NEW t \in Sessions, t # s,
             Handle(t) \/ Client(t) \/ PushUnanswered(t) \/ DeleteUnanswered(t)
      PROVE  AckOK(s)'
  BY <1>1, <1>4, OtherSession, UntouchedKeeps
<1>5. CASE Rest \/ (\E m \in late : Lands(m))
           \/ \E l \in Leaves : LeafDown(l) \/ LeafUp(l)
  BY <1>1, <1>5, NoSession, UntouchedKeeps
<1>6. CASE Restart
  BY <1>6, RestartAckKeeps
<1>7. CASE UNCHANGED vars
  BY <1>1, <1>7, UntouchedKeeps DEF Untouched, vars, leafVars, sessionVars
<1> QED
  BY <1>2, <1>3, <1>4, <1>5, <1>6, <1>7 DEF Next, Failures

\* At the start nobody has a reply either.
LEMMA AckInit == Init => AckInv
BY NoneAssumption DEF Init, InitSessions, AckInv, AckOK

\* For any number of sessions, REST handlers, requests and faults: with both
\* leaves connected, an edit-config answered ok is in effect, all of it, as long
\* as nobody else writes, each name as its last entry says.
THEOREM AckedAlwaysInForce == Spec => []AckedInForce
<1>1. IInv /\ AckInv => AckedInForce
  <2> SUFFICES ASSUME IInv, AckInv, NEW s \in Sessions, reply[s] = "ok",
                      alone[s], BothLeaves, NEW i \in DOMAIN asked[s]
               PROVE  InEffect(s, LastEntry(asked[s], asked[s][i].id))
    BY DEF AckedInForce, BothLeaves
  <2> DEFINE q == asked[s]
             o == ctx[s].onap
  <2>1. q \in Seq(EntryType)
    BY DEF IInv, TypeOK
  <2>2. Len(q) \in Nat /\ DOMAIN q = 1..Len(q)
    BY <2>1
  <2>3. /\ \A j \in 1..Len(q) : q[j].id # None
        /\ KeptIn(store, o, q, Len(q), None)
    BY DEF AckInv, AckOK
  <2> HIDE DEF q, o
  <2>4. i \in DOMAIN q
    BY DEF q
  <2>5. EffectIn(store, o, LastEntry(q, q[i].id))
    BY <2>2, <2>3, <2>4, KeptWhole
  <2> QED
    BY <2>5, SameEffect DEF q, o
<1>2. IInv /\ AckInv /\ [Next]_vars => AckInv'
  BY AckStep
<1> QED
  BY <1>1, <1>2, AckInit, Invariant, PTL DEF Spec

=============================================================================
