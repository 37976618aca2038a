----------------------------- MODULE MCAclBridge -----------------------------
(* Small instances of AclBridge.                                           *)
EXTENDS AclBridge

CONSTANTS net1, net2   \* two source networks

Rule(c, a, p, s, net) ==
  [chain |-> c, action |-> a, priority |-> p, source |-> s,
   protocol |-> "all", port |-> None, src |-> net, ttl |-> 0]

\* An auto-block at the top, an allow in the middle, a manual block at the
\* end, an output rule, and bodies validation or the role check refuses.
Block   == Rule("FORWARD", "DROP", 50, "agent", net1)
Allow   == Rule("FORWARD", "ACCEPT", 999, "sdnc", net2)
Late    == Rule("FORWARD", "DROP", 1000, "manual", net1)
Outward == Rule("OUTPUT", "DROP", 99, "sdnc", net1)
Opens   == Rule("FORWARD", "ACCEPT", 50, "agent", net1)
Beyond  == Rule("FORWARD", "DROP", 10000, "sdnc", net1)

Push(id, r) == [path |-> id, id |-> None, body |-> r]
Set(ou, deletes, updates) ==
  [ou |-> ou, deletes |-> deletes, updates |-> updates]

Nets == {net1, net2}
AllBodies == {Block, Allow, Late, Outward, Opens, Beyond}
ForwardBodies == {b \in AllBodies : b.chain = "FORWARD"}

\* No name starts with another.
Apart == [id \in RuleIds |-> {id}]

\* One client at a time: replacements across chains, deletes with updates in
\* one call, and calls that validation or the role check ends half-way.
SerialRequests ==
  {Set("internal", <<>>, <<Push("a", Block), Push("b", Allow)>>),
   Set("sdnc", <<"a">>, <<Push("b", Outward)>>),
   Set("auto", <<>>, <<Push("b", Block), Push("a", Opens)>>),
   Set("aws", <<>>, <<Push("a", Allow), Push("b", Late)>>),
   Set("internal", <<"b", None>>, <<>>),
   Set("sdnc", <<>>, <<Push("b", Late), Push("a", Beyond)>>),
   Set("guest", <<"a">>, <<>>)}

\* Two clients at a time, rules of one chain: the same name pushed and
\* deleted by both, and a rule that goes to the head of the chain meanwhile.
RaceRequests ==
  {Set("internal", <<>>, <<Push("a", Allow)>>),
   Set("auto", <<>>, <<Push("b", Block), Push("a", Opens)>>),
   Set("sdnc", <<"a">>, <<>>),
   Set("aws", <<"b">>, <<Push("a", Late)>>)}

\* A rule that moves between chains, and a delete, under failing commands.
MoveRequests ==
  {Set("internal", <<>>, <<Push("a", Outward)>>),
   Set("sdnc", <<>>, <<Push("a", Allow), Push("b", Block)>>),
   Set("internal", <<"a">>, <<>>)}

\* Names as an ACL table's sequence numbers give them: acl-1 starts acl-10.
Nested == [id \in RuleIds |-> IF id = "acl-1" THEN RuleIds ELSE {id}]
NestedRequests ==
  {Set("internal", <<>>, <<Push("acl-1", Allow), Push("acl-10", Block)>>),
   Set("internal", <<"acl-1">>, <<>>)}
=============================================================================
