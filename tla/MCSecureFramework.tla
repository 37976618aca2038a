------------------------- MODULE MCSecureFramework -------------------------
(***************************************************************************)
(* Instances of SecureFramework for TLC: two leaves with a zone each, an   *)
(* administrator's and an operator's channel to each, one of which may be  *)
(* missing when the process starts.                                        *)
(***************************************************************************)
EXTENDS SecureFramework

CONSTANTS leaf1, leaf2, db, other

MCNetworks == {db, other}
MCOwner    == [n \in MCNetworks |-> IF n = db THEN leaf2 ELSE None]

MCCertRole == [admin |-> "ADMIN", operator |-> "OPERATOR"]

\* Both leaves, or only the first was there when the process started.
MCPools == {SonicRoles \X {leaf1, leaf2}, SonicRoles \X {leaf1}}

\* Names: a rule of its own, an acl-set, and the first entry of that set.
Rule  == <<"r">>
Acl   == <<"acl">>
Entry10 == <<"acl", 10>>
MCRuleIds == {Rule, Acl, Entry10}

Body(action, src) ==
  [chain |-> "FORWARD", action |-> action, priority |-> 50, source |-> "sdnc",
   protocol |-> "all", port |-> None, src |-> src, ttl |-> 0]
Allow   == Body("ACCEPT", other)
BlockDb == Body("DROP", db)
Pass    == Body("RETURN", None)
AclSet ==
  [op |-> "merge", name |-> Acl,
   entries |-> <<[seq |-> 10, action |-> "REJECT", protocol |-> "sctp",
                  port |-> None, src |-> db]>>]
MCWords == {"FORWARD", "ACCEPT", "DROP", "RETURN", "sdnc", "agent", "all"}
MCBodies ==
  {Allow, BlockDb, Pass, OpenConfigRule(Acl, AclSet.entries[1]).body}

Push(id, body) == [op |-> "push", id |-> id, body |-> body]
Delete(id)     == [op |-> "delete", id |-> id, body |-> None]
MCRequests ==
  {<<Push(Rule, BlockDb)>>,
   <<Push(Rule, Allow), Delete(None)>>,
   <<Delete(Entry10), Push(Rule, Allow)>>,
   FromOpenConfig(AclSet), FromOpenConfig([AclSet EXCEPT !.op = "delete"])}
MCPosts == {[id |-> Rule, body |-> BlockDb], [id |-> Rule, body |-> Pass]}
MCPolicyUpdates == {[allowed |-> <<"operator">>, default |-> None]}
=============================================================================
