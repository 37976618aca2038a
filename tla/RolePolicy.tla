----------------------------- MODULE RolePolicy -----------------------------
(***************************************************************************)
(* RolePolicyEngine: which gNMI channel (SONiC role) the sessions of each  *)
(* ONAP role may use, and which one they get.  Every method holds the      *)
(* engine's lock for its whole body, so an update is one step; a session   *)
(* that is being created calls two getters, so it reads in two.            *)
(***************************************************************************)
EXTENDS Sequences

OnapRoles  == {"ADMIN", "OPERATOR", "AGENT"}
SonicRoles == {"admin", "operator"}

\* The allowed roles are a list: the first one matters.
AllowedLists ==
  {<<>>, <<"admin">>, <<"operator">>, <<"admin", "operator">>,
   <<"operator", "admin">>}
PolicyType == [allowed : AllowedLists, default : SonicRoles]

Holds(list, role) == \E i \in DOMAIN list : list[i] = role

DefaultPolicies ==
  [r \in OnapRoles |->
     CASE r = "ADMIN"    -> [allowed |-> <<"admin", "operator">>, default |-> "admin"]
       [] r = "OPERATOR" -> [allowed |-> <<"operator">>, default |-> "operator"]
       [] r = "AGENT"    -> [allowed |-> <<"admin">>, default |-> "admin"]]

\* What is left out of an update stays as it is.  None stands for left out.
Given(new, old, None) == IF new = None THEN old ELSE new

\* Mutant: the default is taken as it comes.
UpdatedUnchecked(policy, allowed, default, None) ==
  [allowed |-> Given(allowed, policy.allowed, None),
   default |-> Given(default, policy.default, None)]

\* update_policy: a default that is not allowed becomes the first allowed role.
Updated(policy, allowed, default, None) ==
  LET list == Given(allowed, policy.allowed, None)
      role == Given(default, policy.default, None) IN
  [allowed |-> list,
   default |-> IF Holds(list, role) THEN role
               ELSE IF list # <<>> THEN Head(list) ELSE "operator"]
=============================================================================
