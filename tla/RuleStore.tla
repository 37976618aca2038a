------------------------------ MODULE RuleStore ------------------------------
(***************************************************************************)
(* What a leaf promises about its rules, without threads, line numbers or  *)
(* restarts.  A rule is stored (the record of intent) and enforced (what   *)
(* the packet filter does).  The two may disagree for a while, in one way  *)
(* only: a rule can be stored and not yet enforced, or enforced and no     *)
(* longer stored; a leaf never enforces a version other than the one it    *)
(* stores, because a new version is stored only while none is enforced.    *)
(***************************************************************************)
CONSTANTS RuleIds,   \* rule names
          Rules,     \* rule contents
          NoRule     \* no rule

VARIABLES stored,    \* the rule recorded under each name
          enforced   \* the rule the packet filter applies under each name

storeVars == <<stored, enforced>>

StoreTypeOK ==
  /\ stored   \in [RuleIds -> Rules \cup {NoRule}]
  /\ enforced \in [RuleIds -> Rules \cup {NoRule}]

StoreInit ==
  /\ stored   = [id \in RuleIds |-> NoRule]
  /\ enforced = [id \in RuleIds |-> NoRule]

\* A rule is recorded, or replaced, while the filter holds none of that name.
Record(id, r) ==
  /\ enforced[id] = NoRule
  /\ stored' = [stored EXCEPT ![id] = r]
  /\ UNCHANGED enforced

\* The record is withdrawn; the filter may go on for a while.
Erase(id) ==
  /\ stored' = [stored EXCEPT ![id] = NoRule]
  /\ UNCHANGED enforced

\* The filter takes up what is recorded.
Enforce(id) ==
  /\ stored[id] # NoRule
  /\ enforced[id] = NoRule
  /\ enforced' = [enforced EXCEPT ![id] = stored[id]]
  /\ UNCHANGED stored

\* The filter drops the rule: before a new version, or after an Erase.
Relax(id) ==
  /\ enforced' = [enforced EXCEPT ![id] = NoRule]
  /\ UNCHANGED stored

StoreNext ==
  \E id \in RuleIds :
    \/ \E r \in Rules : Record(id, r)
    \/ Erase(id)
    \/ Enforce(id)
    \/ Relax(id)

StoreSpec == StoreInit /\ [][StoreNext]_storeVars

\* A rule both stored and enforced (ConfigDB and iptables) is enforced as it is stored.
NeverStale ==
  \A id \in RuleIds :
    stored[id] # NoRule /\ enforced[id] # NoRule => enforced[id] = stored[id]
=============================================================================
