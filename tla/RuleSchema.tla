----------------------------- MODULE RuleSchema -----------------------------
(***************************************************************************)
(* The rule record nos-acl-bridge stores and enforces, the checks          *)
(* validators.py makes on it, the roles the client certificate gives, and  *)
(* where iptables.py puts the rule in its chain.                           *)
(*                                                                         *)
(* A rule is a record whose fields have already received their defaults.   *)
(* Two optional fields stand for the five of the code: src (a prefix) and  *)
(* port (one that needs a protocol with ports).  None is an absent one.    *)
(* Wording-level checks (the rule-id pattern, the comment's length) are    *)
(* left out: identifiers are members of a set.                             *)
(***************************************************************************)
EXTENDS Integers

CONSTANTS Networks,   \* the IPv4 prefixes rules are about
          None        \* an absent optional field, and no rule at all

-----------------------------------------------------------------------------
ChainNames    == {"FORWARD", "INPUT", "OUTPUT"}
Protocols     == {"tcp", "udp", "icmp", "sctp", "all"}
PortProtocols == {"tcp", "udp", "sctp"}
Actions       == {"DROP", "ACCEPT", "REJECT"}
Sources       == {"sdnc", "agent", "manual"}
Priorities    == 1..9999
Ports         == 1..65535
Lifetimes     == 0..86400

\* What a Set may carry and what ConfigDB may hold: every field in range.
RuleType ==
  [chain : ChainNames, action : Actions, priority : Priorities,
   source : Sources, protocol : Protocols, port : Ports \cup {None},
   src : Networks \cup {None}, ttl : Lifetimes]

\* Mutants: any action and source; an agent's rule may accept.
ValidAnyAction(r) == r.priority \in Priorities
ValidAnyAgent(r) == r.priority \in Priorities

\* validate_rule: in range field by field, a port only with a protocol that
\* has ports, and an agent's rule may only drop.
ValidRule(r) ==
  /\ r.chain \in ChainNames
  /\ r.src \in Networks \cup {None}
  /\ r.protocol \in Protocols
  /\ \/ r.port = None
     \/ r.protocol \in PortProtocols /\ r.port \in Ports
  /\ r.action \in Actions
  /\ r.priority \in Priorities
  /\ r.source \in Sources
  /\ r.ttl \in Lifetimes
  /\ r.source = "agent" => r.action = "DROP"

\* enforce_rbac: what each role may name as the source of a rule.
RoleMayPush(role, r) ==
  \/ role = "ADMIN"
  \/ role = "OPERATOR" /\ r.source = "sdnc"
  \/ role = "AGENT" /\ r.source = "agent"

\* The organisational unit of the peer's certificate decides its role.
RoleOf(ou) ==
  CASE ou \in {"internal", "sdnc"} -> "ADMIN"
    [] ou = "aws"                  -> "OPERATOR"
    [] ou = "auto"                 -> "AGENT"
    [] OTHER                       -> "DENY"

-----------------------------------------------------------------------------
(* HSET writes the fields it is given and leaves the others of the hash as *)
(* they are: an optional field absent from the new rule keeps the value an *)
(* earlier rule of that name gave it.                                      *)
HashSet(old, r) ==
  IF old = None THEN r
  ELSE [r EXCEPT !.src  = IF @ = None THEN old.src  ELSE @,
                 !.port = IF @ = None THEN old.port ELSE @]

\* iptables refuses a port match under a protocol that has no ports; the
\* command builder emits one for every protocol but "all".
CommandAccepted(r) ==
  r.protocol = "all" \/ r.port = None \/ r.protocol \in PortProtocols

\* Mutant: a rule of the first class goes after the first line.
PositionSecond(r, n) == IF r.priority < 1000 /\ n > 0 THEN 2 ELSE n + 1

\* Where the rule goes in a chain of n lines: -I 1, -I 2 or -A.
Position(r, n) ==
  CASE r.priority < 100 -> 1
    [] r.priority \in 100..999 -> 2
    [] r.priority >= 1000 -> n + 1

=============================================================================
