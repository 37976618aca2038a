---------------------------- MODULE FabricDeploy ----------------------------
(***************************************************************************)
(* The deployment script of the first data plane (deploy.py).  It runs one *)
(* list of commands over the consoles of the SONiC switches and of the     *)
(* Alpine hosts; it may end anywhere (an exception, a sys.exit, Ctrl-C) and *)
(* is meant to be run again.  A command's exit status is never looked at.  *)
(* Any node may reboot at any time and then keeps what is on its disk.     *)
(***************************************************************************)
EXTENDS Naturals, Sequences

CONSTANTS
  Hosts,       \* bound: the Alpine hosts that are looked at, of the four; what
               \* is typed at the others changes nothing here
  Sudo,        \* the hosts on which sudo is installed
  MaxTroubles  \* bound: runs cut short, and reboots

ASSUME DeployAssumption ==
  /\ Hosts \subseteq {"WEB1", "DB", "WEB2", "APP"} /\ Sudo \subseteq Hosts
  /\ MaxTroubles \in Nat

Spine == "SPINE"
Leaves == {"LEAF-1", "LEAF-2"}
Sonic == {Spine} \cup Leaves

-----------------------------------------------------------------------------
(* ZTRUST_RULES: who may open a connection to whom, as the OUTPUT chain of *)
(* the one host and the INPUT chain of the other say.                      *)

APP8080 == <<"APP", 8080>>
DB3306  == <<"DB", 3306>>

Outputs == [WEB1 |-> {APP8080, DB3306}, DB |-> {},
            WEB2 |-> {APP8080, DB3306}, APP |-> {DB3306}]
\* Mutant: the database takes connections from the second web server only.
InputsMixed == [WEB1 |-> {}, DB |-> {<<"WEB2", DB3306>>, <<"APP", DB3306>>},
                WEB2 |-> {}, APP |-> {<<"WEB1", APP8080>>, <<"WEB2", APP8080>>}]
Inputs  == [WEB1 |-> {}, DB |-> {<<"WEB1", DB3306>>, <<"APP", DB3306>>},
            WEB2 |-> {}, APP |-> {<<"WEB1", APP8080>>, <<"WEB2", APP8080>>}]

-----------------------------------------------------------------------------
(* The script: pairs of a node and a command, or a few that stand or fall  *)
(* together.                                                               *)

On(node, ops) == IF node \in Sonic \cup Hosts THEN [i \in DOMAIN ops |-> <<node, ops[i]>>]
                 ELSE <<>>

\* phase1_config_spine, phase1_config_leaf1 and phase1_config_leaf2; the spine
\* is configured without looking.
\* Mutant: the configuration is saved before the networks are added.
SpineOpsSavedEarly ==
  <<"address", "kernel", "save", "network", "fix-routes", "rc.local">>
SpineOps == <<"address", "kernel", "network", "fix-routes", "rc.local", "save">>
LeafOps  == <<"look", "address", "kernel", "network", "save", "fix-routes", "rc.local">>

\* phase2_config_alpine, phase3_install_packages, phase4_apply_ztrust.
\* Mutant: the chains are opened before they are emptied.
AddressOps == <<"look", "address", "net.start", "local">>
PackageOps == <<"apk">>
PolicyOpsOpened == <<"open", "flush", "drop", "rules", "iptables-save", "iptables.start">>
PolicyOps  == <<"flush", "drop", "rules", "iptables-save", "iptables.start">>

ForHosts(ops) == On("WEB1", ops) \o On("DB", ops) \o On("WEB2", ops) \o On("APP", ops)

\* phase0_gns3_precheck, which the option --skip-gns3 leaves out.
Precheck == <<<<"LEAF-1", "link">>, <<"LEAF-2", "link">>>>

Script ==
  Precheck \o On(Spine, SpineOps) \o On("LEAF-1", LeafOps) \o On("LEAF-2", LeafOps)
    \o <<<<Spine, "ping">>>>
    \o ForHosts(AddressOps) \o ForHosts(PackageOps) \o ForHosts(PolicyOps)
    \o <<<<Spine, "verify">>>>

VARIABLES
  at,        \* the next command of the run, 0 when no run is going on
  complete,  \* the last run that ended said DEPLOYMENT COMPLETE
  seen,      \* what "look" found there: the commands it guards are skipped
  links,     \* the leaves that are cabled to the spine
  sonic,     \* a switch: its addresses, kernel, networks, and its disk
  alpine,    \* a host: its address, packages, chains, and its disk
  troubles   \* runs cut short and reboots so far

vars == <<at, complete, seen, links, sonic, alpine, troubles>>

Open   == [policy |-> "ACCEPT", rules |-> FALSE]
Locked == [policy |-> "DROP", rules |-> TRUE]
Chains == [policy : {"ACCEPT", "DROP"}, rules : BOOLEAN]

\* address: the uplink address in the configuration; kernel: it is on the
\* kernel's port and the route SONiC injects is gone; network: the VLANs of a
\* leaf, the static routes of the spine; saved: config_db.json.
SonicType == [address : BOOLEAN, kernel : BOOLEAN, network : BOOLEAN,
              saved : [address : BOOLEAN, network : BOOLEAN],
              fixroutes : BOOLEAN, rclocal : BOOLEAN]
AlpineType == [address : BOOLEAN, packages : BOOLEAN, chains : Chains,
               netstart : BOOLEAN, local : BOOLEAN, saved : Chains,
               restore : BOOLEAN]

Init ==
  /\ at = 0 /\ complete = FALSE /\ seen = FALSE
  /\ links \in SUBSET Leaves
  /\ sonic = [n \in Sonic |->
       [address |-> FALSE, kernel |-> FALSE, network |-> FALSE,
        saved |-> [address |-> FALSE, network |-> FALSE],
        fixroutes |-> FALSE, rclocal |-> FALSE]]
  /\ alpine = [h \in Hosts |->
       [address |-> FALSE, packages |-> FALSE, chains |-> Open,
        netstart |-> FALSE, local |-> FALSE, saved |-> Open, restore |-> FALSE]]
  /\ troubles = 0

-----------------------------------------------------------------------------
(* What the commands do.                                                   *)

\* config interface ip add makes SONiC put a route on its own port; ip route
\* del and ip addr add repair that.  On a leaf both are skipped together.
ConfigSonic(n, op) ==
  LET s == sonic[n]
      guarded == n \in Leaves /\ seen IN
  CASE op = "address" /\ ~guarded ->
         [s EXCEPT !.address = TRUE, !.kernel = s.kernel /\ s.address]
    [] op = "kernel" /\ ~guarded -> [s EXCEPT !.kernel = TRUE]
    [] op = "network"    -> [s EXCEPT !.network = TRUE]
    [] op = "save"       -> [s EXCEPT !.saved = [address |-> s.address,
                                                 network |-> s.network]]
    [] op = "fix-routes" -> [s EXCEPT !.fixroutes = TRUE]
    [] op = "rc.local"   -> [s EXCEPT !.rclocal = TRUE]
    [] OTHER             -> s

\* Without the iptables package its commands fail, and iptables-save leaves an
\* empty file; without sudo, so does write_remote_file.
ConfigAlpine(h, op) ==
  LET a == alpine[h] IN
  CASE op = "address" /\ ~seen   -> [a EXCEPT !.address = TRUE]
    [] op = "net.start" /\ ~seen -> [a EXCEPT !.netstart = a.netstart \/ h \in Sudo]
    [] op = "local" /\ ~seen     -> [a EXCEPT !.local = TRUE]
    [] op = "open" /\ a.packages  -> [a EXCEPT !.chains.policy = "ACCEPT"]
    [] op = "flush" /\ a.packages -> [a EXCEPT !.chains.rules = FALSE]
    [] op = "drop" /\ a.packages  -> [a EXCEPT !.chains.policy = "DROP"]
    [] op = "rules" /\ a.packages -> [a EXCEPT !.chains.rules = TRUE]
    [] op = "iptables-save" -> [a EXCEPT !.saved = IF a.packages THEN a.chains ELSE Open]
    [] op = "iptables.start" -> [a EXCEPT !.restore = a.restore \/ h \in Sudo]
    [] OTHER -> a

-----------------------------------------------------------------------------
(* The run.                                                                *)

Begin ==
  /\ at = 0 /\ at' \in {1, Len(Precheck) + 1}
  /\ complete' = FALSE /\ seen' = FALSE
  /\ UNCHANGED <<links, sonic, alpine, troubles>>

Node == Script[at][1]
Op   == Script[at][2]

\* Mutant: nothing ends the run.
AdvanceEndless == at' = at + 1 /\ complete' = (at = Len(Script))
Advance == /\ at' = IF at = Len(Script) THEN 0 ELSE at + 1
           /\ complete' = (at = Len(Script))

\* Mutant: it is created without a look, and GNS3 refuses a port in use.
LinkAnew ==
  /\ at # 0 /\ Op = "link"
  /\ IF Node \in links THEN at' = 0 /\ complete' = FALSE ELSE Advance
  /\ links' = links \cup {Node}
  /\ UNCHANGED <<seen, sonic, alpine, troubles>>

\* _ensure_links creates a link that is missing.
Link ==
  /\ at # 0 /\ Op = "link"
  /\ links' = links \cup {Node}
  /\ Advance /\ UNCHANGED <<seen, sonic, alpine, troubles>>

\* "show ip interfaces" once per leaf; per host, the address and a ping whose
\* exit status is compared with the last line of the console, prompt or not.
Look ==
  /\ at # 0 /\ Op = "look"
  /\ IF Node \in Leaves THEN seen' = sonic[Node].address
     ELSE \E lastLine \in BOOLEAN : seen' = (alpine[Node].address /\ lastLine)
  /\ Advance /\ UNCHANGED <<links, sonic, alpine, troubles>>

\* which iptables, and apk add when there is none; apk needs the Internet.
Install ==
  /\ at # 0 /\ Op = "apk"
  /\ \E online \in BOOLEAN :
        alpine' = [alpine EXCEPT ![Node].packages = @ \/ online]
  /\ Advance /\ UNCHANGED <<seen, links, sonic, troubles>>

\* "0% packet loss" is part of "100% packet loss": the test only stops the run
\* when some replies are lost and some are not, which Cut stands for.  The
\* tests of phase5_verify are counted and their result is printed.
Test ==
  /\ at # 0 /\ Op \in {"ping", "verify"}
  /\ Advance /\ UNCHANGED <<seen, links, sonic, alpine, troubles>>

Configure ==
  /\ at # 0 /\ Op \notin {"link", "look", "apk", "ping", "verify"}
  /\ IF Node \in Sonic
     THEN sonic' = [sonic EXCEPT ![Node] = ConfigSonic(Node, Op)] /\ UNCHANGED alpine
     ELSE alpine' = [alpine EXCEPT ![Node] = ConfigAlpine(Node, Op)] /\ UNCHANGED sonic
  /\ Advance /\ UNCHANGED <<seen, links, troubles>>

\* The run ends before its end: TIMEOUT or EOF of the console, no answer of
\* GNS3, no login, Ctrl-C.
Trouble == troubles < MaxTroubles /\ troubles' = troubles + 1

Cut ==
  /\ at # 0 /\ at' = 0 /\ complete' = FALSE
  /\ Trouble /\ UNCHANGED <<seen, links, sonic, alpine>>

\* A reboot, and what rc.local or the local service then does.  It takes the
\* console away from a run that is at this node.
Console(n) == IF at # 0 /\ Node = n THEN at' = 0 /\ complete' = FALSE
              ELSE UNCHANGED <<at, complete>>

Rebooted(s) ==
  [s EXCEPT !.address = s.saved.address, !.network = s.saved.network,
            !.kernel = s.fixroutes /\ s.rclocal]
RebootSonic(n) ==
  /\ sonic' = [sonic EXCEPT ![n] = Rebooted(sonic[n])]
  /\ Console(n) /\ Trouble /\ UNCHANGED <<seen, links, alpine>>

Restored(a) == IF a.restore /\ a.local /\ a.packages THEN a.saved ELSE Open
RebootAlpine(h) ==
  /\ alpine' = [alpine EXCEPT ![h] =
       [alpine[h] EXCEPT !.address = alpine[h].netstart /\ alpine[h].local,
                         !.chains = Restored(alpine[h])]]
  /\ Console(h) /\ Trouble /\ UNCHANGED <<seen, links, sonic>>

Command == Link \/ Look \/ Install \/ Test \/ Configure
Reboot == (\E n \in Sonic : RebootSonic(n)) \/ (\E h \in Hosts : RebootAlpine(h))
Next == Begin \/ Command \/ Cut \/ Reboot

\* The script goes on as long as it is not cut, and is started again when it
\* was; nothing is assumed of reboots.
Spec == Init /\ [][Next]_vars /\ WF_vars(Command) /\ WF_vars(Begin)

-----------------------------------------------------------------------------
(* What the fabric does.                                                   *)

LeafOf(h) == IF h \in {"WEB1", "DB"} THEN "LEAF-1" ELSE "LEAF-2"

Works(n) == sonic[n].address /\ sonic[n].kernel /\ sonic[n].network

Path(h, g) ==
  /\ alpine[h].address /\ alpine[g].address
  /\ IF LeafOf(h) = LeafOf(g) THEN sonic[LeafOf(h)].network
     ELSE Works(Spine) /\ \A l \in {LeafOf(h), LeafOf(g)} : Works(l) /\ l \in links

Permits(h, listed) == \/ alpine[h].chains.policy = "ACCEPT"
                      \/ alpine[h].chains.rules /\ listed

\* A connection from h to a service passes both its ends.
Passes(h, service) ==
  LET g == service[1] IN
  /\ Path(h, g)
  /\ Permits(h, service \in Outputs[h])
  /\ Permits(g, <<h, service>> \in Inputs[g])

\* The tests of phase5_verify: who, to which service, allowed or not.
Tests == {t \in {<<"WEB1", APP8080, TRUE>>, <<"WEB1", DB3306, TRUE>>,
                 <<"WEB1", <<"APP", 9999>>, FALSE>>, <<"WEB1", <<"DB", 80>>, FALSE>>,
                 <<"DB", APP8080, FALSE>>} : t[1] \in Hosts /\ t[2][1] \in Hosts}

-----------------------------------------------------------------------------
(* Properties.                                                             *)

\* Type invariant.
TypeOK ==
  /\ at \in 0..Len(Script) /\ complete \in BOOLEAN /\ seen \in BOOLEAN
  /\ links \subseteq Leaves
  /\ sonic \in [Sonic -> SonicType] /\ alpine \in [Hosts -> AlpineType]
  /\ troubles \in 0..MaxTroubles
  /\ complete => at = 0

\* A host whose rules are on its disk and will be restored never again lets a
\* packet through by default: not while the script empties and fills its chains
\* once more, not when it is cut there, not when the host then reboots.
Durable(h) == /\ alpine[h].chains.policy = "DROP" /\ alpine[h].saved = Locked
              /\ alpine[h].restore /\ alpine[h].local /\ alpine[h].packages
StaysClosed == [][\A h \in Hosts : Durable(h) => Durable(h)']_vars

\* After a complete run every switch comes back from a reboot with its
\* addresses, its networks and its kernel routes, whatever was cut before.
CompleteIsDurable ==
  complete => \A n \in Sonic :
    LET s == Rebooted(sonic[n]) IN s.address /\ s.network /\ s.kernel

\* After a complete run the fabric does what phase5_verify tests, reboots or
\* not, provided four things it does not look at: the cables when it was told not
\* to, the kernel's routes, the packages and the start-up scripts.
VerifyWouldPass ==
  /\ complete /\ links = Leaves
  /\ \A n \in Sonic : sonic[n].kernel
  /\ \A h \in Hosts : /\ alpine[h].packages
                       /\ alpine[h].local /\ alpine[h].netstart /\ alpine[h].restore
  => \A t \in Tests : Passes(t[1], t[2]) = t[3]

\* No half-made state keeps the script from running to its end: started again
\* often enough it completes.
Completes == []<>complete
=============================================================================
