# Verification of the microsegmentation dataplane

TLA+ models, TLC runs and TLAPS proofs for the dataplane in `src/`: an ONAP
controller configures access rules over NETCONF, the Secure Framework turns them
into gNMI calls, a bridge on each leaf switch stores them in Redis and enforces
them with iptables, and an IDS host serves alerts.

    ONAP SDNC --NETCONF/TLS 6513--> Secure Framework --gNMI/mTLS 9339--> nos-acl-bridge (leaf 1)
                     REST 5000 -->  (pool, policies)  ------------------> nos-acl-bridge (leaf 2)
                                                                             |        |
                                                                       Redis DB 4   iptables
    Suricata --eve.json--> ids-api --REST, SSE--> consumers

Around it are the scripts that build the fabric: `deploy.py` configures switches
and hosts over their consoles, and the scripts 09, 12, 13 and 14 wire the IDS into
it through the API of GNS3.

## 1. Inventory

| Component | State | Operations | Talks to | What is hard |
|---|---|---|---|---|
| **nos-acl-bridge** (`nos-acl-bridge/bridge/`) | ConfigDB hashes (DB 4), snapshots of who pushed what (DB 50), chains of iptables | `Set` (deletes, then updates: validation, role check, replacement), `Get`; at start-up the base rule and `reconcile` | the framework (gNMI), Redis, `iptables` as a subprocess | four worker threads and no lock; every step is an external command that may fail; the process may die between any two of them; line numbers listed and used later |
| **NETCONF adapter and gNMI pool** (`netconf_gnmi_adapter.py`, `nos_gnmi_pool.py`) | connections by role and leaf, made at start-up and never made again | `edit-config` (native and OpenConfig), routing by zone with a fallback, delete over both leaves | sessions above, bridges below | stops at the first error; one leaf of two failing; answers lost, Sets that land later; a connection believed up until a call fails, and then still |
| **Session contexts and role policy** (`sam/session_context.py`, `sam/role_policy.py`) | per session its ONAP role, allowed list, SONiC role; the policy table behind a lock | create, close; update, reset | NETCONF server, REST | two reads under two separate locks; partial updates |
| **Role API** (`sam/role_api.py`) | none of its own | rules and policies over REST, one thread per request; reads, of which `GET /interfaces` drops a connection that fails it from the pool | pool, policy engine | concurrent with every session, and checks no role |
| **NETCONF server and session** (`netconf/`) | per connection its thread, buffer, framing, idle count; contexts by peer address | accept with the TLS handshake in the same thread, hello, receive, dispatch, reply, idle counting, close | SDNC, adapter | a stream that recv cuts anywhere, inside characters too; messages that arrive together; resets while a thread is still busy; two connections of one address |
| **IDS API** (`ids-vm/ids-api.py`) | a count of characters used as an offset into `eve.json`, two rings, list of streams, a queue each | tail, broadcast, stream, REST reads | Suricata's file, HTTP clients | a file renamed and truncated under the reader, with characters of several bytes; slow clients; a client that connects between two steps |
| **Tamper log** (`tamper_logger.py`) | a ring in memory, a file, a lock | append, read, rebuild at start-up, report | everything in the framework | a write that stops in the middle of a line; the two must agree over restarts; a Set that fails and yet took effect |
| **Zone policy scripts** (`07-apply-policy.py`, `08-verify-policy.py`, `v2-apply-policy.py`) | iptables chains of the leaves | flush and refill FORWARD | the same chains the bridge owns | runs under a live bridge |
| **gNMI client** (`gnmi/gnmiclient.py`) | connection flag | connect, Set, one read (`GET /interfaces`), monitor (not started by the pool) | bridges | a Set that fails leaves the flag as it was; the read clears it, and the pool's entry, for good (`gnmiclient.py:284`, `nos_gnmi_pool.py:104`) |
| **Fabric deployment** (`deploy.py`) | none of its own; the switches and hosts keep a running and a saved configuration | phases 0 to 5, each a list of console commands, skipped when a look finds them done | consoles of SONiC and Alpine, GNS3 | cut anywhere and run again; reboots between two commands; exit statuses nobody reads |
| **IDS wiring scripts** (`09-deploy-ids.py`, `12-`, `13-`, `14-`) | none of their own; nodes and links of the project | create, link, unlink, start, stop, delete | GNS3, console of the IDS | any order, cut anywhere, each must cope with what the others left; ports in use; two nodes of one name; stops that fail unnoticed; links made while a node runs |
| Other lab scripts, IDS demos and analyses, certificate generator, generated stubs | none | reports, key generation, console access | consoles, GNS3 | not modelled |

What makes each correct, in short: the bridge keeps ConfigDB and the packet
filter telling the same story, or lets the next start-up repair it, and never
lets an agent open anything; the framework sends a rule to the leaf that owns its
zone, says ok only for what is in effect, and always answers; the policy table
never hands out a role it does not allow; the IDS API loses no alert to a stream
it still lists and finds its way to the end of the current file; a NETCONF session
answers each request once and in order, whatever the pieces it arrives in, and
leaves nothing behind; a torn log line costs a known number of entries and no
more; and the deployment scripts can be cut anywhere and run again.

`PROJECT.json` lists the components, the runs, the map from definitions to source
lines, and 40 hazards at their lines with the properties that watch each.

## 2. Modules

    RuleSchema <--- AclBridge <--- MCAclBridge (5 configurations)
        ^             ^   \--INSTANCE--> RuleStore   (abstract)
        |             \--- AclBridgeProofs <--- AclBridgeSyncProofs
        |
        \--- SecureFramework <--- MCSecureFramework (2 configurations)
               |        ^-------- SecureFrameworkProofs
               \--> RolePolicy
    NetconfServer <--- MCNetconfServer
        ^      \--INSTANCE--> RpcExchange   (abstract)
        \--- NetconfServerProofs
    IdsApi <--- MCIdsApi        TamperLog <--- TamperLogProofs
        ^------ IdsApiProofs
    FabricDeploy <--- FabricDeployProofs
    IdsTopology  <--- IdsTopologyProofs

* **RuleSchema**: the rule record, `validate_rule`, `enforce_rbac`, the role of
  a certificate, what HSET does to an older hash, and where a priority goes in a
  chain. Of the five optional match fields two are kept, `src` and `port`: one
  that stands alone and one that depends on the protocol. Names are members of a
  set; their pattern and the comment's length are wording.
* **AclBridge**: one leaf. `configdb` is Redis DB 4, `snapshot` DB 50, `chain`
  the lines of each chain in order. One step is one call that leaves the process
  (a Redis command, one run of iptables) with the local computation up to the
  next. A `Set` runs through `SetBegin`, `ReadDelete`, `ReadUpdate`, `EraseRule`, `ListLines`,
  `CutLine`, `StoreRule`, `ApplyRule`, `TakeSnapshot`, `SetEnd`; the main thread
  through `EnsureBaseRules`, `ReadBothSides`, `ReconcileApply`,
  `ReconcileRemove`, `StartServer`. `Crash` clears what the threads hold and
  leaves Redis and iptables; the `...Fails` actions are iptables runs that fail,
  `ApplyPolicy` the flush of `07-apply-policy.py` under a running bridge.
* **RuleStore**: what a leaf promises, without threads, line numbers or restarts:
  a rule is recorded and enforced, the two may lag but a recorded rule is never
  enforced in another version. `AclBridge` implements it with `stored` as ConfigDB
  and `enforced` as what the filter does under a name (property `KeepsPromise`).
* **RolePolicy**: the policy table and `update_policy`, used by SecureFramework.
* **SecureFramework**: sessions, REST handlers, pool and the two leaves' ConfigDB.
  A step is one gNMI call or one locked access to the policy engine. What happens
  inside a bridge is one step here. A Set that is not answered is an error to its
  caller and stays in `late`, from where it may still take effect (`Lands`) until
  the leaf goes down. Each session reads the policy table twice, as the code does.
* **IdsApi**: the tail thread (`Stat`, `Open`, `ReadLine`, `AppendAlert`,
  `Broadcast`), stream handlers (`Connect`, `Deliver`, `Leave`), and, external to
  `src/`, Suricata and logrotate writing, renaming, recreating and truncating the
  file. A file is a sequence of bytes, two or three for a line, so that a line may be
  wide: have a character of two bytes. `at` is where the thread has come to, in bytes;
  `pos` is what it counts, in characters, then seeks to and compares with the size as if
  they were bytes. A seek may thus come out before lines that were read, inside a line
  or inside a character, where `readline` raises and the handler sleeps (`Pause`).
* **NetconfServer**: the accept thread (`Accept`, `HandshakeDone`,
  `HandshakeFails`), the thread of each connection (`Admit` or `Denied`, `Greet`,
  `Receive`, `Handle` or `SendFails`, `Closed`, `Cleanup`), and clients that connect
  from an address that is free, speak, close their side or are reset. A message is its kind and whether its text
  has wide characters; on the wire it is two pieces, so a recv may end inside a
  message, between two, or take several. `start` and `taken` delimit the buffer.
  `contexts` is the session manager's table by peer address. The operations behind
  a request are those of SecureFramework; here each is one reply.
* **RpcExchange**: what a peer may count on: requests answered one at a time, in
  order, none passed over. Each connection of NetconfServer implements it
  (property `Ordered`), with the requests sent as `asked` and the replies as
  `answers`.
* **TamperLog**: `log()` in two steps under its lock, ring then file; handlers that
  call it before or after the device call (`Begin`, `Device`, `Reply`), which returns or
  raises and, when it raises, may have changed the leaf all the same; the main
  thread that logs while the process starts, writes that stop in the middle of a
  line, deaths of the process and starts that read the ring back.
* **FabricDeploy**: `Script` is the list of commands of all phases, one step each;
  `Look` is a test that lets later commands be skipped. A switch and a host have
  a running and a saved state; `Rebooted` and `Restored` say what comes back. The
  fabric's forwarding and the hosts' chains (`Path`, `Permits`) are there to ask
  what `phase5_verify` asks.
* **IdsTopology**: each script is the list of calls it makes for what it finds
  (`DeployCalls`, `RollbackCalls`, `RefactorCalls`, ...), one step a call; GNS3
  refuses a port in use, which ends the script. Links have two ports each, so that
  what is refused follows from what is there. There may be two nodes named TAP-Hub2, of
  which a script finds one (`Hidings`). A stop may not reach its node (`StopNode`): the
  scripts swallow the error and go on; `mishaps` remembers both for the properties.
* **AclBridgeProofs**, **AclBridgeSyncProofs**, **SecureFrameworkProofs**,
  **NetconfServerProofs**, **IdsApiProofs**, **TamperLogProofs**,
  **FabricDeployProofs**, **IdsTopologyProofs**: the proofs of section 5. What the
  bridge keeps through races and faults is in the first module, what it takes to keep
  ConfigDB and the filter together in the second.

Definitions beginning "Mutant:" are plausible bugs of the operator they precede.
Substituting one for the operator must break a property, which shows that the
property depends on that code.

## 3. Runs

| Run | Question | Instance | Result |
|---|---|---|---|
| `bridge_serial` | One client at a time, dying anywhere: do ConfigDB and the filter end up equal? | 1 worker, 2 names, 6 bodies over two chains (two of them invalid), 7 Sets of all roles, 3 Sets carried out, 2 crashes | `TypeOK`, `ExactlyInSync`, `EstablishedKept`, `KeepsPromise` (refinement), `Converges` (liveness) hold |
| `bridge_race` | What survives two concurrent Sets, a crash and a failing iptables run or policy flush? | 2 workers, same names pushed and deleted by both, bodies of the FORWARD chain, 3 Sets | `AgentOnlyDrops`, `TopBeforeEstablished`, `RestartHeals` hold |
| `bridge_faults` | Rules that move between chains under failing commands: does a restart enforce every rule? | 1 worker, 3 Sets, 1 crash, 2 faults | `RestartEnforces` holds |
| `sf_sessions` | A session, REST requests and policy updates over two leaves, lost answers, late Sets, a leaf down, a restart into a smaller pool | 1 session, 1 REST delete, 2 requests, 2 faults, 1 update | `TypeOK`, `AckedInForce`, `DefaultAllowed`, `AgentAddsOnlyDrops`, `RoutedByZone`, `Answered` (liveness) hold |
| `ids_api` | A file with wide characters, written by halves, renamed and truncated under the reader, slow clients, a restart | 2 streams, cap, queue and ring of one, 3 events (wide alerts, plain flows), 2 files, 1 truncation | `TypeOK`, `ListedMissNothing`, `RingLeads`, `CaughtUp` (liveness) hold |
| `netconf_server` | Every way a stream falls into recvs, wide characters, pipelining, empty messages, half-closes and resets, two connections from one address or two | 1 connection with 3 messages of 7 kinds, 1 that is silent, of the same address or another, an idle limit of one | `TypeOK`, `HandledAsSent`, `ContextsOwned`, `WaitingHelps`, `Ordered` (refinement), `AnsweredInTime`, `ConnectionsEnd`, `AcceptsNext` (liveness) hold |
| `tamper_log` | Two handlers and the main thread write to the log while Sets raise after changing the leaf, writes stop half-way and the process dies | 2 operations (REST post, NETCONF push, read), ring of 2, 2 faults, 2 starts | `TypeOK`, `LossBounded`, `RingCurrent`, `StaysReadable` hold |
| `fabric_deploy` | The deployment cut anywhere and run again, with nodes that reboot between two commands | 3 switches, 3 hosts, any cables at first, 2 cuts or reboots | `TypeOK`, `CompleteIsDurable`, `VerifyWouldPass`, `StaysClosed`, `Completes` (liveness) hold |
| `ids_topology` | 09, its rollback, 12, 13 and 14 in any order, cut anywhere, with stops that fail | IDS with 3 adapters, at most two TAP-Hub2, 2 cuts | `TypeOK`, `RefactorRestores`, `ColdPlugged`, `Repairable` (liveness) hold |
| `bridge_lost_base`, `bridge_nested`, `sf_delete` | one documented claim each | as small as the case allows | violated, see section 4 |

### Why these bounds

*Bridge.* An interleaving of interest takes two Sets that overlap and one earlier
Set that leaves something behind: three Sets. A crash, the repair, and a crash
during the repair take two. One failure leaves the first disagreement and one more
can hit the repair. Two names are enough for one rule to displace another's line.
The queue, ring and cap of the IDS API are at one, so that "full" happens with the
second event. Its lines are wide alerts and plain flows: after one alert the count comes
out inside its line, after two inside the second one's character, and after two and a
flow before a line that was read already. Two requests let a retry or a delete follow a call whose Set lands
late, and two faults let a lost answer combine with a leaf down or a restart.

*NETCONF.* A hello, a request and one more message are what it takes for a message
to share a recv with the one before it, for a wide character to be cut in one
message and noticed in the next, and for a reply to be out of order; a second
connection needs only to exist: from an address of its own it waits for the accept
thread while the first is up, and from the address of the first, once that was reset,
it stores a context where the old thread still has to remove one. An idle limit of one
lets the first empty message count. The framing of base:1.0, which is that of base:1.1
without its chunks, is left to the proofs.

*Tamper log.* A torn line takes one fault and harms the entry after it; the second
fault meets the torn line of the first, in the same or the next process. A ring of
two is full with the third of the entries: two operations and two starts are four.
`starts` is bounded like the rest, since every start logs. Of the operations that
clients ask for the run has one that is logged always, one only when it succeeded, and
one before it is done; a REST delete is logged as a REST post is, a refusal as a read
is, and a NETCONF delete never (the proofs have them all).

*Scripts.* Two cuts or reboots let one hit the run that repairs the other. Three of
the four hosts cover both leaves and every role a test has (two web servers are
alike). With three adapters the IDS runs out of them at the second run of 14 after 12
(09 asks for two, with which 14 is refused after 12 at once; the proofs are for two to
five). A third TAP-Hub2 would take more cuts. A stop that is only slow counts as done:
what matters is whether GNS3 starts the node anew afterwards.

The race run keeps to the FORWARD chain, and `RestartHeals` ("exactly the rules of
ConfigDB have lines") is checked there. With rules of two chains it does not hold:
`reconcile` records one chain per name, so an orphan with a line in two chains
keeps one after the first restart. What does hold across chains is the weaker
`RestartEnforces`, which the fault run checks.

The bridge configurations switch deadlock checking off: when the bounded number of
Sets and crashes is used up the server waits for requests for ever, which is what a
server does; so does that of the tamper log, whose operations and starts are
bounded too. The other models never stop and are checked for deadlock.

### Fairness

* Bridge: the threads of a live process run (`WF` of each worker's handler and
  of the start-up); no thread waits for a lock, since there is none; and the unit
  file restarts the process (`Restart=always`), so after a crash the start-up runs.
* Framework: each session's handler goes on, because every gNMI call comes back,
  with an answer, with a connection error, or after `gnmi_timeout=10`. Nothing is
  assumed of clients, leaves that are down, or late Sets.
* NETCONF: a thread that can take a step takes one, and accept() takes connections
  in the order they came (`SF` of `Accept`). Nothing is assumed of clients: a
  handshake need never end, a message need never be sent. `AcceptsNext` therefore
  has the end of handshakes as its premise, and `AnsweredInTime` excepts a request
  that is stranded in the buffer.
* Scripts: the deployment goes on until it is cut and is started again; the operator
  comes back to 09, its rollback and 12 (`SF`, since each is refused in some states).
  Cuts and reboots are bounded, not fair.
* IDS API: the tail thread runs. Of the environment: a line once begun is finished
  and a renamed file is replaced. Nothing is assumed of the stream clients.

## 4. Where the code and what is said of it disagree

Each has a run that ends in a counterexample.

| Run | Code | What is said |
|---|---|---|
| `bridge_lost_base` | `iptables.py:80` lists numbers, then deletes by number, with other workers inserting in between: the ESTABLISHED line is deleted | "must always be present" (`iptables.py:91`) |
| `bridge_nested` | tags are matched as substrings (`iptables.py:75`): repairing the orphan `acl-1` deletes the line of `acl-10`, and the restart leaves it unenforced | "bring iptables in sync" (`recovery.py:42`) |
| `sf_delete` | a delete is ok though a leaf without a channel keeps the rule (`netconf_gnmi_adapter.py:317`) | "Delete rule from BOTH LEAFs" (line 315) |

Also seen while modelling, and left without a run of its own:

*Bridge*

* HSET keeps fields that a new version of a rule omits (`nos_acl_bridge.py:85`), so
  a restart may install a narrower rule than the one that was pushed, although
  `3snos-iptables.yang:47` has an omitted source match any;
* a delete asks for no role (`nos_acl_bridge.py:242`), although the README lets an
  OPERATOR get and set but not delete;
* a rule of the middle class is inserted at place 2, between two rules of the top
  class (`iptables.py:29`), which by `3snos-iptables.yang:100` override it;

* two concurrent Sets of a new name both find nothing to replace and both insert a
  line (`nos_acl_bridge.py:292`);
* `-I 2` on an empty chain fails, so a middle rule in INPUT or OUTPUT fails until
  there is another (`iptables.py:33`); a middle rule also comes before
  ESTABLISHED once a top rule exists;
* a rule-id in the body of an update overrides the one of the path;

*Framework*

* the adapter lets RETURN through, which the bridge refuses, and refuses REJECT,
  which the bridge accepts;
* a rule pushed again with a source in the other zone leaves its old version on
  the first leaf;
* deleting an OpenConfig acl-set names the set, while its entries are stored as
  set-sequence: nothing is removed;
* a policy update between the two reads of a session's context gives it a role
  outside its list (`session_context.py:111`);
* a REST delete may report success after failing on a leaf;
* `GET /interfaces` that fails takes the leaf's connection out of the pool for good
  (`role_api.py:210`, `gnmiclient.py:415`, `nos_gnmi_pool.py:104`), while a push or a
  delete that fails leaves it there;
* a REST rule whose Set raises is answered 500 and not logged (`role_api.py:540-545`,
  `572-577`), even when the leaf has changed: the answer was lost, or ConfigDB was
  written and iptables failed. `tamper_logger.py:9` has attempts logged, "success and
  failure", and the NETCONF push does log both. `LossBounded` counts what is owed on
  these terms (`Owed`);
* the thread of a connection that was reset removes the context stored for its address
  (`session_context.py:139`), which may by then be that of the next connection from
  there: `GET /sessions` leaves a live session out;
* `_delete_rule` logs nothing (`netconf_gnmi_adapter.py:314`), although the head of
  `tamper_logger.py` speaks of all data changes; the refusal of an agent's ACCEPT is
  logged in words that `_is_tampering_relevant` does not look for;

*NETCONF session*

* the buffer is looked at only after a recv (`netconf_session.py:199`): a request
  that came together with the message before it waits for the client to send more
  (`Stranded`);
* each recv is decoded by itself with errors ignored, and chunk sizes in bytes slice
  characters (`netconf_session.py:205`): wide characters may be lost, and a message
  of several chunks may no longer parse, in which case it is answered with an error;
* the handshake runs in the accept thread (`netconfserver.py:234`), so that a peer
  that does not shake hands keeps all others waiting;

*IDS API*

* a client taken off the list of streams is still served and no longer counted
  (`ids-api.py:37`), so more than 8 may be (`DATAPLANE.md:757`);
* the tail counts characters (`ids-api.py:64`) and takes the count for an offset in bytes
  (lines 49, 60). After a line with a character beyond ASCII it comes out too low: lines
  already read are read, and broadcast, again, in the rings as on the streams. When it
  comes out inside a character, `readline` raises and the handler (76-77) tries the same
  again every second until the file is replaced or shrinks, although `DATAPLANE.md:664`
  has every alert with the subscribers within 500 ms: `CaughtUp` excepts that state
  (`InCharacter`);
* a file that is truncated and grows past the count before the next `stat` is read on
  from the count: its first lines are skipped (`ids-api.py:49`), though
  `DATAPLANE.md:709` has copytruncate handled; `CaughtUp` promises the lines only of a
  file that was not truncated;
* a rename between `stat` and `open` makes the tail read the new file twice, and a
  line read while half written is lost (`ids-api.py:54`, `62`);
* `receive_message` never returns on a time-out, so the idle limit of a NETCONF
  session counts empty messages only (`netconf_session.py:249`, `717-736`);
* `get_logs` with a limit returns the oldest entries from memory and the newest
  from the file (`tamper_logger.py:352`), but its one caller with a limit is never
  reached with one.

*Scripts*

* a leaf whose uplink address was set by a run that was cut there never has its
  kernel's route repaired until it reboots (`deploy.py:304`), and the run still ends
  with DEPLOYMENT COMPLETE: `VerifyWouldPass` has that as one of its provisos;
* the tests of `deploy.py` can hardly fail: "0% packet loss" is part of "100% packet
  loss" (line 398), and PASS and BLOCKED are looked for in text that has the echoed
  command;
* a rollback that was cut after deleting the nodes returns 0 when it is run again and
  leaves the leaves unconnected (`09-deploy-ids.py:403`); a deployment after a
  rollback does not find the direct links by the ids it knows (line 330), so the
  ports refuse its hubs, and the two can refuse each other for ever; 12 gets out of
  both, and a first hub that is alone stops 09 and 12 until the rollback is run:
  `Repairable` needs all three;
* the deployment looks for TAP-Hub1 and the IDS but not for a TAP-Hub2 that a cut
  rollback left (`09-deploy-ids.py:298-303`), and makes a second of that name; 12 and the
  rollback find only one of the two, and 12 may then be refused or leave one behind;
* 13 and 14 swallow a failing stop (`13-fix-ids-full.py:207-212`,
  `14-ids-webapi.py:195-199`) and relink an IDS that runs, where their comments have it
  stopped ("cold-plug: IDS đang stopped", 13:485 and 14:286); 13 then ends with the
  adapter it wanted to repair without a carrier, as if all were well: `ColdPlugged` says
  so;
* 13, when the link of LEAF-1 is missing, creates it without stopping the IDS
  (`13-fix-ids-full.py:468`), which leaves it without a carrier, the fault its step is
  there to repair, and appends the same
  MASQUERADE rule on every run;
* 14 takes the lowest free adapter on every run (`14-ids-webapi.py:284`), a mirror's
  if that is free; when none is left it ends with the IDS stopped.

## 5. Proofs

Every safety and action property that a passing run checks, and both refinements,
are proved with TLAPS: for every set of names, workers, sessions, connections, streams
or handlers, every request and every bound. "If" names the conditions on the constants
a theorem has beyond the assumptions of its module.

| Theorem | Statement |
|---|---|
| `AclBridgeProofs!Invariant`, `TypeCorrect` | `Spec => []IInv`; `Spec => []TypeOK`: ConfigDB holds only rules with every field in range |
| `AclBridgeProofs!AgentsOnlyDrop` | `Spec => []AgentOnlyDrops` |
| `AclBridgeProofs!TopBeforeEstablishedAlways` | `Spec => []TopBeforeEstablished` |
| `AclBridgeSyncProofs!OrderKept`, `EstablishedAlwaysKept` | `Spec => []OrderInv`; `Spec => []EstablishedKept`, if `Alone` |
| `AclBridgeSyncProofs!RestartAlwaysInstalls` | an undisturbed start-up installs every stored rule iptables takes, if `NamesApart` |
| `AclBridgeSyncProofs!RestartAlwaysEnforces` | `Spec => []RestartEnforces`, if `NamesApart`, `BodiesPlaceable` |
| `AclBridgeSyncProofs!RestartAlwaysHeals` | `Spec => []RestartHeals`, if `NamesApart`, `BodiesPlaceable` and, for some chain c, `BodiesIn(c)` |
| `AclBridgeSyncProofs!SyncKept`, `AlwaysExactlyInSync` | `Spec => []SyncInv`; `Spec => []ExactlyInSync`, if `Undemanding` |
| `AclBridgeSyncProofs!PromiseKept`, `AlwaysNeverStale` | `Spec => KeepsPromise`: the bridge implements `RuleStore`; hence `Spec => []Store!NeverStale`, if `Undemanding` |
| `SecureFrameworkProofs!TypeCorrect` | `Spec => []TypeOK` |
| `SecureFrameworkProofs!AckedAlwaysInForce` | `Spec => []AckedInForce` |
| `SecureFrameworkProofs!AgentsAddOnlyDrops` | `Spec => AgentAddsOnlyDrops` |
| `SecureFrameworkProofs!AlwaysRoutedByZone` | `Spec => RoutedByZone` |
| `SecureFrameworkProofs!DefaultAlwaysAllowed` | `Spec => []DefaultAllowed` |
| `NetconfServerProofs!TypeCorrect` | `Spec => []TypeOK` |
| `NetconfServerProofs!AlwaysOrdered` | `Spec => Ordered`: every connection implements `RpcExchange` |
| `NetconfServerProofs!AlwaysHandledAsSent` | `Spec => []HandledAsSent` |
| `NetconfServerProofs!WaitingAlwaysHelps` | `Spec => []WaitingHelps` |
| `NetconfServerProofs!ContextsAlwaysOwned` | `Spec => []ContextsOwned` |
| `IdsApiProofs!TypeCorrect` | `Spec => []TypeOK`: rings, queues and the client list keep their limits |
| `IdsApiProofs!ListedNeverMiss` | `Spec => []ListedMissNothing` |
| `IdsApiProofs!RingAlwaysLeads` | `Spec => []RingLeads` |
| `TamperLogProofs!TypeCorrect` | `Spec => []TypeOK`: the ring keeps its limit, ring and file hold entries only, and torn lines |
| `TamperLogProofs!LossAlwaysBounded` | `Spec => []LossBounded`: of entries written and of answered changes the log owes, pushes that raised after changing the leaf among them |
| `TamperLogProofs!RingAlwaysCurrent` | `Spec => []RingCurrent` |
| `TamperLogProofs!AlwaysStaysReadable` | `Spec => StaysReadable` |
| `FabricDeployProofs!TypeCorrect`, `AlwaysDeployed` | `Spec => []TypeOK`; `Spec => []Deployed`: a node is as the commands that are past have made it |
| `FabricDeployProofs!CompleteAlwaysDurable` | `Spec => []CompleteIsDurable` |
| `FabricDeployProofs!VerifyAlwaysPasses` | `Spec => []VerifyWouldPass` |
| `FabricDeployProofs!AlwaysStaysClosed` | `Spec => StaysClosed` |
| `IdsTopologyProofs!TypeCorrect` | `Spec => []TypeOK`: an adapter has a carrier only when a link is on it, and 12, 13 and 14 never lose the IDS |
| `IdsTopologyProofs!RefactorAlwaysRestores` | `Spec => []RefactorRestores` |
| `IdsTopologyProofs!AlwaysColdPlugged` | `Spec => []ColdPlugged` |

**Assumptions.** Bridge: `NamesAssumption` (no name is a base tag or "no name", nor
is "no name" a chain; a name starts with itself), `ThreadsAssumption` (the main thread
is not a worker), `RequestsAssumption` (a valid body is a rule record),
`BoundsAssumption`. Framework: two different leaves; zones, pools and certificates map
to what exists; a body has the fields of a rule, of any value; an update names known
roles; "none" is no name, reply or session. NETCONF server: `ClientsAssumption` (a slot
has addresses to connect from, a vocabulary of messages and a quota; `max_idle` is
positive). IDS API:
`LimitsAssumption` (limits are positive), `LinesAssumption` (a line has a kind and is wide
or not). Tamper log:
`TamperAssumption` (positive ring; the main thread is no handler; no client asks for a
start). Deployment: `DeployAssumption` (the hosts are among the four of the script).
Wiring: `TopologyAssumption` (the IDS has two to five adapters, the two that mirrors use
and no more than 14 looks at). TLC evaluates them for every instance.

**Conditions of single theorems.** What the bridge keeps beyond its invariant depends
on how it is used, and the theorems say how:

* `Alone`: one worker, and no failing iptables run or policy flush. Without it
  `bridge_lost_base` loses the ESTABLISHED rule.
* `NamesApart`: no name starts with another; tags are looked for as substrings. Without
  it `bridge_nested` has a start-up that deletes the line of a stored rule. Names of one
  length, as in `acl-001`, are apart.
* `BodiesPlaceable`: iptables takes what clients send. It refuses a port without a
  protocol that has ports, and `-I 2` on a chain that has no base rule, which is any but
  FORWARD. A rule that it refuses stays in ConfigDB without a line;
  `RestartAlwaysInstalls` needs no such condition and speaks of the others.
* `BodiesIn(c)`: all rules are for one chain, since `reconcile` records one chain per
  name.
* `BodiesOverwrite`: a new version sets every optional field that an older one had (HSET
  keeps the others: section 4), and `NamedByPath`: no body brings a rule-id of its own.
* `Undemanding` is all of these but `BodiesIn`: rules may move between chains.

`bridge_serial` satisfies all but `BodiesIn`, `bridge_faults` all but `Alone` and
`BodiesIn`, `bridge_race` all but `Alone`: no condition is empty.

**The bridge's invariant.** `TypeOK` is not inductive: a worker at `store` writes
the body it carries, which is a rule only because an earlier step validated it,
and `reconcile` looks up the chain of a name only because it has listed it.
`IInv` adds `StartupAlone` (no handler runs before the server starts),
`TargetOK` (whoever lists or deletes lines knows of which rule in which chain),
`EntryOK` (past its first step an entry has a name, and an update a valid body) and
`TodoOK` (what reconcile removes was listed). Each action has a lemma; the lemmas
`WorkerStep` and `MainStep` carry the part the other threads keep.

**Agents only drop.** From `IInv`, a step leaves ConfigDB's rule of a name as it
was, erases it, or writes a valid body over it, and HSET takes action and source
from the new body (`ConfigSteps`); a line of the filter is old, a base line, or
carries an admitted rule (`ChainSteps`, `LineOrigins`).

**Top rules before ESTABLISHED.** Inserting at the position of a rule's class,
deleting any line, and appending a base line keep every top rule before the
ESTABLISHED line (`InsertedOrdered`, `RemovedOrdered`, `AppendedOrdered`), whatever
line a stale number hits: that is why it holds with races although
`EstablishedKept` does not.

**Line numbers.** `iptables.py` lists numbers and deletes by number later. `OrderInv`
says when that is safe: while nothing has disturbed a process, and for a lone client, the
numbers a thread holds are lines of the name it is after (`Listed`), and the base rule is
there once it was installed. It is inductive because a lone client's thread changes no
other line between its listing and its cuts, and a start-up runs before any worker.

**Restarts.** `StartInv`: in an undisturbed start-up a stored rule has its line, is still
to be repaired, or is not one that iptables takes; what is being removed is an orphan. It
is true when `reconcile` has compared the two sides and each repair keeps it: only with
`NamesApart` does removing one name leave the others' lines. `StoredInv` adds that what
is stored was sent, port by port, since HSET mixes versions. `OneChainInv(c)` adds that
no name has a line outside c, so that an orphan is removed entirely.

**Exact agreement, and the refinement.** `SyncInv` says of each name that it has at most
one line, that a line of a stored rule is in its chain with its content (`NameOK`), and
that either both sides agree or somebody is at work on it who will make them (`Underway`):
a handler past its first removal, or the start-up. `HandlerOK` is what the handler relies
on between its steps (nothing enforced while it stores, only an orphan left while it
deletes), `ReconcileInv` what the start-up does: with one client nothing has drifted, so
it only installs and removes. At rest nobody is at work, which is `ExactlyInSync`. For
`KeepsPromise` each step is mapped: storing a rule is a `Record` since nothing is enforced
then, erasing an `Erase`, the insertion of a line an `Enforce`, the cut of the last line a
`Relax`, a crash or a listing a stutter (`HandlerMapped`, `StartupMapped`,
`StutterMapped`). What `RuleStore` promises follows from its steps alone
(`AlwaysNeverStale`).

**The framework's invariant.** `IInv` adds to `TypeOK` that a session past its
handshake has a role and a channel and, in a delete, an entry and a leaf left
(`SessionsPoised`), the same of REST deletes (`RestPoised`), that an agent's Set
under way has been stamped (`LateStamped`), and `DefaultAllowed`. The two action
properties then follow from `Writers`: only a session's push, a late Set or a REST
push changes a rule.

**What an ok means.** `AckInv` says of a session under way that the entries it has
passed are in effect, each name as the last entry for it says, but for the one it is
about to delete (`KeptIn`); `AckedInForce` is its last case. The condition "nobody else
has written" is a flag that a REST handler, another session, a late Set or a restart
clears, and under it the store changes by this session's calls only (`Untouched`). With
both leaves connected a delete calls both (`Called`).

**The NETCONF server's invariant.** None of its properties is inductive: a request
is answered in order only because the buffer begins at a message, and because what
was split off before was answered. `IInv` has, per connection, `ThreadOK` (a thread
runs from the end of the handshake until it frees the socket, `LinkOK`; the buffer
begins at a message and has lost exactly the hello when the loop starts, `FreshOK`;
an idle count at its limit ends the loop, `IdleOK`) and `SessionOK` (no hello after
the first message and only wide messages torn, `KindsOK`; the message in hand is the
last one split off, `HandOK`; what was answered is done with and, short of the end,
what is done with was answered, `RepliesOK`; a message its client waited to send is
read only when all before it are done with, `WaitOK`). `Others` and `Frame` carry the
connections a step is not about; `ReceivePart` and `ReceiveWhole` are the two ways a
recv can end. For `Ordered`, a message said is an `Ask` or a stutter, the reply to
the message in hand is an `Answer` because `HandOK` and `RepliesOK` make it the oldest
request without one, a cleanup is an `End`, and no other step touches either sequence.

**The IDS API's invariant.** `FilesOK` says that a file is bytes of lines, `TailOK` that the thread has a file past its open and an alert past its
line, wherever its count made it seek,
`StreamsOK` that a listed stream has taken no more than was broadcast since it
connected: that makes its queue an end of `sent`, and an end of a sequence grows with
it (`FromAppend`). The ring stays the newest of `sent` because cutting before or after
an append comes to the same (`NewestOfNewest`).

**The tamper log's invariant.** Counting needs a torn line to be told from a lost
entry: `LostOK` says that written entries missing from the file, plus one while the
last line has no end, are at most the faults. It is inductive because that last line
was never an entry whose write returned (`TailOK`), which follows from each operation
having its own number and being written once (`NumbersOK`). `UnwrittenOK` counts the
changes that the log owes (`Owed`), whose handler is past its log call, and whose write
failed; the two add up to `LossBounded`. A REST call that raised is past nothing: it is
not owed, which is what the code does and section 4 objects to.

**The tamper log's ring.** `RingOK` says that no entry is twice in the file (`Once`),
that what a handler has still to push or write is in neither (`FreshOK`), and that the
ring follows the file (`Follows`): entries on it are distinct, in the order of the file,
and an entry of the file missing from it is a ring's length from the end or older than a
full ring. Reading the ring back after a crash establishes that (`UpTo` picks the last
readable lines, by induction on the lines read), a push and a write keep it.

**The deployment's invariant.** `Script` is one fixed list, so the proof first finds
each command's place in it (`Marks`): a node's commands stand together and in order.
`Deployed` says that what is before the place the run has reached is done and, once
saved, on the disk (`SwitchGood`, `HostGood`), and that a look is still right when it lets
a command be skipped (`Looked`). A reboot of the node the run is at cuts the run, so it
starts again at the first command; by the time it leaves a node, what matters there is on
its disk. `VerifyWouldPass` then follows test by test from the hosts' rules, the switches'
networks and the cables.

**The wiring's invariant.** `Wired` adds to `TypeOK` and the two properties that what is
left of a script is a list of calls (`Listed`), that nothing is said of the script that
ended while another runs (`Fresh`), that no two links share a port (`Apart`), that no call
left to 12, 13 or 14 deletes the IDS they found (`Spared`), and `Stages`, which says how
far they have come: the list of calls left is one of a few, and each goes with what was
made so far. 12, unless it found two TAP-Hub2, first removes every link but the direct
ones (`UnlinkStep`), after which a hub has no link and can be dropped (`DropStep`), the
missing direct links are made (`RestoreStep`) and the ports of the mirrors are free
(`WireStep`): so no link is refused and the last call leaves exactly four. 13 (`FixStep`)
has adapter 0 free once it has removed its link, so that the new one is not refused; the
IDS is stopped while its links change if the stop reached it (`StopStep`; `Held`,
`Stance`), and then starts with every carrier (`StartStep`); if not, the start does
nothing and the adapter, whose carrier went with the old link, stays blind. 13 without
that link (`RelinkStep`) is the second case alone. For 14 (`WebStep`) the lowest free
adapter is free at NAT1 too (`NatFacts`), so only a want of adapters refuses it. Any other
script, a cut and a failure say nothing of `ended` that the properties speak of.

## 6. Only model-checked

Liveness (`Converges`, `Answered`, `CaughtUp`, `AnsweredInTime`, `ConnectionsEnd`,
`AcceptsNext`, `Completes`, `Repairable`) is outside what the prover handles and is
checked on the instances above. The bridge's properties under conditions are proved as far
as the conditions go; where they do not hold, the runs of section 4 and the remarks there
say what happens. The three runs of section 4 are counterexamples, not theorems.

## 7. Not modelled

* Redis failing, its 24-hour expiry of snapshots, `Get` and other reads: they
  change no state the properties are about.
* What a REST caller is told; log and status endpoints; the service-account
  endpoints, which always refuse as `app.py` passes no account.
* `reconnect`, `import_policies` and the gNMI monitor: no caller.
* What a NETCONF reply says: the building of data, schemas and the hello.
* Hashes, identities, reports and filters of the tamper log: functions of what is
  logged. `clear_logs`: no caller.
* What the wiring scripts type at the consoles of the switches and of the IDS (routes,
  NAT, tc mirroring, Suricata), the earlier API that 14 installs as text, and its port
  forward.
* `GET /interfaces` dropping a connection from the pool: the pool it leaves is one that a
  start may come out with, and those are modelled.
* What is inside one command of the deployment: `iptables-save > file` and `tee` are one
  step each, so a reboot between the truncation of the file and the end of the writing
  (`deploy.py:560`), which would bring a host up with no rules, is not covered by
  `StaysClosed`.
* Python's reading ahead in `ids-api.py`: a `readline` sees the bytes that are in the file
  when it is called. A line cut just before its end of line parses and counts as whole.
* The zone matrix of the policy scripts: planned below.
* Reports, demos, certificate generation, console access, generated stubs: they keep
  no state, or are generated.

## 8. Plan

1. `ZonePolicy`: the rule list of the policy scripts as an operator, evaluated first
   match first, against the zone matrix as reference.
2. `Dataplane`: the framework over two bridges' `RuleStore` instead of one-step
   leaves, so that an ok of the framework is related to the filter.
3. Proofs: what `bridge_race` keeps of single names when names are not apart, and
   `RestartHeals` after a second start-up for rules of several chains.
