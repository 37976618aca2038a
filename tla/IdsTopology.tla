---------------------------- MODULE IdsTopology ----------------------------
(***************************************************************************)
(* How the IDS is wired into the fabric: the scripts 09-deploy-ids.py (and *)
(* its --rollback), 12-refactor-ids-direct.py, 13-fix-ids-full.py and      *)
(* 14-ids-webapi.py.  An operator runs them one at a time, in any order;   *)
(* each is a list of calls of the GNS3 API and of the consoles, and may    *)
(* end between any two of them.  GNS3 refuses a link to a port in use,     *)
(* which ends the script.  What is typed at the consoles of the leaves and *)
(* of the IDS (routes, NAT, tc mirred, Suricata) is not part of the wiring *)
(* and is left out.                                                        *)
(***************************************************************************)
EXTENDS Naturals, Sequences

CONSTANTS
  Adapters,  \* how many network adapters the IDS node has
  MaxCuts    \* bound: scripts cut short

ASSUME TopologyAssumption == Adapters \in 2..5 /\ MaxCuts \in Nat

Leaves == {"LEAF-1", "LEAF-2"}
IDS == "IDS"

\* The nodes that the scripts make.  Two of them may have the name TAP-Hub2; a
\* third of that name is beyond the bound.
Second == {"Hub2", "Hub2b"}
Hubs == {"Hub1"} \cup Second
Tap == Hubs \cup {IDS}
LeafOf(h) == IF h = "Hub1" THEN "LEAF-1" ELSE "LEAF-2"
Adapter(l) == IF l = "LEAF-1" THEN 0 ELSE 1

Direct(l)   == <<"direct", l>>
SpineHub(h) == <<"spine-hub", h>>
HubLeaf(h)  == <<"hub-leaf", h>>
HubIds(h)   == <<"hub-ids", h>>
LeafIds(l)  == <<"leaf-ids", l>>
Nat1Ids(a)  == <<"nat-ids", a>>

Links == {<<k, l>> : k \in {"direct", "leaf-ids"}, l \in Leaves}
         \cup {<<k, h>> : k \in {"spine-hub", "hub-leaf", "hub-ids"}, h \in Hubs}
         \cup {Nat1Ids(a) : a \in 0..(Adapters - 1)}

\* The two ports of a link.  NAT1 has a port for every adapter of the IDS.
Ends(k) ==
  LET x == k[2] IN
  CASE k[1] = "direct"    -> {<<"SPINE", x>>, <<x, "uplink">>}
    [] k[1] = "spine-hub" -> {<<"SPINE", LeafOf(x)>>, <<x, 0>>}
    [] k[1] = "hub-leaf"  -> {<<x, 1>>, <<LeafOf(x), "uplink">>}
    [] k[1] = "hub-ids"   -> {<<x, 2>>, <<IDS, Adapter(LeafOf(x))>>}
    [] k[1] = "leaf-ids"  -> {<<x, "mirror">>, <<IDS, Adapter(x)>>}
    [] k[1] = "nat-ids"   -> {<<"NAT1", x>>, <<IDS, x>>}

Touching(ls, ns) == {k \in ls : \E e \in Ends(k) : e[1] \in ns}
Plugged(ls) == {a \in 0..(Adapters - 1) : \E k \in ls : <<IDS, a>> \in Ends(k)}

VARIABLES
  script,    \* the script that is running, or "none"
  todo,      \* its calls still to come
  ended,     \* the last script that ended, and how
  nodes,     \* the hubs and the IDS: absent, stopped or started
  links,     \* the links of the project
  original,  \* the leaves whose direct link has the id the script knows
  carrier,   \* the adapters of the IDS that see a carrier
  mishaps,   \* what befell the script that runs or was the last to end: "twin",
             \* it found two TAP-Hub2; "unstopped", the IDS ran on after its stop
  cuts       \* scripts cut short so far

project == <<nodes, links, original, carrier>>
vars == <<script, todo, ended, project, mishaps, cuts>>

Scripts == {"deploy", "rollback", "refactor", "fix", "relink", "webapi"}

Init ==
  /\ script = "none" /\ todo = <<>> /\ ended = <<"none", "done">>
  /\ nodes = [n \in Tap |-> "absent"]
  /\ links = {Direct(l) : l \in Leaves} /\ original = Leaves
  /\ carrier = {} /\ mishaps = {}
  /\ cuts = 0

-----------------------------------------------------------------------------
(* The scripts.                                                            *)

Both(calls) == calls["LEAF-1"] \o calls["LEAF-2"]
Present(n) == nodes[n] # "absent"
Found == {n \in Tap : Present(n)}

\* A script looks a node up by its name and takes the first of the list: of two
\* TAP-Hub2 one stays hidden.
Hidings == IF Second \subseteq Found THEN {{h} : h \in Second} ELSE {{}}

\* These calls, when n was found.
IfFound(n, hidden, calls) == IF Present(n) /\ n \notin hidden THEN calls ELSE <<>>

HubCalls(h) == <<<<"link", SpineHub(h)>>, <<"link", HubLeaf(h)>>, <<"link", HubIds(h)>>>>
DeployCalls(second) ==
  <<<<"create", "Hub1">>, <<"create", second>>, <<"create", IDS>>,
    <<"forget", "LEAF-1">>, <<"forget", "LEAF-2">>>>
  \o HubCalls("Hub1") \o HubCalls(second)
  \o <<<<"start", "Hub1">>, <<"start", second>>, <<"start", IDS>>>>

RollbackCalls(hidden) ==
  LET On(n, what) == IfFound(n, hidden, <<<<what, n>>>>)
      Each(what)  == On("Hub1", what) \o On("Hub2", what) \o On("Hub2b", what)
                     \o On(IDS, what) IN
  Each("stop") \o <<<<"unlink", Touching(links, Tap \ hidden)>>>> \o Each("delete")
  \o Both([l \in Leaves |-> <<<<"link", Direct(l)>>>>])

\* Mutant: the hubs are stopped and left there.
RefactorCallsHubsKept(hidden) ==
  LET Stop(h) == IfFound(h, hidden, <<<<"stop", h>>>>) IN
  <<<<"unlink", Touching(links, Tap \ hidden)>>>>
  \o Stop("Hub1") \o Stop("Hub2") \o Stop("Hub2b")
  \o Both([l \in Leaves |-> <<<<"restore", l>>>>])
  \o Both([l \in Leaves |-> <<<<"link", LeafIds(l)>>>>])
  \o <<<<"start", IDS>>>>
RefactorCalls(hidden) ==
  LET Drop(h) == IfFound(h, hidden, <<<<"stop", h>>, <<"delete", h>>>>) IN
  <<<<"unlink", Touching(links, Tap \ hidden)>>>>
  \o Drop("Hub1") \o Drop("Hub2") \o Drop("Hub2b")
  \o Both([l \in Leaves |-> <<<<"restore", l>>>>])
  \o Both([l \in Leaves |-> <<<<"link", LeafIds(l)>>>>])
  \o <<<<"start", IDS>>>>

\* cold_plug_ids_eth0; when the link of LEAF-1 is missing 13 only creates it.
\* Mutant: the IDS is started before the link is there again.
FixCallsHot ==
  <<<<"stop", IDS>>, <<"unlink", {LeafIds("LEAF-1")}>>,
    <<"start", IDS>>, <<"link", LeafIds("LEAF-1")>>>>
FixCalls ==
  <<<<"stop", IDS>>, <<"unlink", {LeafIds("LEAF-1")}>>,
    <<"link", LeafIds("LEAF-1")>>, <<"start", IDS>>>>

RelinkCalls == <<<<"link", LeafIds("LEAF-1")>>>>

WebApiCalls == <<<<"stop", IDS>>, <<"nat", IDS>>, <<"start", IDS>>>>

Run(s, calls) ==
  /\ script = "none" /\ script' = s /\ todo' = calls
  /\ ended' = <<"none", "done">>
  /\ mishaps' = (IF Second \subseteq Found THEN {"twin"} ELSE {})
  /\ UNCHANGED <<project, cuts>>

\* cmd_deploy refuses when it finds the first hub or the IDS; it does not look
\* for a second hub, and makes one more.
Deploy == /\ ~Present("Hub1") /\ ~Present(IDS) /\ ~(Second \subseteq Found)
          /\ Run("deploy", DeployCalls(IF Present("Hub2") THEN "Hub2b" ELSE "Hub2"))
\* cmd_rollback returns 0 when it finds none of the three.
Rollback == Found # {} /\ \E hidden \in Hidings : Run("rollback", RollbackCalls(hidden))
\* Mutant: 12 does not look whether the IDS is there.
RefactorBlind == \E hidden \in Hidings : Run("refactor", RefactorCalls(hidden))
Refactor == Present(IDS) /\ \E hidden \in Hidings : Run("refactor", RefactorCalls(hidden))
Fix == /\ Present(IDS)
       /\ IF LeafIds("LEAF-1") \in links THEN Run("fix", FixCalls)
          ELSE Run("relink", RelinkCalls)
WebApi == Present(IDS) /\ Run("webapi", WebApiCalls)

-----------------------------------------------------------------------------
(* The calls.                                                              *)

Doing(call) == todo # <<>> /\ Head(todo)[1] = call
Of == Head(todo)[2]

Then(rest) == /\ todo' = rest
              /\ IF rest = <<>> THEN script' = "none" /\ ended' = <<script, "done">>
                 ELSE UNCHANGED <<script, ended>>
              /\ UNCHANGED cuts
Go == Then(Tail(todo))

Fail == /\ script' = "none" /\ todo' = <<>> /\ ended' = <<script, "failed">>
        /\ UNCHANGED <<project, mishaps, cuts>>

\* create_node_from_template: until it is renamed nobody finds the node, and
\* nothing is linked to it, so the two calls are one.
CreateNode ==
  /\ Doing("create") /\ nodes' = [nodes EXCEPT ![Of] = "stopped"]
  /\ Go /\ UNCHANGED <<links, original, carrier, mishaps>>

\* The links go with the node.
DeleteNode ==
  /\ Doing("delete") /\ nodes' = [nodes EXCEPT ![Of] = "absent"]
  /\ links' = links \ Touching(links, {Of})
  /\ carrier' = carrier \cap Plugged(links')
  /\ Go /\ UNCHANGED <<original, mishaps>>

\* The two ids written in the script; a link that has another is not found.
ForgetOriginal ==
  /\ Doing("forget") /\ original' = original \ {Of}
  /\ links' = (IF Of \in original THEN links \ {Direct(Of)} ELSE links)
  /\ Go /\ UNCHANGED <<nodes, carrier, mishaps>>

Unlink ==
  /\ Doing("unlink")
  /\ IF Of = {} THEN Go /\ UNCHANGED <<links, carrier>>
     ELSE \E k \in Of :
            /\ links' = links \ {k} /\ carrier' = carrier \cap Plugged(links')
            /\ Then(IF Of = {k} THEN Tail(todo)
                    ELSE <<<<"unlink", Of \ {k}>>>> \o Tail(todo))
  /\ UNCHANGED <<nodes, original, mishaps>>

\* A link made while the IDS runs gives it no carrier (QEMU's hot-plug).
Linked(k) ==
  IF \E j \in links : Ends(j) \cap Ends(k) # {} THEN Fail
  ELSE /\ links' = links \cup {k}
       /\ Go /\ UNCHANGED <<nodes, original, carrier, mishaps>>

Link == Doing("link") /\ Linked(Of)

\* Mutant: the direct link is created without a look.
RestoreAnew == Doing("restore") /\ Linked(Direct(Of))
Restore ==
  /\ Doing("restore")
  /\ IF Direct(Of) \in links THEN Go /\ UNCHANGED <<project, mishaps>>
     ELSE Linked(Direct(Of))

\* The lowest adapter without a link, of the five the script looks at; the
\* node may have fewer.
FreeAdapters == {a \in 0..4 : a \notin Plugged(links)}
LowestFree == CHOOSE a \in FreeAdapters : \A b \in FreeAdapters : a <= b
LinkNat ==
  /\ Doing("nat")
  /\ IF FreeAdapters = {} \/ LowestFree >= Adapters THEN Fail
     ELSE Linked(Nat1Ids(LowestFree))

\* Starting a node that runs does nothing.
StartNode ==
  /\ Doing("start") /\ nodes' = [nodes EXCEPT ![Of] = "started"]
  /\ carrier' = (IF Of = IDS /\ nodes[IDS] = "stopped" THEN Plugged(links) ELSE carrier)
  /\ Go /\ UNCHANGED <<links, original, mishaps>>

\* stop_node swallows every error, and the script goes on with a node that may
\* still run.  (A stop that is only slow is as good as done: GNS3 starts the node
\* after it.)
StopNode ==
  /\ Doing("stop")
  /\ \/ /\ nodes' = [nodes EXCEPT ![Of] = "stopped"]
        /\ carrier' = (IF Of = IDS THEN {} ELSE carrier)
        /\ UNCHANGED mishaps
     \/ /\ nodes[Of] = "started"
        /\ mishaps' = (IF Of = IDS THEN mishaps \cup {"unstopped"} ELSE mishaps)
        /\ UNCHANGED <<nodes, carrier>>
  /\ Go /\ UNCHANGED <<links, original>>

\* GNS3 does not answer in time, or Ctrl-C.
Cut ==
  /\ script # "none" /\ cuts < MaxCuts /\ cuts' = cuts + 1
  /\ script' = "none" /\ todo' = <<>> /\ ended' = <<script, "cut">>
  /\ UNCHANGED <<project, mishaps>>

Call == \/ CreateNode \/ DeleteNode \/ ForgetOriginal \/ Unlink \/ Link \/ Restore
        \/ LinkNat \/ StartNode \/ StopNode
Next == Deploy \/ Rollback \/ Refactor \/ Fix \/ WebApi \/ Call \/ Cut

\* A script goes on until it ends or is cut.  The operator comes back, sooner
\* or later, to the deployment, the rollback and the refactoring.
Spec == /\ Init /\ [][Next]_vars /\ WF_vars(Call)
        /\ SF_vars(Deploy) /\ SF_vars(Rollback) /\ SF_vars(Refactor)

-----------------------------------------------------------------------------
(* Properties.                                                             *)

\* Type invariant.  While 12, 13 or 14 runs the IDS is there.
TypeOK ==
  /\ script \in Scripts \cup {"none"} /\ (script = "none") = (todo = <<>>)
  /\ ended \in (Scripts \cup {"none"}) \X {"done", "failed", "cut"}
  /\ nodes \in [Tap -> {"absent", "stopped", "started"}]
  /\ script \in {"refactor", "fix", "relink", "webapi"} => Present(IDS)
  /\ links \subseteq Links /\ original \subseteq Leaves
  /\ carrier \subseteq Plugged(links)
  /\ mishaps \subseteq {"twin", "unstopped"}
  /\ cuts \in 0..MaxCuts

Connected(l) == \/ Direct(l) \in links
                \/ \E h \in Hubs : LeafOf(h) = l /\ {SpineHub(h), HubLeaf(h)} \subseteq links

\* Whatever the other scripts left half done, no link that 12 makes is refused,
\* and 12 ends with the hubs gone and with its four links and no other; unless
\* it found two TAP-Hub2, of which it knows but one.
RefactorRestores ==
  ended[1] = "refactor" /\ "twin" \notin mishaps =>
    /\ ended[2] # "failed"
    /\ ended[2] = "done" =>
         /\ \A n \in Hubs : ~Present(n)
         /\ links = UNION {{Direct(l), LeafIds(l)} : l \in Leaves}

\* 13, when it found the link of LEAF-1, is never refused the new one; it and 14
\* end with the IDS started, and with a carrier on every adapter that has a link
\* when GNS3 had stopped it for them.  When it had not, or when the link was
\* missing, 13 ends as if all were well with adapter 0 blind.  14 is refused only
\* when no adapter is left.
ColdPlugged ==
  LET stopped == "unstopped" \notin mishaps IN
  /\ ended \in {<<"fix", "done">>, <<"webapi", "done">>} =>
       nodes[IDS] = "started" /\ (stopped => carrier = Plugged(links))
  /\ ended # <<"fix", "failed">>
  /\ ended = <<"fix", "done">> => (0 \in carrier <=> stopped)
  /\ ended = <<"relink", "done">> => 0 \notin carrier
  /\ ended = <<"webapi", "failed">> => Plugged(links) = 0..(Adapters - 1)

\* A leaf that a cut script left without an uplink gets it back by running 09,
\* its rollback and 12 again; no half-made wiring is beyond the three.  (Without
\* 12 some are: a deployment and a rollback can refuse each other's links for
\* ever.  Without the rollback some are: a first hub alone stops the other two.)
Repairable == \A l \in Leaves : []<>Connected(l)
=============================================================================
