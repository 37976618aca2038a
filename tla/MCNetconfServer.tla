-------------------------- MODULE MCNetconfServer --------------------------
(***************************************************************************)
(* An instance of NetconfServer for TLC.  c1 says every kind of message,   *)
(* pipelined or one at a time; c2 comes from an address of its own or, as  *)
(* it may once c1 was reset, from the address of c1, and stays silent.     *)
(***************************************************************************)
EXTENDS NetconfServer, TLC

CONSTANTS c1, c2, a1, a2

Addressing == (c1 :> {a1}) @@ (c2 :> {a1, a2})

M(kind, text) == [kind |-> kind, text |-> text, waited |-> FALSE]
Waited(m) == [m EXCEPT !.waited = TRUE]

Operations == {M("operation", "wide"), M("operation", "wide chunks")}

Words == (c1 :> Operations \cup {Waited(m) : m \in Operations}
                \cup {M(kind, "plain") : kind \in {"hello11", "blank", "close-session"}})
      @@ (c2 :> {})

SmallQuota == (c1 :> 3) @@ (c2 :> 0)
=============================================================================
