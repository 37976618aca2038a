---------------------------- MODULE RpcExchange ----------------------------
(***************************************************************************)
(* What a NETCONF peer may count on from one session: the requests it has  *)
(* made are answered one at a time, each at most once, in the order they   *)
(* were made, none of them passed over; the session may end at any time    *)
(* and takes both sequences with it.  Only requests are counted: the hello *)
(* and messages with nothing in them are not.                              *)
(***************************************************************************)
EXTENDS Naturals, Sequences

VARIABLES asked,    \* the requests of the session, by their place in it
          answers   \* the requests that have had their reply, in that order

vars == <<asked, answers>>

Init == asked = {} /\ answers = <<>>

Open == asked \ {answers[i] : i \in DOMAIN answers}

\* The peer makes one more request.
Ask == \E n \in asked' \ asked :
         /\ asked' = asked \cup {n} /\ \A m \in asked : m < n
         /\ UNCHANGED answers

\* The oldest request without a reply gets one.
Answer == \E n \in Open :
            /\ \A m \in Open : n <= m
            /\ answers' = Append(answers, n) /\ UNCHANGED asked

\* The session is over.
End == asked' = {} /\ answers' = <<>>

Next == Ask \/ Answer \/ End

Spec == Init /\ [][Next]_vars
=============================================================================
