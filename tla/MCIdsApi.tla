------------------------------ MODULE MCIdsApi ------------------------------
(***************************************************************************)
(* Instances of IdsApi for TLC: a list of one client, a queue and a ring   *)
(* of one entry, so that every limit is reached.                           *)
(***************************************************************************)
EXTENDS IdsApi

\* Alerts with a character beyond ASCII, and flows without.  After one alert the
\* count comes out inside its line, after two inside the second's character, and
\* after two and a flow before the flow, which is read again.
MCLines == {[kind |-> "alert", wide |-> TRUE], [kind |-> "flow", wide |-> FALSE]}
=============================================================================
