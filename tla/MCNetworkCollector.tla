--------------------------- MODULE MCNetworkCollector ---------------------------
(* Model-checking instance of NetworkCollector. *)
EXTENDS NetworkCollector

\* One request is redirected to a URL that is filtered.
Filtered_ == {<<CHOOSE r \in Requests : TRUE, 1>>}
=============================================================================
