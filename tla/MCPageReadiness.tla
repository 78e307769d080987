---------------------------- MODULE MCPageReadiness ----------------------------
(* Model-checking instance of PageReadiness. *)
EXTENDS PageReadiness
=============================================================================
