---------------------------- MODULE MCDaemonServer ----------------------------
(* Model-checking instances of DaemonServer. *)
EXTENDS DaemonServer, TLC

\* Clients are interchangeable, and so are worker processes.
Symmetry == Permutations(Requests) \cup Permutations(Workers)
=============================================================================
