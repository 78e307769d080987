---------------------------- MODULE MCDaemonStartup ----------------------------
(* Model-checking instances of DaemonStartup. *)
EXTENDS DaemonStartup

\* Three invocations one after the other, two of any processes crashing; two
\* with bdg cleanup and one crash; two racing, one crash.
Scenarios_ ==
    {[overlap |-> FALSE, cleanup |-> "none",  starts |-> 3, crashes |-> 2],
     [overlap |-> FALSE, cleanup |-> "force", starts |-> 2, crashes |-> 1],
     [overlap |-> TRUE,  cleanup |-> "none",  starts |-> 2, crashes |-> 1]}

\* Two invocations race and nothing crashes.
Race == {[overlap |-> TRUE, cleanup |-> "none", starts |-> 2, crashes |-> 0]}

\* Invocations one after the other, nothing crashes, but one may be bdg cleanup.
Tidy == {[overlap |-> FALSE, cleanup |-> "plain", starts |-> 3, crashes |-> 0]}
=============================================================================
