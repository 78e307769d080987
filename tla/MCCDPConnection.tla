---------------------------- MODULE MCCDPConnection ----------------------------
(* Model-checking instance of CDPConnection. *)
EXTENDS CDPConnection

\* The worker's connect() and one that reconnects.
Options_ ==
    {[maxRetries |-> 3, autoReconnect |-> FALSE],
     [maxRetries |-> 1, autoReconnect |-> TRUE]}
=============================================================================
