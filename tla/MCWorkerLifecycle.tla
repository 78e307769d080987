--------------------------- MODULE MCWorkerLifecycle ---------------------------
(* Model-checking instance: one worker in detail, or the browsers of two       *)
(* sessions; the two modes share nothing.                                      *)
EXTENDS WorkerLifecycle, ChromeSessions
VARIABLE mode

\* Chrome launched or borrowed; with and without the DOM snapshot and a timeout.
AllConfigs == [external : BOOLEAN, dom : BOOLEAN, timeout : BOOLEAN]

MCSessions == 1 .. 2

MCInit ==
    /\ mode \in {"worker", "sessions"}
    /\ Init
    /\ mode = "sessions" => config = [external |-> FALSE, dom |-> FALSE, timeout |-> FALSE]
    /\ ChromeInit
    /\ mode = "worker" => ~overlap

MCNext ==
    /\ UNCHANGED mode
    /\ \/ mode = "worker" /\ Next /\ UNCHANGED chromeVars
       \/ mode = "sessions" /\ ChromeNext /\ UNCHANGED vars

MCVars == <<mode, vars, chromeVars>>
WorkerSpec == MCInit /\ [][MCNext]_MCVars
MCSpec == WorkerSpec /\ Fairness

================================================================================
