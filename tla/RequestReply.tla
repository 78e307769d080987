------------------------------ MODULE RequestReply ------------------------------
(***************************************************************************)
(* What the daemon promises its clients, with nothing said of how: a       *)
(* request is answered at most once and its answer never changes; a client *)
(* settles once, with the answer or with a failure, and the failure        *)
(* "closed" only if there was no answer to read; nobody waits for ever.    *)
(***************************************************************************)
CONSTANTS Requests

VARIABLES
    client,     \* each client: idle, waiting, or what its promise settled to
    answer      \* the answer given to each request, or "none"

vars == <<client, answer>>

Outcome == {"ok", "error"}

Init ==
    /\ client = [r \in Requests |-> "idle"]
    /\ answer = [r \in Requests |-> "none"]

\* A client sends its request, or finds nobody to send it to.
Send(r) ==
    /\ client[r] = "idle"
    /\ \E s \in {"waiting", "closed"} : client' = [client EXCEPT ![r] = s]
    /\ UNCHANGED answer

\* Requests sent and not answered get their answer, several at once when they
\* share a fate.
AnswerSome(S, out) ==
    /\ \A r \in S : client[r] # "idle" /\ answer[r] = "none"
    /\ answer' = [r \in Requests |-> IF r \in S THEN out ELSE answer[r]]
    /\ UNCHANGED client

\* A waiting client takes its answer, gives up, or is cut off unanswered.
Settle(r) ==
    /\ client[r] = "waiting"
    /\ \E s \in {answer[r], "timedOut", "closed"} :
          /\ s # "none"
          /\ s = "closed" => answer[r] = "none"
          /\ client' = [client EXCEPT ![r] = s]
    /\ UNCHANGED answer

Next ==
    \/ \E r \in Requests : Send(r) \/ Settle(r)
    \/ \E S \in SUBSET Requests, out \in Outcome : AnswerSome(S, out)

Spec == Init /\ [][Next]_vars /\ \A r \in Requests : WF_vars(Settle(r))
=============================================================================
