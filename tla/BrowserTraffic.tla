----------------------------- MODULE BrowserTraffic -----------------------------
(***************************************************************************)
(* The network activity of a page as the Chrome DevTools Protocol reports  *)
(* it: Network.requestWillBeSent (again for every redirect, under the same *)
(* request id), responseReceived, loadingFinished and loadingFailed.  An   *)
(* external system, as telemetry/network.ts and connection/pageReadiness.ts*)
(* use it.                                                                 *)
(*                                                                         *)
(* The events of a connection are handled in the order they are sent, so   *)
(* an event and its handling are one step.                                 *)
(***************************************************************************)
EXTENDS Integers, FiniteSets

CONSTANTS
    Requests,       \* the requests the page makes, by id
    MaxHops         \* bound: redirects of one request

ASSUME RequestsAssumption == IsFiniteSet(Requests)
ASSUME HopsAssumption == MaxHops \in Nat

VARIABLES
    net,            \* how far each request has come
    hop             \* the redirect it is at

traffic == <<net, hop>>

TrafficType ==
    /\ net \in [Requests -> {"idle", "sent", "answered", "finished", "failed"}]
    /\ hop \in [Requests -> 0..MaxHops]

TrafficInit == net = [r \in Requests |-> "idle"] /\ hop = [r \in Requests |-> 0]

InFlight == {r \in Requests : net[r] \in {"sent", "answered"}}
Over == {"finished", "failed"}

Becomes(r, from, to) ==
    net[r] \in from /\ net' = [net EXCEPT ![r] = to] /\ UNCHANGED hop

RequestWillBeSent(r) == Becomes(r, {"idle"}, "sent")

Redirect(r) ==
    /\ net[r] = "sent" /\ hop[r] < MaxHops
    /\ hop' = [hop EXCEPT ![r] = @ + 1]
    /\ UNCHANGED net

ResponseReceived(r) == Becomes(r, {"sent"}, "answered")
LoadingFinished(r) == Becomes(r, {"answered"}, "finished")
LoadingFailed(r) == Becomes(r, {"sent", "answered"}, "failed")
=============================================================================
