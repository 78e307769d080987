---------------------------- MODULE NetworkCollector ----------------------------
(***************************************************************************)
(* telemetry/network.ts: the collector that turns the events of a page's   *)
(* requests into the entries of TelemetryStore.networkRequests, which peek,*)
(* details and session.json show.                                          *)
(*                                                                         *)
(* One action is one callback: an event, the cleanup interval, the answer  *)
(* to a Network.getResponseBody call, the cleanup function.  An entry keeps*)
(* its request's id, the redirect its URL and method come from, its status *)
(* and its body; time is whether 60 s have passed.                         *)
(***************************************************************************)
EXTENDS BrowserTraffic, Sequences

CONSTANTS
    MaxRequests,    \* MAX_NETWORK_REQUESTS, the limit of the map and of the list
    Filtered,       \* the requests, at a redirect, shouldFilterRequest() excludes
    NoEntry

ASSUME MaxRequestsAssumption == MaxRequests \in Nat \ {0}
ASSUME FilteredAssumption == Filtered \subseteq Requests \X (0..MaxHops)

VARIABLES
    collecting,     \* the handlers are registered
    requestMap,     \* the request under each id being tracked
    requests,       \* the entries recorded
    unseen,         \* history: requests begun while nothing was collected
    squeezed,       \* history: requests of which an event found the map full
    expired         \* history: requests the stale cleanup removed

history == <<unseen, squeezed, expired>>
vars == <<traffic, collecting, requestMap, requests, history>>

Tracked == [hop : 0..MaxHops, status : {"none", "received"}, old : BOOLEAN]
ASSUME NoEntryAssumption == NoEntry \notin Tracked

\* fetching: the body is asked for; gone: Chrome has not kept it.
Body == {"none", "skipped", "fetching", "fetched", "gone"}
Entry == [id : Requests, hop : 0..MaxHops, status : {"none", "received", "zero"}, body : Body]

TypeOK ==
    /\ TrafficType
    /\ collecting \in {"off", "on", "stopped"}
    /\ requestMap \in [Requests -> Tracked \cup {NoEntry}]
    /\ requests \in Seq(Entry) /\ Len(requests) <= MaxRequests
    /\ unseen \subseteq Requests /\ squeezed \subseteq Requests /\ expired \subseteq Requests

Init ==
    /\ TrafficInit
    /\ collecting = "off"
    /\ requestMap = [r \in Requests |-> NoEntry]
    /\ requests = <<>>
    /\ unseen = {} /\ squeezed = {} /\ expired = {}

InMap == {r \in Requests : requestMap[r] # NoEntry}
\* The URL decides, which is that of the redirect the entry was made at.
ShouldFilter(r) == <<r, requestMap[r].hop>> \in Filtered

\* Network.enable has been answered and the handlers are registered.
Start ==
    /\ collecting = "off"
    /\ collecting' = "on"
    /\ UNCHANGED <<traffic, requestMap, requests, history>>

\* Mutant: a redirect does not replace the entry.
TrackFirst(r) ==
    IF requestMap[r] # NoEntry \/ Cardinality(InMap) >= MaxRequests
    THEN UNCHANGED requestMap
    ELSE requestMap' = [requestMap EXCEPT ![r] = [hop |-> hop'[r], status |-> "none", old |-> FALSE]]

\* The requestWillBeSent handler.  A full map drops the event, of a redirect of
\* a request in the map too.
Track(r) ==
    IF Cardinality(InMap) >= MaxRequests
    THEN UNCHANGED requestMap
    ELSE requestMap' = [requestMap EXCEPT ![r] = [hop |-> hop'[r], status |-> "none", old |-> FALSE]]

Began(r) ==
    /\ IF collecting = "on" THEN Track(r) ELSE UNCHANGED requestMap
    /\ unseen' = IF collecting # "on" /\ net[r] = "idle" THEN unseen \cup {r} ELSE unseen
    /\ squeezed' = IF collecting = "on" /\ Cardinality(InMap) >= MaxRequests
                   THEN squeezed \cup {r} ELSE squeezed
    /\ UNCHANGED <<collecting, requests, expired>>

OnRequestWillBeSent(r) == RequestWillBeSent(r) /\ Began(r)
OnRedirect(r) == Redirect(r) /\ Began(r)

OnResponseReceived(r) ==
    /\ ResponseReceived(r)
    /\ requestMap' = IF requestMap[r] = NoEntry THEN requestMap
                     ELSE [requestMap EXCEPT ![r].status = "received"]
    /\ UNCHANGED <<collecting, requests, history>>

\* Mutant: the limit of the list is not checked.
RecordUnlimited(r, status, body) ==
    /\ IF requestMap[r] = NoEntry \/ ShouldFilter(r)
       THEN UNCHANGED requests
       ELSE requests' = Append(requests,
                [id |-> r, hop |-> requestMap[r].hop, status |-> status, body |-> body])
    /\ requestMap' = [requestMap EXCEPT ![r] = NoEntry]
    /\ UNCHANGED <<collecting, history>>

\* The tail of the two handlers that end a request: at the limit of the list and
\* for a filtered request nothing is recorded, but the id leaves the map.
Record(r, status, body) ==
    /\ IF requestMap[r] = NoEntry \/ Len(requests) >= MaxRequests \/ ShouldFilter(r)
       THEN UNCHANGED requests
       ELSE requests' = Append(requests,
                [id |-> r, hop |-> requestMap[r].hop, status |-> status, body |-> body])
    /\ requestMap' = [requestMap EXCEPT ![r] = NoEntry]
    /\ UNCHANGED <<collecting, history>>

\* Type, size and patterns of the response decide whether its body is fetched.
OnLoadingFinished(r) ==
    /\ LoadingFinished(r)
    /\ \E body \in {"fetching", "skipped"} : Record(r, requestMap[r].status, body)

\* Mutant: a failed request is forgotten.
OnLoadingFailedSilent(r) ==
    /\ LoadingFailed(r)
    /\ requestMap' = [requestMap EXCEPT ![r] = NoEntry]
    /\ UNCHANGED <<collecting, requests, history>>

OnLoadingFailed(r) == LoadingFailed(r) /\ Record(r, "zero", "none")

\* fetchResponseBody(): the answer goes to the entry it was asked for, recorded
\* since, whether or not the collector still runs.
BodyAnswered(i) ==
    /\ requests[i].body = "fetching"
    /\ \E body \in {"fetched", "gone"} : requests' = [requests EXCEPT ![i].body = body]
    /\ UNCHANGED <<traffic, collecting, requestMap, history>>

\* A tracked request is now more than 60 s old.
Ages(r) ==
    /\ r \in InMap /\ ~requestMap[r].old
    /\ requestMap' = [requestMap EXCEPT ![r].old = TRUE]
    /\ UNCHANGED <<traffic, collecting, requests, history>>

Stale == {r \in InMap : requestMap[r].old}

\* Mutant: a request that has its response is not cleaned up.
CleanupUnanswered ==
    /\ collecting = "on" /\ Stale # {}
    /\ requestMap' = [r \in Requests |-> IF r \in Stale /\ requestMap[r].status = "none"
                                        THEN NoEntry ELSE requestMap[r]]
    /\ expired' = {r \in Requests : r \in expired \/ (r \in Stale /\ requestMap[r].status = "none")}
    /\ UNCHANGED <<traffic, collecting, requests, unseen, squeezed>>

\* The interval every 30 s; nothing changes unless something is stale.
CleanupStale ==
    /\ collecting = "on" /\ Stale # {}
    /\ requestMap' = [r \in Requests |-> IF r \in Stale THEN NoEntry ELSE requestMap[r]]
    /\ expired' = expired \cup Stale
    /\ UNCHANGED <<traffic, collecting, requests, unseen, squeezed>>

\* The cleanup function the collector returned.
Stop ==
    /\ collecting = "on"
    /\ collecting' = "stopped"
    /\ requestMap' = [r \in Requests |-> NoEntry]
    /\ UNCHANGED <<traffic, requests, history>>

Event(r) ==
    \/ OnRequestWillBeSent(r) \/ OnRedirect(r) \/ OnResponseReceived(r)
    \/ OnLoadingFinished(r) \/ OnLoadingFailed(r)

Next ==
    \/ Start \/ Stop \/ CleanupStale
    \/ \E r \in Requests : Event(r) \/ Ages(r)
    \/ \E i \in DOMAIN requests : BodyAnswered(i)

Spec == Init /\ [][Next]_vars

\* The interval fires.  Nothing is assumed of the browser.
FairSpec == Spec /\ WF_vars(CleanupStale)

(***************************************************************************)
(* Properties.                                                             *)
(***************************************************************************)
\* Entry i tells of its request what happened to it: it is over, it failed exactly
\* when the status is 0 (network.ts:244), a finished one has had its response, and
\* the URL is that of the last redirect unless an event found the map full.
Agrees(i) ==
    LET e == requests[i] IN
    /\ net[e.id] \in Over /\ <<e.id, e.hop>> \notin Filtered
    /\ (e.status = "zero") <=> (net[e.id] = "failed")
    /\ net[e.id] = "finished" => e.status = "received" /\ e.body # "none"
    /\ net[e.id] = "failed" => e.body = "none"
    /\ e.id \notin squeezed => e.hop = hop[e.id]

\* Every entry agrees with the browser and no request is recorded twice, in
\* spite of redirects that reuse an id and of a map cleaned behind its back.
EntriesAgree ==
    /\ \A i \in DOMAIN requests : Agrees(i)
    /\ \A i, j \in DOMAIN requests : requests[i].id = requests[j].id => i = j

\* A request is followed from its first event on: unless it was under way before,
\* met a full map or was given up as stale, it is in the map while it is in flight ...
Followed == Requests \ (unseen \cup squeezed \cup expired)
InFlightIsTracked ==
    collecting = "on" => \A r \in Followed \cap InFlight : requestMap[r] # NoEntry

\* ... and when it is over it is recorded, while the list has room.
NothingLost ==
    /\ InFlightIsTracked
    /\ collecting = "on" /\ Len(requests) < MaxRequests =>
           \A r \in Followed :
              net[r] \in Over /\ <<r, hop[r]>> \notin Filtered => \E i \in DOMAIN requests : requests[i].id = r

\* The list is true and lacks nothing.
RecordIsTrue == EntriesAgree /\ NothingLost

\* A request that never ends does not keep its place in the map (network.ts:79).
StaleGoes == \A r \in Requests : r \in Stale ~> r \notin Stale
=============================================================================
