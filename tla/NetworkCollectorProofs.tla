------------------------- MODULE NetworkCollectorProofs -------------------------
(***************************************************************************)
(* Safety of NetworkCollector for every finite set of requests, any number *)
(* of redirects, every limit and every filter.                             *)
(***************************************************************************)
EXTENDS NetworkCollector, FiniteSetTheorems, TLAPS

USE RequestsAssumption, HopsAssumption, MaxRequestsAssumption, FilteredAssumption,
    NoEntryAssumption

\* What the map says of a request: it is in flight, it has its response or not,
\* and this is the redirect it is at.
MapAgrees ==
    \A r \in Requests : requestMap[r] # NoEntry =>
        /\ collecting = "on" /\ r \in InFlight
        /\ requestMap[r].status = "received" <=> net[r] = "answered"
        /\ r \notin squeezed => requestMap[r].hop = hop[r]

\* What began before the handlers were registered was not seen.
EarlierIsUnseen ==
    collecting = "off" => \A r \in Requests : net[r] # "idle" => r \in unseen

IInv ==
    /\ TypeOK /\ MapAgrees /\ EarlierIsUnseen
    /\ EntriesAgree /\ NothingLost

\* The entry of a request that is over is not disturbed by the events of others.
LEMMA EntriesKept ==
    ASSUME IInv, requests' = requests, squeezed \subseteq squeezed',
           \A r \in Requests : net[r] \in Over => net'[r] = net[r] /\ hop'[r] = hop[r]
    PROVE  EntriesAgree'
<1> SUFFICES ASSUME NEW i \in DOMAIN requests
             PROVE  Agrees(i)'
  BY DEF IInv, EntriesAgree
<1>1. Agrees(i) /\ requests[i] \in Entry
  BY DEF IInv, TypeOK, EntriesAgree
<1>2. net'[requests[i].id] = net[requests[i].id] /\ hop'[requests[i].id] = hop[requests[i].id]
  BY <1>1 DEF Agrees, Entry
<1> QED
  BY <1>1, <1>2 DEF Agrees

\* The types of a new entry of the map.
LEMMA TrackedType ==
    ASSUME NEW h \in 0..MaxHops
    PROVE  /\ [hop |-> h, status |-> "none", old |-> FALSE] \in Tracked
           /\ [hop |-> h, status |-> "none", old |-> FALSE] # NoEntry
<1>1. [hop |-> h, status |-> "none", old |-> FALSE] \in Tracked
  BY DEF Tracked
<1> QED
  BY <1>1

\* The handler of requestWillBeSent, for a new request or a redirect.
LEMMA BeganStep ==
    ASSUME IInv, NEW r \in Requests, Began(r), TrafficType', net'[r] = "sent",
           net[r] \in {"idle", "sent"},
           \A s \in Requests \ {r} : net'[s] = net[s] /\ hop'[s] = hop[s]
    PROVE  IInv'
<1> USE DEF IInv, Began
<1>1. hop'[r] \in 0..MaxHops
  BY DEF TrafficType
<1> DEFINE t == [hop |-> hop'[r], status |-> "none", old |-> FALSE]
<1>2. t \in Tracked /\ t # NoEntry /\ t.status = "none" /\ t.hop = hop'[r]
  BY <1>1, TrackedType
<1>3. \/ requestMap' = requestMap /\ (collecting = "on" => r \in squeezed')
      \/ collecting = "on" /\ requestMap' = [requestMap EXCEPT ![r] = t]
  BY DEF Track
<1>4. TypeOK'
  BY <1>2, <1>3 DEF TypeOK
<1>5. MapAgrees'
  BY <1>2, <1>3 DEF MapAgrees, TypeOK, InFlight
<1>6. EarlierIsUnseen'
  BY DEF EarlierIsUnseen
<1>7. EntriesAgree'
  BY EntriesKept DEF Over
<1>8. NothingLost'
  <2> SUFFICES ASSUME collecting' = "on", NEW s \in Followed'
               PROVE  /\ s \in InFlight' => requestMap'[s] # NoEntry
                      /\ Len(requests) < MaxRequests /\ net'[s] \in Over
                         /\ <<s, hop'[s]>> \notin Filtered
                         => \E i \in DOMAIN requests : requests[i].id = s
    BY DEF NothingLost, InFlightIsTracked, Followed, InFlight
  <2>1. CASE s = r
    BY <2>1, <1>2, <1>3 DEF Followed, Over, TypeOK
  <2>2. CASE s # r
    <3>1. s \in Followed /\ net'[s] = net[s] /\ hop'[s] = hop[s] /\ requestMap'[s] = requestMap[s]
      BY <2>2, <1>3 DEF Followed, TypeOK
    <3> QED
      BY <3>1 DEF NothingLost, InFlightIsTracked, InFlight
  <2> QED
    BY <2>1, <2>2
<1> QED
  BY <1>4, <1>5, <1>6, <1>7, <1>8

\* A new request.
LEMMA SentStep ==
    ASSUME IInv, NEW r \in Requests, OnRequestWillBeSent(r)
    PROVE  IInv'
<1> USE DEF IInv, TypeOK, TrafficType, OnRequestWillBeSent, RequestWillBeSent, Becomes
<1>1. /\ Began(r) /\ TrafficType' /\ net'[r] = "sent" /\ net[r] \in {"idle", "sent"}
      /\ \A s \in Requests \ {r} : net'[s] = net[s] /\ hop'[s] = hop[s]
  OBVIOUS
<1> QED
  BY <1>1, BeganStep

\* A redirect.
LEMMA RedirectStep ==
    ASSUME IInv, NEW r \in Requests, OnRedirect(r)
    PROVE  IInv'
<1> USE DEF IInv, TypeOK, TrafficType, OnRedirect, Redirect
<1>1. /\ Began(r) /\ TrafficType' /\ net'[r] = "sent" /\ net[r] \in {"idle", "sent"}
      /\ \A s \in Requests \ {r} : net'[s] = net[s] /\ hop'[s] = hop[s]
  OBVIOUS
<1> QED
  BY <1>1, BeganStep

\* A response: the entry, if there is one, gets its status.
LEMMA ResponseStep ==
    ASSUME IInv, NEW r \in Requests, OnResponseReceived(r)
    PROVE  IInv'
<1> USE DEF IInv, OnResponseReceived, ResponseReceived, Becomes, history
<1>0. TypeOK /\ TrafficType
  BY DEF TypeOK
<1>1. /\ net[r] = "sent" /\ net'[r] = "answered" /\ hop' = hop
      /\ \A s \in Requests \ {r} : net'[s] = net[s] /\ requestMap'[s] = requestMap[s]
  BY <1>0 DEF TypeOK, TrafficType
<1>2. /\ requestMap[r] = NoEntry => requestMap' = requestMap
      /\ requestMap[r] # NoEntry =>
           /\ requestMap[r] \in Tracked
           /\ requestMap'[r] = [requestMap[r] EXCEPT !.status = "received"]
           /\ requestMap'[r] \in Tracked /\ requestMap'[r].status = "received"
           /\ requestMap'[r].hop = requestMap[r].hop
  BY <1>0 DEF TypeOK, Tracked
<1>3. TypeOK'
  <2>1. TrafficType'
    BY <1>0 DEF TrafficType
  <2>2. requestMap' \in [Requests -> Tracked \cup {NoEntry}]
    BY <1>0, <1>1, <1>2 DEF TypeOK
  <2> QED
    BY <2>1, <2>2, <1>0 DEF TypeOK
<1>4. MapAgrees'
  BY <1>0, <1>1, <1>2 DEF MapAgrees, InFlight
<1>5. EarlierIsUnseen'
  BY <1>1 DEF EarlierIsUnseen
<1>6. EntriesAgree'
  BY <1>1, EntriesKept DEF Over
<1>7. NothingLost'
  <2>1. Followed' = Followed /\ InFlight' = InFlight
    BY <1>0, <1>1 DEF Followed, InFlight, TrafficType
  <2>2. \A s \in Requests : requestMap[s] # NoEntry => requestMap'[s] # NoEntry
    BY <1>1, <1>2
  <2>3. \A s \in Requests : net'[s] \in Over => net[s] \in Over
    BY <1>1 DEF Over
  <2> QED
    BY <1>1, <2>1, <2>2, <2>3 DEF NothingLost, InFlightIsTracked, Followed, InFlight
<1> QED
  BY <1>3, <1>4, <1>5, <1>6, <1>7

\* The entry of a request that has just ended.
LEMMA NewEntry ==
    ASSUME IInv, NEW r \in Requests, requestMap[r] # NoEntry, NEW to \in Over,
           NEW status \in {"none", "received", "zero"}, NEW body \in Body
    PROVE  /\ [id |-> r, hop |-> requestMap[r].hop, status |-> status, body |-> body] \in Entry
           /\ \A i \in DOMAIN requests : requests[i].id # r
           /\ net[r] \notin Over
<1>1. requestMap[r] \in Tracked /\ r \in InFlight
  BY DEF IInv, TypeOK, MapAgrees
<1>2. net[r] \notin Over
  BY <1>1 DEF InFlight, Over
<1>3. \A i \in DOMAIN requests : requests[i].id # r
  BY <1>2 DEF IInv, EntriesAgree, Agrees
<1> QED
  BY <1>1, <1>2, <1>3 DEF Tracked, Entry

\* What Record does to the list.
LEMMA RecordEffect ==
    ASSUME IInv, NEW r \in Requests, NEW status \in {"none", "received", "zero"},
           NEW body \in Body, Record(r, status, body)
    PROVE  LET e == [id |-> r, hop |-> requestMap[r].hop, status |-> status, body |-> body] IN
           /\ requestMap' = [requestMap EXCEPT ![r] = NoEntry]
           /\ UNCHANGED <<collecting, unseen, squeezed, expired>>
           /\ \/ /\ requests' = requests
                 /\ requestMap[r] = NoEntry \/ Len(requests) >= MaxRequests
                    \/ <<r, requestMap[r].hop>> \in Filtered
              \/ /\ requestMap[r] # NoEntry /\ <<r, requestMap[r].hop>> \notin Filtered
                 /\ requests' \in Seq(Entry) /\ Len(requests') <= MaxRequests
                 /\ DOMAIN requests' = DOMAIN requests \cup {Len(requests) + 1}
                 /\ \A i \in DOMAIN requests : requests'[i] = requests[i]
                 /\ requests'[Len(requests) + 1] = e
                 /\ Len(requests') > Len(requests)
<1> DEFINE e == [id |-> r, hop |-> requestMap[r].hop, status |-> status, body |-> body]
<1>1. CASE requestMap[r] = NoEntry \/ Len(requests) >= MaxRequests \/ ShouldFilter(r)
  BY <1>1 DEF Record, ShouldFilter, history
<1>2. CASE ~(requestMap[r] = NoEntry \/ Len(requests) >= MaxRequests \/ ShouldFilter(r))
  <2>1. requests \in Seq(Entry) /\ e \in Entry
    BY <1>2, NewEntry DEF IInv, TypeOK, Over
  <2>2. requests' = Append(requests, e)
    BY <1>2 DEF Record
  <2>3. Len(requests) \in Nat /\ Len(requests) < MaxRequests
    BY <2>1, <1>2
  <2>4. /\ requests' \in Seq(Entry) /\ Len(requests') = Len(requests) + 1
        /\ \A i \in 1..Len(requests) : requests'[i] = requests[i]
        /\ requests'[Len(requests) + 1] = e
    BY <2>1, <2>2
  <2>5. DOMAIN requests = 1..Len(requests) /\ DOMAIN requests' = 1..(Len(requests) + 1)
    BY <2>1, <2>4
  <2> QED
    BY <1>2, <2>3, <2>4, <2>5 DEF Record, ShouldFilter, history
<1> QED
  BY <1>1, <1>2

\* The handlers of the two events that end a request.
LEMMA EndStep ==
    ASSUME IInv, NEW r \in Requests, NEW to \in Over,
           Becomes(r, {"sent", "answered"}, to),
           NEW status \in {"none", "received", "zero"}, NEW body \in Body,
           Record(r, status, body),
           requestMap[r] # NoEntry =>
              /\ (status = "zero") <=> (to = "failed")
              /\ to = "finished" => status = "received" /\ body # "none"
              /\ to = "failed" => body = "none"
    PROVE  IInv'
<1> DEFINE e == [id |-> r, hop |-> requestMap[r].hop, status |-> status, body |-> body]
<1> USE DEF IInv
<1>0. /\ requestMap' = [requestMap EXCEPT ![r] = NoEntry]
      /\ UNCHANGED <<collecting, unseen, squeezed, expired>>
  BY RecordEffect
<1>1. \/ /\ requests' = requests
         /\ requestMap[r] = NoEntry \/ Len(requests) >= MaxRequests
            \/ <<r, requestMap[r].hop>> \in Filtered
      \/ /\ requestMap[r] # NoEntry /\ <<r, requestMap[r].hop>> \notin Filtered
         /\ requests' \in Seq(Entry) /\ Len(requests') <= MaxRequests
         /\ DOMAIN requests' = DOMAIN requests \cup {Len(requests) + 1}
         /\ \A i \in DOMAIN requests : requests'[i] = requests[i]
         /\ requests'[Len(requests) + 1] = e
         /\ Len(requests') > Len(requests)
  BY RecordEffect
<1>2. /\ net'[r] = to /\ hop' = hop /\ TrafficType' /\ requestMap'[r] = NoEntry
      /\ \A s \in Requests \ {r} : net'[s] = net[s] /\ requestMap'[s] = requestMap[s]
  BY <1>0 DEF TypeOK, TrafficType, Becomes, Over
<1>3. TypeOK'
  BY <1>0, <1>1, <1>2 DEF TypeOK
<1>4. MapAgrees'
  BY <1>0, <1>2 DEF MapAgrees, InFlight
<1>5. net[r] \in {"sent", "answered"} /\ net[r] \notin Over /\ net[r] # "idle"
  BY DEF Becomes, Over
<1>6. EarlierIsUnseen'
  BY <1>0, <1>2, <1>5 DEF EarlierIsUnseen
<1>7. EntriesAgree'
  <2>1. CASE requests' = requests
    BY <2>1, <1>0, <1>2, <1>5, EntriesKept
  <2>2. CASE requests' # requests
    <3>0. PICK n \in Nat : n = Len(requests) + 1
      BY DEF TypeOK
    <3>1. /\ requestMap[r] # NoEntry /\ <<r, requestMap[r].hop>> \notin Filtered
          /\ DOMAIN requests' = DOMAIN requests \cup {n} /\ requests'[n] = e
          /\ \A i \in DOMAIN requests : requests'[i] = requests[i]
      BY <2>2, <3>0, <1>1
    <3>2. /\ e.id = r /\ e.hop = requestMap[r].hop /\ e.status = status /\ e.body = body
          /\ \A i \in DOMAIN requests : requests[i].id # r
      BY <3>1, NewEntry
    <3>3. \A i \in DOMAIN requests : Agrees(i)'
      <4> SUFFICES ASSUME NEW i \in DOMAIN requests PROVE Agrees(i)'
        OBVIOUS
      <4>1. Agrees(i) /\ requests[i] \in Entry
        BY DEF TypeOK, EntriesAgree
      <4>2. requests'[i] = requests[i] /\ net'[requests[i].id] = net[requests[i].id]
        BY <4>1, <3>1, <3>2, <1>2 DEF Entry
      <4> QED
        BY <4>1, <4>2, <1>0, <1>2 DEF Agrees
    <3>4. Agrees(n)'
      <4>1. r \notin squeezed => requestMap[r].hop = hop[r]
        BY <3>1 DEF MapAgrees
      <4>2. requests'[n] = e /\ net'[r] = to /\ to \in {"finished", "failed"}
        BY <3>1, <1>2 DEF Over
      <4>3. /\ (status = "zero") <=> (to = "failed")
            /\ to = "finished" => status = "received" /\ body # "none"
            /\ to = "failed" => body = "none"
        BY <3>1
      <4> HIDE DEF e
      <4> QED
        BY <4>1, <4>2, <4>3, <3>1, <3>2, <1>0, <1>2 DEF Agrees, Over
    <3>5. \A i, j \in DOMAIN requests' : requests'[i].id = requests'[j].id => i = j
      BY <3>1, <3>2 DEF EntriesAgree
    <3>6. \A i \in DOMAIN requests' : Agrees(i)'
      BY <3>1, <3>3, <3>4
    <3> QED
      BY <3>5, <3>6 DEF EntriesAgree
  <2> QED
    BY <2>1, <2>2
<1>8. NothingLost'
  <2> SUFFICES ASSUME collecting' = "on", NEW s \in Followed'
               PROVE  /\ s \in InFlight' => requestMap'[s] # NoEntry
                      /\ Len(requests') < MaxRequests /\ net'[s] \in Over
                         /\ <<s, hop'[s]>> \notin Filtered
                         => \E i \in DOMAIN requests' : requests'[i].id = s
    BY DEF NothingLost, InFlightIsTracked, Followed, InFlight
  <2>1. s \in Followed /\ s \in Requests /\ collecting = "on" /\ hop'[s] = hop[s]
    BY <1>0, <1>2 DEF Followed
  <2>2. CASE s = r
    <3>1. requestMap[r] # NoEntry
      BY <2>1, <2>2, <1>5 DEF NothingLost, InFlightIsTracked, InFlight
    <3>2. requestMap[r].hop = hop[r]
      BY <2>1, <2>2, <3>1 DEF MapAgrees, Followed
    <3>3. s \notin InFlight'
      BY <2>2, <1>2 DEF InFlight, Over
    <3>4. CASE requests' = requests
      BY <2>2, <3>1, <3>2, <3>3, <3>4, <1>1, <1>2 DEF TypeOK
    <3>5. CASE requests' # requests
      BY <2>2, <3>3, <3>5, <1>1
    <3> QED
      BY <3>4, <3>5
  <2>3. CASE s # r
    <3>1. net'[s] = net[s] /\ requestMap'[s] = requestMap[s]
      BY <2>1, <2>3, <1>2
    <3>2. Len(requests') < MaxRequests => Len(requests) < MaxRequests
      BY <1>1 DEF TypeOK
    <3>3. \A i \in DOMAIN requests : i \in DOMAIN requests' /\ requests'[i] = requests[i]
      BY <1>1
    <3> QED
      BY <2>1, <3>1, <3>2, <3>3 DEF NothingLost, InFlightIsTracked, InFlight
  <2> QED
    BY <2>2, <2>3
<1> QED
  BY <1>3, <1>4, <1>6, <1>7, <1>8

\* The two ways a request ends.
LEMMA FinishedStep ==
    ASSUME IInv, NEW r \in Requests, OnLoadingFinished(r)
    PROVE  IInv'
<1>1. PICK body \in {"fetching", "skipped"} : Record(r, requestMap[r].status, body)
  BY DEF OnLoadingFinished
<1>2. Becomes(r, {"sent", "answered"}, "finished") /\ net[r] = "answered"
  BY DEF OnLoadingFinished, LoadingFinished, Becomes
<1>3. CASE requestMap[r] # NoEntry
  <2>1. requestMap[r].status = "received"
    BY <1>2, <1>3 DEF IInv, MapAgrees
  <2> QED
    BY <1>1, <1>2, <2>1, EndStep DEF Over, Body
<1>4. CASE requestMap[r] = NoEntry
  <2>1. Record(r, "none", body)
    BY <1>1, <1>4 DEF Record
  <2> QED
    BY <1>2, <1>4, <2>1, EndStep DEF Over, Body
<1> QED
  BY <1>3, <1>4

\* ... and the failure, whose status is 0.
LEMMA FailedStep ==
    ASSUME IInv, NEW r \in Requests, OnLoadingFailed(r)
    PROVE  IInv'
<1>1. Becomes(r, {"sent", "answered"}, "failed") /\ Record(r, "zero", "none")
  BY DEF OnLoadingFailed, LoadingFailed
<1> QED
  BY <1>1, EndStep DEF Over, Body

\* A body arrives.
LEMMA BodyStep ==
    ASSUME IInv, NEW i \in DOMAIN requests, BodyAnswered(i)
    PROVE  IInv'
<1> USE DEF IInv, history, traffic
<1>1. PICK body \in {"fetched", "gone"} : requests' = [requests EXCEPT ![i].body = body]
  BY DEF BodyAnswered
<1>2. /\ UNCHANGED <<net, hop, collecting, requestMap, unseen, squeezed, expired>>
      /\ requests[i].body = "fetching"
  BY DEF BodyAnswered
<1>3. requests \in Seq(Entry) /\ \A j \in DOMAIN requests : requests[j] \in Entry
  BY DEF TypeOK
<1>4. /\ requests'[i] = [requests[i] EXCEPT !.body = body] /\ requests'[i] \in Entry
      /\ DOMAIN requests' = DOMAIN requests
      /\ \A j \in DOMAIN requests \ {i} : requests'[j] = requests[j]
  BY <1>1, <1>3 DEF Entry, Body
<1>5. requests' \in Seq(Entry) /\ Len(requests') = Len(requests)
  BY <1>1, <1>3, <1>4
<1>6. \A j \in DOMAIN requests :
         /\ requests'[j].id = requests[j].id /\ requests'[j].hop = requests[j].hop
         /\ requests'[j].status = requests[j].status
         /\ requests'[j].body \in {requests[j].body, body}
  BY <1>3, <1>4 DEF Entry
<1>7. TypeOK'
  BY <1>2, <1>5 DEF TypeOK, TrafficType
<1>8. MapAgrees' /\ EarlierIsUnseen'
  BY <1>2 DEF MapAgrees, EarlierIsUnseen, InFlight
<1>9. EntriesAgree'
  <2>1. \A j \in DOMAIN requests : Agrees(j)'
    <3> SUFFICES ASSUME NEW j \in DOMAIN requests PROVE Agrees(j)'
      OBVIOUS
    <3>1. Agrees(j)
      BY DEF EntriesAgree
    <3>2. j = i => net[requests[i].id] # "failed"
      BY <3>1, <1>2 DEF Agrees
    <3>3. j # i => requests'[j] = requests[j]
      BY <1>4
    <3> QED
      BY <3>1, <3>2, <3>3, <1>2, <1>6 DEF Agrees
  <2>2. \A j, k \in DOMAIN requests' : requests'[j].id = requests'[k].id => j = k
    BY <1>4, <1>6 DEF EntriesAgree
  <2> QED
    BY <2>1, <2>2, <1>4 DEF EntriesAgree
<1>10. NothingLost'
  BY <1>2, <1>4, <1>5, <1>6 DEF NothingLost, InFlightIsTracked, Followed, InFlight
<1> QED
  BY <1>7, <1>8, <1>9, <1>10

\* Start, stop and the stale cleanup leave the browser and the list alone.
LEMMA ControlStep ==
    ASSUME IInv, \/ Start \/ Stop \/ CleanupStale \/ \E r \in Requests : Ages(r)
    PROVE  IInv'
<1> USE DEF IInv, history, traffic
<1>1. /\ net' = net /\ hop' = hop /\ requests' = requests /\ squeezed' = squeezed
      /\ unseen' = unseen
  BY DEF Start, Stop, CleanupStale, Ages
<1>2. TypeOK'
  <2>1. expired' \subseteq Requests /\ collecting' \in {"off", "on", "stopped"}
    BY DEF TypeOK, Start, Stop, CleanupStale, Ages, Stale, InMap
  <2>2. requestMap' \in [Requests -> Tracked \cup {NoEntry}]
    BY DEF TypeOK, Start, Stop, CleanupStale, Ages, InMap, Tracked
  <2> QED
    BY <2>1, <2>2, <1>1 DEF TypeOK, TrafficType
<1>3. EntriesAgree'
  BY <1>1, EntriesKept
<1>4. CASE Start
  BY <1>4, <1>1, <1>2, <1>3 DEF Start, MapAgrees, EarlierIsUnseen, NothingLost,
     InFlightIsTracked, Followed, InFlight, Over
<1>5. CASE Stop
  BY <1>5, <1>1, <1>2, <1>3 DEF Stop, MapAgrees, EarlierIsUnseen, NothingLost,
     InFlightIsTracked
<1>6. CASE CleanupStale
  BY <1>6, <1>1, <1>2, <1>3 DEF CleanupStale, MapAgrees, EarlierIsUnseen, NothingLost,
     InFlightIsTracked, Followed, InFlight, Stale, InMap
<1>7. CASE \E r \in Requests : Ages(r)
  <2>1. PICK r \in Requests : Ages(r)
    BY <1>7
  <2>2. requestMap[r] \in Tracked
    BY <2>1 DEF Ages, InMap, TypeOK
  <2>3. /\ requestMap'[r] # NoEntry /\ requestMap'[r].hop = requestMap[r].hop
        /\ requestMap'[r].status = requestMap[r].status
        /\ \A s \in Requests \ {r} : requestMap'[s] = requestMap[s]
        /\ UNCHANGED <<collecting, expired>>
    BY <2>1, <2>2, <1>2 DEF Ages, InMap, TypeOK, Tracked
  <2> QED
    BY <2>1, <2>3, <1>1, <1>2, <1>3 DEF MapAgrees, EarlierIsUnseen, NothingLost, Ages, InMap,
       InFlightIsTracked, Followed, InFlight
<1> QED
  BY <1>4, <1>5, <1>6, <1>7

\* The inductive invariant: browser, map, list and history agree in every
\* reachable state.
THEOREM Invariance == Spec => []IInv
<1>1. Init => IInv
  <2> SUFFICES ASSUME Init PROVE IInv
    OBVIOUS
  <2>1. TypeOK
    BY DEF Init, TrafficInit, TypeOK, TrafficType
  <2> QED
    BY <2>1 DEF Init, TrafficInit, IInv, MapAgrees, EarlierIsUnseen, EntriesAgree,
                NothingLost, InFlightIsTracked
<1>2. IInv /\ [Next]_vars => IInv'
  <2> SUFFICES ASSUME IInv, [Next]_vars PROVE IInv'
    OBVIOUS
  <2>1. CASE \E r \in Requests : Event(r)
    BY <2>1, SentStep, RedirectStep, ResponseStep, FinishedStep, FailedStep DEF Event
  <2>2. CASE \E i \in DOMAIN requests : BodyAnswered(i)
    BY <2>2, BodyStep
  <2>3. CASE \/ Start \/ Stop \/ CleanupStale \/ \E r \in Requests : Ages(r)
    BY <2>3, ControlStep
  <2>4. CASE UNCHANGED vars
    <3>1. /\ net' = net /\ hop' = hop /\ requests' = requests /\ collecting' = collecting
          /\ requestMap' = requestMap /\ UNCHANGED <<unseen, squeezed, expired>>
      BY <2>4 DEF vars, traffic, history
    <3> QED
      BY <3>1 DEF IInv, TypeOK, TrafficType, MapAgrees, EarlierIsUnseen, EntriesAgree, Agrees,
                  NothingLost, InFlightIsTracked, Followed, InFlight
  <2> QED
    BY <2>1, <2>2, <2>3, <2>4 DEF Next
<1> QED
  BY <1>1, <1>2, PTL DEF Spec

\* The variables of the collector keep their types, and its list its limit.
THEOREM TypeCorrect == Spec => []TypeOK
<1>1. IInv => TypeOK
  BY DEF IInv
<1> QED
  BY <1>1, Invariance, PTL

\* Every entry tells what happened to its request, and no request has two.
THEOREM EntriesTell == Spec => []EntriesAgree
<1>1. IInv => EntriesAgree
  BY DEF IInv
<1> QED
  BY <1>1, Invariance, PTL

\* A request that was seen from its start, met no full map and was not given up
\* is in the map while it is in flight and in the list when it is over.
THEOREM NoneIsLost == Spec => []NothingLost
<1>1. IInv => NothingLost
  BY DEF IInv
<1> QED
  BY <1>1, Invariance, PTL

\* The list of requests is true and lacks nothing it should hold.
THEOREM RecordTrue == Spec => []RecordIsTrue
  BY EntriesTell, NoneIsLost, PTL DEF RecordIsTrue
=============================================================================
