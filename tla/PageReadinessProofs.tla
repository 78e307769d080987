-------------------------- MODULE PageReadinessProofs --------------------------
(***************************************************************************)
(* Safety of PageReadiness for every finite set of requests, any number of *)
(* redirects and every threshold.                                          *)
(***************************************************************************)
EXTENDS PageReadiness, FiniteSetTheorems, TLAPS

USE RequestsAssumption, HopsAssumption, ThresholdAssumption

Open == InFlight \ missed
Gone == {r \in missed : net[r] \in Over}

\* The page is complete before the network phase.
LoadedFirst ==
    /\ seen => loaded # "no"
    /\ phase \in {"enableNetwork", "poll", "inject"} => loaded # "no"

\* A request that was missed had begun.
MissedBegan == \A r \in missed : net[r] # "idle"

\* While the counter counts right, an empty network is at least as old as the
\* last activity.
EmptyIsOlder ==
    Listening /\ missed = {} /\ extra = 0 /\ InFlight = {} => quiet <= empty

\* The page has no observer before the DOM phase.
NoObserverYet ==
    phase \in {"enablePage", "readyState", "evaluated", "waitLoad", "enableNetwork",
               "poll", "inject"} => ~observer

IInv ==
    /\ TypeOK /\ CounterDrift /\ LoadedFirst /\ MissedBegan /\ EmptyIsOlder
    /\ NoObserverYet /\ ObserverRemoved

\* Sets of requests are finite; what one more or one less does to their size.
LEMMA Counting ==
    ASSUME NEW S \in SUBSET Requests, NEW r \in Requests
    PROVE  /\ IsFiniteSet(S) /\ Cardinality(S) \in 0..Cardinality(Requests)
           /\ Cardinality(Requests) \in Nat
           /\ Cardinality(S) = 0 <=> S = {}
           /\ r \notin S => Cardinality(S \cup {r}) = Cardinality(S) + 1
           /\ r \in S => Cardinality(S \ {r}) = Cardinality(S) - 1
<1>1. IsFiniteSet(S) /\ Cardinality(S) <= Cardinality(Requests)
  BY FS_Subset
<1>2. Cardinality(S) \in Nat /\ Cardinality(Requests) \in Nat
  BY <1>1, FS_CardinalityType
<1>3. Cardinality(S) = 0 <=> S = {}
  BY <1>1, FS_EmptySet
<1>4. r \notin S => Cardinality(S \cup {r}) = Cardinality(S) + 1
  BY <1>1, FS_AddElement
<1>5. r \in S => Cardinality(S \ {r}) = Cardinality(S) - 1
  BY <1>1, FS_RemoveElement
<1> QED
  BY <1>1, <1>2, <1>3, <1>4, <1>5

\* The same for the empty set of requests, where there is no r.
LEMMA Sizes ==
    ASSUME NEW S \in SUBSET Requests
    PROVE  /\ Cardinality(S) \in Nat /\ Cardinality(S) <= Cardinality(Requests)
           /\ Cardinality(Requests) \in Nat /\ (Cardinality(S) = 0 <=> S = {})
  BY FS_Subset, FS_CardinalityType, FS_EmptySet

\* A request that begins.
LEMMA BeginStep ==
    ASSUME IInv, NEW r \in Requests, OnRequestWillBeSent(r)
    PROVE  IInv'
<1> USE DEF IInv, TypeOK, TrafficType, OnRequestWillBeSent, RequestWillBeSent, Becomes, Started, wait, page
<1>1. r \notin InFlight /\ r \notin missed /\ InFlight' = InFlight \cup {r} /\ r \in InFlight'
  BY DEF InFlight, MissedBegan
<1>2. Open' = Open \cup {r} /\ r \notin Open /\ Gone' = Gone /\ Open \in SUBSET Requests
      /\ Gone \in SUBSET Requests
  BY <1>1 DEF Open, Gone, Over, InFlight
<1>3. /\ Cardinality(Open') = Cardinality(Open) + 1 /\ Cardinality(Open) \in Nat
      /\ Cardinality(Gone) \in Nat
  BY <1>2, Counting, Sizes
<1>4. TypeOK'
  BY Sizes DEF Phases
<1>5. CounterDrift'
  <2> SUFFICES ASSUME Listening'
               PROVE  activeRequests' = Cardinality(Open') + extra' - Cardinality(Gone')
    BY DEF CounterDrift, Open, Gone
  <2>1. Listening
    BY DEF Listening
  <2>2. activeRequests = Cardinality(Open) + extra - Cardinality(Gone)
    BY <2>1 DEF CounterDrift, Open, Gone
  <2> QED
    BY <1>2, <1>3, <2>1, <2>2
<1>6. MissedBegan' /\ EmptyIsOlder'
  BY <1>1 DEF MissedBegan, EmptyIsOlder, Listening
<1>7. LoadedFirst' /\ NoObserverYet' /\ ObserverRemoved'
  BY DEF LoadedFirst, NoObserverYet, ObserverRemoved
<1> QED
  BY <1>4, <1>5, <1>6, <1>7

\* A request that is redirected.
LEMMA RedirectStep ==
    ASSUME IInv, NEW r \in Requests, OnRedirect(r)
    PROVE  IInv'
<1> USE DEF IInv, TypeOK, TrafficType, OnRedirect, Redirect, Started, wait, page
<1>1. r \in InFlight /\ InFlight' = InFlight /\ Open' = Open /\ Gone' = Gone
  BY DEF InFlight, Open, Gone
<1>2. Open \in SUBSET Requests /\ Gone \in SUBSET Requests
  BY DEF Open, Gone, InFlight
<1>3. Cardinality(Open) \in Nat /\ Cardinality(Gone) \in Nat
  BY <1>2, Sizes
<1>4. TypeOK'
  BY Sizes DEF Phases
<1>5. CounterDrift'
  BY <1>1, <1>3 DEF CounterDrift, Listening, Open, Gone
<1>6. MissedBegan' /\ EmptyIsOlder'
  BY <1>1 DEF MissedBegan, EmptyIsOlder
<1>7. LoadedFirst' /\ NoObserverYet' /\ ObserverRemoved'
  BY DEF LoadedFirst, NoObserverYet, ObserverRemoved
<1> QED
  BY <1>4, <1>5, <1>6, <1>7

\* A request that ends, one way or the other.
LEMMA EndStep ==
    ASSUME IInv, NEW r \in Requests, OnLoadingFinished(r) \/ OnLoadingFailed(r)
    PROVE  IInv'
<1> USE DEF IInv, TypeOK, TrafficType, OnLoadingFinished, OnLoadingFailed, LoadingFinished,
            LoadingFailed, Becomes, Ended, wait, page
<1>1. r \in InFlight /\ InFlight' = InFlight \ {r} /\ net'[r] \in Over /\ net[r] \notin Over
      /\ \A s \in Requests \ {r} : net'[s] = net[s]
  BY DEF InFlight, Over
<1>2. Open \in SUBSET Requests /\ Gone \in SUBSET Requests /\ Open' \in SUBSET Requests
      /\ Gone' \in SUBSET Requests
  BY <1>1 DEF Open, Gone, InFlight
<1>3. /\ Cardinality(Open) \in Nat /\ Cardinality(Gone) \in Nat
      /\ Cardinality(Gone') <= Cardinality(Requests)
      /\ Cardinality(Open') \in Nat /\ Cardinality(Gone') \in Nat
      /\ Cardinality(Requests) \in Nat
      /\ Cardinality(Open') = 0 <=> Open' = {}
  BY <1>2, Sizes
<1>4. Cardinality(Open') - Cardinality(Gone') = Cardinality(Open) - Cardinality(Gone) - 1
  <2>1. CASE r \in missed
    <3>1. Open' = Open /\ Gone' = Gone \cup {r} /\ r \notin Gone
      BY <1>1, <2>1 DEF Open, Gone, InFlight
    <3>2. Cardinality(Gone \cup {r}) = Cardinality(Gone) + 1
      BY <1>2, <3>1, Counting
    <3> QED
      BY <1>3, <3>1, <3>2
  <2>2. CASE r \notin missed
    <3>1. Open' = Open \ {r} /\ r \in Open /\ Gone' = Gone
      BY <1>1, <2>2 DEF Open, Gone, InFlight
    <3>2. Cardinality(Open \ {r}) = Cardinality(Open) - 1
      BY <1>2, <3>1, Counting
    <3> QED
      BY <1>3, <3>1, <3>2
  <2> QED
    BY <2>1, <2>2
<1>5. Listening => activeRequests' = Cardinality(Open') + extra' - Cardinality(Gone')
  BY <1>3, <1>4 DEF CounterDrift, Open, Gone
<1>6. TypeOK'
  BY <1>3, <1>5 DEF Phases
<1>7. CounterDrift'
  BY <1>5 DEF CounterDrift, Listening, Open, Gone
<1>8. MissedBegan'
  BY <1>1 DEF MissedBegan, Over
<1>9. EmptyIsOlder'
  <2> SUFFICES ASSUME Listening', missed' = {}, extra' = 0, InFlight' = {}
               PROVE  quiet' <= empty'
    BY DEF EmptyIsOlder
  <2>1. Open' = {} /\ Gone' = {}
    BY DEF Open, Gone
  <2>2. Cardinality(Open') = 0 /\ Cardinality(Gone') = 0
    BY <2>1, FS_EmptySet
  <2>3. Listening
    BY DEF Listening
  <2>4. activeRequests' = 0
    BY <1>5, <2>2, <2>3
  <2> QED
    BY <2>3, <2>4
<1>10. LoadedFirst' /\ NoObserverYet' /\ ObserverRemoved'
  BY DEF LoadedFirst, NoObserverYet, ObserverRemoved
<1> QED
  BY <1>6, <1>7, <1>8, <1>9, <1>10

\* A response changes nothing that is counted.
LEMMA ResponseStep ==
    ASSUME IInv, NEW r \in Requests, OnResponseReceived(r)
    PROVE  IInv'
<1> USE DEF IInv, OnResponseReceived, ResponseReceived, Becomes, wait, page, counts
<1>1. net \in [Requests -> {"idle", "sent", "answered", "finished", "failed"}]
  BY DEF TypeOK, TrafficType
<1>2. InFlight' = InFlight /\ Gone' = Gone /\ Open' = Open
  BY <1>1 DEF InFlight, Gone, Open, Over, TypeOK
<1>3. TypeOK'
  BY DEF TypeOK, TrafficType, Phases
<1>4. CounterDrift'
  BY <1>2 DEF CounterDrift, Listening, Open, Gone
<1>5. MissedBegan' /\ EmptyIsOlder'
  BY <1>1, <1>2 DEF MissedBegan, EmptyIsOlder, Listening, TypeOK
<1>6. LoadedFirst' /\ NoObserverYet' /\ ObserverRemoved'
  BY DEF LoadedFirst, NoObserverYet, ObserverRemoved
<1> QED
  BY <1>3, <1>4, <1>5, <1>6

\* The subscription.
LEMMA SubscribeStep ==
    ASSUME IInv, Subscribe
    PROVE  IInv'
<1> USE DEF IInv, TypeOK, Subscribe, Go, traffic, page
<1>1. Cardinality(InFlight' \ missed') = 0 /\ Cardinality({r \in missed' : net'[r] \in Over}) = 0
  <2>1. InFlight' \ missed' = {} /\ {r \in missed' : net'[r] \in Over} = {}
    BY DEF InFlight, Over
  <2> QED
    BY <2>1, FS_EmptySet
<1>2. TypeOK'
  BY Sizes DEF Phases, TrafficType, InFlight
<1>3. CounterDrift'
  BY <1>1 DEF CounterDrift, Listening
<1>4. MissedBegan' /\ EmptyIsOlder'
  BY DEF MissedBegan, EmptyIsOlder, InFlight
<1>5. LoadedFirst' /\ NoObserverYet' /\ ObserverRemoved'
  BY DEF LoadedFirst, NoObserverYet, ObserverRemoved
<1> QED
  BY <1>2, <1>3, <1>4, <1>5

\* Time passes.
LEMMA TickStep ==
    ASSUME IInv, Tick
    PROVE  IInv'
<1> USE DEF IInv, TypeOK, Tick, OneMore, traffic, wait, page
<1>1. InFlight' = InFlight
  BY DEF InFlight
<1>2. TypeOK'
  BY DEF Phases, TrafficType
<1>3. CounterDrift'
  BY <1>1 DEF CounterDrift, Listening
<1>4. MissedBegan' /\ EmptyIsOlder'
  BY <1>1 DEF MissedBegan, EmptyIsOlder, Listening
<1>5. LoadedFirst' /\ NoObserverYet' /\ ObserverRemoved'
  BY DEF LoadedFirst, NoObserverYet, ObserverRemoved
<1> QED
  BY <1>2, <1>3, <1>4, <1>5

\* The steps that leave the traffic and the counts alone.
LEMMA OtherStep ==
    ASSUME IInv, UNCHANGED <<traffic, counts>>, phase' = "poll" => phase = "poll",
           \/ PageEnabled \/ ReadyState \/ Inject \/ DOMAnswer \/ Disconnect \/ Rejected
           \/ Steps \/ Completes \/ LoadEvent \/ Deadline
    PROVE  IInv'
<1> USE DEF IInv
<1>1. TypeOK'
  <2> USE DEF TypeOK, TrafficType, Phases, traffic, counts, wait, page, Go, GiveUp, Decide
  <2>1. CASE PageEnabled \/ ReadyState
    BY <2>1 DEF PageEnabled, ReadyState
  <2>2. CASE Inject \/ DOMAnswer
    BY <2>2 DEF Inject, DOMAnswer
  <2>3. CASE Disconnect \/ Rejected
    BY <2>3 DEF Disconnect, Rejected
  <2>4. CASE Steps
    BY <2>4 DEF Steps, Evaluated, LoadTimeout, Stable, NetworkTimeout, Watch
  <2>5. CASE Completes \/ LoadEvent \/ Deadline
    BY <2>5 DEF Completes, LoadEvent, Deadline
  <2> QED
    BY <2>1, <2>2, <2>3, <2>4, <2>5
<1>2. CounterDrift' /\ MissedBegan' /\ EmptyIsOlder'
  BY DEF CounterDrift, MissedBegan, EmptyIsOlder, Listening, InFlight, traffic, counts
<1>3. LoadedFirst'
  <2> USE DEF LoadedFirst, page, wait, Go, GiveUp, Decide
  <2>1. CASE PageEnabled \/ ReadyState
    BY <2>1 DEF PageEnabled, ReadyState
  <2>2. CASE Inject \/ DOMAnswer \/ Disconnect \/ Rejected
    <3>1. UNCHANGED <<loaded, seen>> /\ phase' \in {"watch", "disconnect", "ended"}
      BY <2>2, Zenon DEF Inject, DOMAnswer, Disconnect, Rejected
    <3> QED
      BY <3>1
  <2>3. CASE Steps
    BY <2>3 DEF Steps, Evaluated, LoadTimeout, Stable, NetworkTimeout, Watch
  <2>4. CASE Completes \/ LoadEvent \/ Deadline
    BY <2>4 DEF Completes, LoadEvent, Deadline
  <2> QED
    BY <2>1, <2>2, <2>3, <2>4
<1>4. NoObserverYet'
  BY DEF NoObserverYet, TypeOK, Phases, page, wait, Go, GiveUp, Decide, PageEnabled, ReadyState,
         Inject, DOMAnswer, Disconnect, Rejected, Steps, Evaluated, LoadTimeout, Stable,
         NetworkTimeout, Watch, Completes, LoadEvent, Deadline
<1>5. ObserverRemoved'
  BY DEF ObserverRemoved, NoObserverYet, TypeOK, Phases, page, wait, Go, GiveUp, Decide,
         PageEnabled, ReadyState, Inject, DOMAnswer, Disconnect, Rejected, Steps, Evaluated,
         LoadTimeout, Stable, NetworkTimeout, Watch, Completes, LoadEvent, Deadline
<1> QED
  BY <1>1, <1>2, <1>3, <1>4, <1>5

\* The inductive invariant: the counter, its corrections, the two clocks and the
\* phases agree in every reachable state.
THEOREM Invariance == Spec => []IInv
<1>1. Init => IInv
  <2> SUFFICES ASSUME Init PROVE IInv
    OBVIOUS
  <2>1. {r \in missed : net[r] \in Over} = {} /\ InFlight = {}
    BY DEF Init, TrafficInit, InFlight
  <2>2. TypeOK
    <3>1. Cardinality({}) <= Cardinality(Requests) /\ Cardinality({}) = 0
          /\ Cardinality(Requests) \in Nat
      BY Sizes, FS_EmptySet
    <3>2. -Cardinality(Requests) <= 0
      BY <3>1
    <3>3. TrafficType
      BY DEF Init, TrafficInit, TrafficType
    <3>4. /\ late \in BOOLEAN /\ loaded \in {"no", "complete", "fired"} /\ seen \in BOOLEAN
          /\ observer \in BOOLEAN /\ cut \in BOOLEAN
      BY Zenon DEF Init
    <3>5. /\ phase \in Phases /\ verdict \in {"none", "ready", "gaveUp"}
          /\ missed \subseteq Requests
      BY DEF Init, Phases
    <3>6. /\ activeRequests \in Int /\ -Cardinality(Requests) <= activeRequests
          /\ quiet \in 0..Threshold /\ empty \in 0..Threshold /\ extra \in Nat
      BY <3>2 DEF Init
    <3> QED
      BY <3>3, <3>4, <3>5, <3>6, Zenon DEF TypeOK
  <2> QED
    BY <2>1, <2>2 DEF Init, IInv, CounterDrift, LoadedFirst, MissedBegan, EmptyIsOlder,
                      NoObserverYet, ObserverRemoved, Listening
<1>2. IInv /\ [Next]_vars => IInv'
  <2> SUFFICES ASSUME IInv, [Next]_vars PROVE IInv'
    OBVIOUS
  <2>1. CASE \E r \in Requests : Event(r)
    BY <2>1, BeginStep, RedirectStep, ResponseStep, EndStep DEF Event
  <2>2. CASE Subscribe
    BY <2>2, SubscribeStep
  <2>3. CASE Tick
    BY <2>3, TickStep
  <2>4. CASE \/ PageEnabled \/ ReadyState \/ Inject \/ DOMAnswer \/ Disconnect \/ Rejected
             \/ Steps \/ Completes \/ LoadEvent \/ Deadline
    <3>1. UNCHANGED <<traffic, counts>>
      BY <2>4 DEF PageEnabled, ReadyState, Inject, DOMAnswer, Disconnect, Rejected, Steps,
                  Evaluated, LoadTimeout, Stable, NetworkTimeout, Watch, Completes, LoadEvent, Deadline
    <3>2. phase' = "poll" => phase = "poll"
      BY <2>4 DEF Go, GiveUp, Decide, wait, PageEnabled, ReadyState, Inject, DOMAnswer,
                  Disconnect, Rejected, Steps, Evaluated, LoadTimeout, Stable,
                  NetworkTimeout, Watch, Completes, LoadEvent, Deadline
    <3> QED
      BY <2>4, <3>1, <3>2, OtherStep
  <2>5. CASE UNCHANGED vars
    BY <2>5 DEF vars, traffic, wait, page, counts, IInv, TypeOK, TrafficType, CounterDrift,
                LoadedFirst, MissedBegan, EmptyIsOlder, NoObserverYet, ObserverRemoved,
                Listening, InFlight
  <2> QED
    BY <2>1, <2>2, <2>3, <2>4, <2>5 DEF Next, Calls
<1> QED
  BY <1>1, <1>2, PTL DEF Spec

\* The variables of the wait keep their types, and the counter stays above
\* minus the number of requests.
THEOREM TypeCorrect == Spec => []TypeOK
<1>1. IInv => TypeOK
  BY DEF IInv
<1> QED
  BY <1>1, Invariance, PTL

\* What the counter of waitForNetworkStable() counts, in terms of the requests.
THEOREM CounterCounts == Spec => []CounterDrift
<1>1. IInv => CounterDrift
  BY DEF IInv
<1> QED
  BY <1>1, Invariance, PTL

\* The observer is taken out of the page, whatever else fails, unless the script
\* that sets it or the one that removes it is rejected.
THEOREM ObserverGoes == Spec => []ObserverRemoved
<1>1. IInv => ObserverRemoved
  BY DEF IInv
<1> QED
  BY <1>1, Invariance, PTL

\* With every request seen from its start and no redirect, "stable" is true.
THEOREM StableEarned == Spec => StableIsEarned
<1>1. IInv /\ Stable /\ missed = {} /\ extra = 0 => loaded # "no" /\ empty = Threshold
  <2> SUFFICES ASSUME IInv, Stable, missed = {}, extra = 0
               PROVE  loaded # "no" /\ empty = Threshold
    OBVIOUS
  <2> USE DEF IInv, Stable, Go
  <2>1. loaded # "no"
    BY DEF LoadedFirst
  <2>2. InFlight \ missed = InFlight /\ {r \in missed : net[r] \in Over} = {}
        /\ InFlight \in SUBSET Requests
    BY DEF InFlight
  <2>3. Cardinality({r \in missed : net[r] \in Over}) = 0 /\ Cardinality(InFlight) \in Nat
    BY <2>2, FS_EmptySet, Sizes
  <2>4. Cardinality(InFlight) = 0
    BY <2>2, <2>3 DEF CounterDrift, Listening
  <2>5. InFlight = {}
    BY <2>2, <2>4, Sizes
  <2> QED
    BY <2>1, <2>5 DEF EmptyIsOlder, Listening, TypeOK
<1>2. IInv => [Stable /\ missed = {} /\ extra = 0 => loaded # "no" /\ empty = Threshold]_vars
  BY <1>1
<1> QED
  BY <1>2, Invariance, PTL DEF StableIsEarned

\* The counter and what it is used for.
THEOREM CounterSound == Spec => CounterIsSound
  BY CounterCounts, StableEarned, PTL DEF CounterIsSound
=============================================================================
