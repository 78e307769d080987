------------------------------ MODULE PageReadiness ------------------------------
(***************************************************************************)
(* connection/pageReadiness.ts: waitForPageReady(), with which the worker  *)
(* waits after Page.navigate for the load event, then for an idle network, *)
(* then for a still DOM, until a deadline.                                 *)
(*                                                                         *)
(* One action is the code between two awaits, or one event handler.  A CDP *)
(* call settles, by its own timeout at the latest.  Time is counted in     *)
(* ticks of which Threshold are NETWORK_IDLE_THRESHOLD_MS.                 *)
(***************************************************************************)
EXTENDS BrowserTraffic

CONSTANT
    Threshold       \* ticks of the idle threshold; bounds the ticks counted
ASSUME ThresholdAssumption == Threshold \in Nat \ {0}

VARIABLES
    phase,          \* the await the function is at
    verdict,        \* how it ended
    late,           \* the deadline has passed
    loaded,         \* the page: "no", "complete" (its readyState), "fired" (its load event)
    seen,           \* document.readyState was "complete" when asked for
    activeRequests,
    quiet,          \* ticks since lastActivity
    observer,       \* the page holds window.__bdg_observer
    missed,         \* history: requests in flight at the subscription
    extra,          \* history: redirects since
    empty,          \* history: ticks since nothing was in flight any more
    cut             \* history: the script that sets the observer, or removes it, was rejected

wait == <<phase, verdict>>
page == <<loaded, seen, observer>>
counts == <<activeRequests, quiet, missed, extra, empty>>
vars == <<traffic, wait, late, page, counts, cut>>

Phases == {"enablePage", "readyState", "evaluated", "waitLoad", "enableNetwork",
           "poll", "inject", "watch", "asked", "disconnect", "ended"}

\* The counter is at its least when every request was missed and is over.
TypeOK ==
    /\ TrafficType
    /\ phase \in Phases /\ verdict \in {"none", "ready", "gaveUp"}
    /\ late \in BOOLEAN /\ loaded \in {"no", "complete", "fired"} /\ seen \in BOOLEAN /\ observer \in BOOLEAN
    /\ activeRequests \in Int /\ -Cardinality(Requests) <= activeRequests
    /\ quiet \in 0..Threshold /\ empty \in 0..Threshold
    /\ missed \subseteq Requests /\ extra \in Nat
    /\ cut \in BOOLEAN

Init ==
    /\ TrafficInit
    /\ phase = "enablePage" /\ verdict = "none"
    /\ late = FALSE /\ loaded = "no" /\ seen = FALSE /\ observer = FALSE
    /\ activeRequests = 0 /\ quiet = 0
    /\ missed = {} /\ extra = 0 /\ empty = 0 /\ cut = FALSE

Listening == phase = "poll"

\* Sends the next call or waits for the next thing.
Go(from, to) == phase = from /\ phase' = to /\ UNCHANGED verdict

\* waitForPageReady() swallows the error and returns all the same.
GiveUp == phase' = "ended" /\ verdict' = "gaveUp"

(***************************************************************************)
(* The load event.                                                         *)
(***************************************************************************)
PageEnabled ==
    /\ Go("enablePage", "readyState")
    /\ UNCHANGED <<traffic, late, page, counts, cut>>

\* The answer to Runtime.evaluate; a rejection counts as "not complete", in a
\* complete page too.
ReadyState ==
    /\ Go("readyState", "evaluated")
    /\ seen' \in BOOLEAN /\ (seen' => loaded # "no")
    /\ UNCHANGED <<traffic, late, loaded, observer, counts, cut>>

\* The continuation.  Frames that came in the same chunk as the answer have been
\* handled before it: a load event among them had no handler.
Evaluated ==
    /\ IF seen THEN Go("evaluated", "enableNetwork") ELSE Go("evaluated", "waitLoad")
    /\ UNCHANGED <<traffic, late, page, counts, cut>>

\* readyState becomes "complete" just before the event is fired.
Completes ==
    /\ loaded = "no" /\ loaded' = "complete"
    /\ UNCHANGED <<traffic, wait, late, seen, observer, counts, cut>>

LoadEvent ==
    /\ loaded = "complete" /\ loaded' = "fired"
    /\ IF phase = "waitLoad" THEN Go("waitLoad", "enableNetwork") ELSE UNCHANGED wait
    /\ UNCHANGED <<traffic, late, seen, observer, counts, cut>>

LoadTimeout ==
    /\ phase = "waitLoad" /\ late /\ GiveUp
    /\ UNCHANGED <<traffic, late, page, counts, cut>>

(***************************************************************************)
(* The network.                                                            *)
(***************************************************************************)
\* Network.enable is answered: the counter starts at zero, whatever is in flight.
Subscribe ==
    /\ Go("enableNetwork", "poll")
    /\ activeRequests' = 0 /\ quiet' = 0 /\ empty' = 0
    /\ missed' = InFlight /\ extra' = 0
    /\ UNCHANGED <<traffic, late, page, cut>>

\* requestHandler().
Started(r) ==
    /\ activeRequests' = IF Listening THEN activeRequests + 1 ELSE activeRequests
    /\ quiet' = IF Listening THEN 0 ELSE quiet
    /\ empty' = 0
    /\ UNCHANGED <<wait, late, page, missed, cut>>

OnRequestWillBeSent(r) == RequestWillBeSent(r) /\ Started(r) /\ UNCHANGED extra
OnRedirect(r) ==
    Redirect(r) /\ Started(r) /\ extra' = IF Listening THEN extra + 1 ELSE extra

\* Mutant: a response counts as the end of its request.
OnResponseEnds(r) ==
    /\ ResponseReceived(r)
    /\ activeRequests' = IF Listening THEN activeRequests - 1 ELSE activeRequests
    /\ UNCHANGED <<wait, late, page, quiet, missed, extra, empty, cut>>

OnResponseReceived(r) ==
    ResponseReceived(r) /\ UNCHANGED <<wait, late, page, counts, cut>>

\* Mutant: the end of the last request is no activity.
EndedSilently(r) ==
    /\ activeRequests' = IF Listening THEN activeRequests - 1 ELSE activeRequests
    /\ empty' = 0
    /\ UNCHANGED <<wait, late, page, quiet, missed, extra, cut>>

\* finishHandler().
Ended(r) ==
    /\ activeRequests' = IF Listening THEN activeRequests - 1 ELSE activeRequests
    /\ quiet' = IF Listening /\ activeRequests' = 0 THEN 0 ELSE quiet
    /\ empty' = 0
    /\ UNCHANGED <<wait, late, page, missed, extra, cut>>

OnLoadingFinished(r) == LoadingFinished(r) /\ Ended(r)

OnLoadingFailed(r) == LoadingFailed(r) /\ Ended(r)

OneMore(n) == IF n < Threshold THEN n + 1 ELSE n

Tick ==
    /\ Listening
    /\ quiet' = OneMore(quiet)
    /\ empty' = IF InFlight = {} THEN OneMore(empty) ELSE 0
    /\ UNCHANGED <<traffic, wait, late, page, activeRequests, missed, extra, cut>>

\* One round of the loop every 50 ms, when it leaves the loop.
Stable ==
    /\ Go("poll", "inject")
    /\ ~late /\ activeRequests = 0 /\ quiet = Threshold
    /\ UNCHANGED <<traffic, late, page, counts, cut>>

\* Mutant: the polling loop runs until the network is stable.
NetworkTimeoutNever == FALSE /\ UNCHANGED vars

NetworkTimeout ==
    /\ phase = "poll" /\ late /\ GiveUp
    /\ UNCHANGED <<traffic, late, page, counts, cut>>

(***************************************************************************)
(* The DOM.                                                                *)
(***************************************************************************)
\* The script has run.  It throws in a document without a body, which the answer
\* reports and nobody looks at.
Inject ==
    /\ Go("inject", "watch")
    /\ observer' \in BOOLEAN
    /\ UNCHANGED <<traffic, late, loaded, seen, counts, cut>>

Decide(v) == phase' = "disconnect" /\ verdict' = v

\* Mutant: the deadline is thrown outside the try.
WatchThrows ==
    /\ phase = "watch"
    /\ IF late THEN GiveUp ELSE Go("watch", "asked")
    /\ UNCHANGED <<traffic, late, page, counts, cut>>

\* The while loop: past the deadline it throws, else it asks the page.
Watch ==
    /\ phase = "watch"
    /\ IF late THEN Decide("gaveUp") ELSE Go("watch", "asked")
    /\ UNCHANGED <<traffic, late, page, counts, cut>>

\* No mutation for 300 ms; or some, and the loop goes on; or a rejection.
DOMAnswer ==
    /\ phase = "asked"
    /\ \/ Decide("ready") \/ Decide("gaveUp")
       \/ Go("asked", "watch")
    /\ UNCHANGED <<traffic, late, page, counts, cut>>

\* The finally block; a rejection is caught, and the script may have run all the same.
Disconnect ==
    /\ Go("disconnect", "ended")
    /\ \/ observer' = FALSE /\ UNCHANGED cut
       \/ observer' \in {observer, FALSE} /\ cut' = TRUE
    /\ UNCHANGED <<traffic, late, loaded, seen, counts>>

(***************************************************************************)
(* A call outside every try of its phase is rejected.  The script may have *)
(* run by then: only its answer came too late.                             *)
(***************************************************************************)
Rejected ==
    /\ phase \in {"enablePage", "enableNetwork", "inject"} /\ GiveUp
    /\ IF phase = "inject" THEN cut' = TRUE /\ observer' \in BOOLEAN ELSE UNCHANGED <<cut, observer>>
    /\ UNCHANGED <<traffic, late, loaded, seen, counts>>

Deadline == ~late /\ late' = TRUE /\ UNCHANGED <<traffic, wait, page, counts, cut>>

Calls == PageEnabled \/ ReadyState \/ Subscribe \/ Inject \/ DOMAnswer \/ Disconnect \/ Rejected
Steps == Evaluated \/ LoadTimeout \/ Stable \/ NetworkTimeout \/ Watch

Event(r) ==
    \/ OnRequestWillBeSent(r) \/ OnRedirect(r) \/ OnResponseReceived(r)
    \/ OnLoadingFinished(r) \/ OnLoadingFailed(r)

Next == Calls \/ Steps \/ Completes \/ LoadEvent \/ Tick \/ Deadline \/ \E r \in Requests : Event(r)

Spec == Init /\ [][Next]_vars

\* Calls settle, awaits continue and time passes.  The page may never load, and
\* its requests may never end.
FairSpec == Spec /\ WF_vars(Calls) /\ WF_vars(Steps) /\ WF_vars(Deadline)

(***************************************************************************)
(* Properties.                                                             *)
(***************************************************************************)
\* What the counter counts: the requests seen to begin, one more for each redirect,
\* one less for each request that began unseen and is over.  It is the number of
\* requests in flight only if both corrections are nil (pageReadiness.ts:172-185).
CounterDrift ==
    Listening =>
        activeRequests = Cardinality(InFlight \ missed) + extra
                         - Cardinality({r \in missed : net[r] \in Over})

\* With every request seen from its start and no redirect, the network phase
\* ends well only in a complete page in which nothing was in flight for 200 ms.
StableIsEarned ==
    [][Stable /\ missed = {} /\ extra = 0 => loaded # "no" /\ empty = Threshold]_vars

\* The counter counts what it counts, and with nothing to correct "stable" is true.
CounterIsSound == []CounterDrift /\ StableIsEarned

\* The observer does not stay in the page, whatever failed or took too long, unless
\* the script that sets it or the one that removes it was itself rejected.
ObserverRemoved == phase = "ended" /\ ~cut => ~observer

\* The function returns, whatever the page does.
ReadinessEnds == <>(phase = "ended")

\* pageReadiness.ts:149, "stable when there are zero active requests for at
\* least 200ms continuously".
StableMeansQuiet == [][Stable => empty = Threshold]_vars
=============================================================================
