-------------------------------- MODULE DomQuery --------------------------------
(***************************************************************************)
(* bdg dom query and bdg dom get (commands/dom/index.ts, helpers.ts): the  *)
(* nodes a selector matches are described by two CDP calls each, under the *)
(* ConcurrencyLimiter, over the worker's one connection.  A task of the    *)
(* limiter is the position of a node in the list that is described.        *)
(*                                                                         *)
(* The browser's side is external: DOM.getDocument forgets the node ids it *)
(* handed out before on that connection, and a navigation forgets them as  *)
(* well.  Every command of the user goes over the same connection.         *)
(*                                                                         *)
(* map() calls run() for one node after the other; here the calls may come *)
(* in any order and at any time, as those of the limiter's other callers.  *)
(***************************************************************************)
EXTENDS ConcurrencyLimiter, Integers

CONSTANTS
    Queries,        \* what may be asked: records [name, nodeId, all, nth]
    Matches,        \* how many elements the selector matches, by page load
    MaxChanges      \* bound: navigations and documents asked for by others

ASSUME DomAssumption ==
    /\ Tasks \subseteq Nat \ {0} /\ MaxChanges \in Nat
    /\ Matches \in Seq(Nat) /\ Len(Matches) > MaxChanges
    /\ Queries \subseteq [name : {"query", "get"}, nodeId : BOOLEAN, all : BOOLEAN, nth : Int]
    /\ 1 \in Tasks /\ \A l \in DOMAIN Matches : 1 .. Matches[l] \subseteq Tasks

VARIABLES
    load,           \* which page load the tab shows, from 1
    bindings,       \* how often the ids of nodes have been renewed
    query,          \* the command
    got             \* what fn has, for each position of the list

domVars == <<load, bindings, query, got>>

NoQuery == [name |-> "none", nodeId |-> FALSE, all |-> FALSE, nth |-> 0]
Bare    == [tag |-> <<>>, html |-> <<>>]
DomIdle == [ask |-> NoQuery, step |-> "idle", root |-> 0, nodes |-> <<>>, results |-> <<>>, exit |-> -1]

DomInit ==
    /\ load = 1
    /\ bindings = 0
    /\ query = DomIdle
    /\ got = [t \in Tasks |-> Bare]

\* Node ids: the renewal they come from and the element they stand for.
Element(l, i) == <<l, i>>
ElementOf(node) == IF node.bindings = bindings THEN <<node.element>> ELSE <<>>

DomEnds(code) == query' = [query EXCEPT !.step = "over", !.exit = code]
LimiterRests == UNCHANGED <<running, queue, state>>

\* DOM.enable, whose answer is not looked at.
DomEnable(ask) ==
    /\ query.step = "idle"
    /\ query' = [DomIdle EXCEPT !.ask = ask, !.step = IF ask.nodeId THEN "fetch" ELSE "document",
                                !.nodes = IF ask.nodeId THEN <<[bindings |-> 0, element |-> Element(1, 1)]>>
                                          ELSE <<>>,
                                !.results = IF ask.nodeId THEN <<Bare>> ELSE <<>>]
    /\ UNCHANGED <<load, bindings, got>> /\ LimiterRests

\* DOM.getDocument; without a root a CDPConnectionError ends the command.
GetDocument ==
    /\ query.step = "document"
    /\ \/ /\ bindings' = bindings + 1
          /\ query' = [query EXCEPT !.step = "select", !.root = bindings + 1]
       \/ /\ DomEnds(104)
          /\ UNCHANGED bindings
    /\ UNCHANGED <<load, got>> /\ LimiterRests

\* The nodes get keeps: the nth, all of them or the first.
Chosen(ask, nodes) ==
    CASE ask.name = "query" \/ (ask.nth = 0 /\ ask.all) -> nodes
      [] ask.name = "get" /\ ask.nth # 0 -> <<nodes[ask.nth]>>
      [] OTHER -> <<nodes[1]>>

\* DOM.querySelectorAll: an error answer (a root that is forgotten, a selector
\* that is none) counts as no match.  query goes on with an empty list, get ends.
QuerySelectorAll ==
    /\ query.step = "select"
    /\ \E matched \in {0} \cup (IF query.root = bindings THEN {Matches[load]} ELSE {}) :
           LET nodes == [i \in 1 .. matched |-> [bindings |-> bindings, element |-> Element(load, i)]]
               ask   == query.ask
           IN  CASE ask.name = "get" /\ matched = 0 -> DomEnds(83)
                 [] ask.name = "get" /\ matched > 0 /\ ask.nth \notin 0 .. matched -> DomEnds(81)
                 [] OTHER -> query' = [query EXCEPT !.step = "fetch", !.nodes = Chosen(ask, nodes),
                                                    !.results = [i \in 1 .. Len(Chosen(ask, nodes)) |-> Bare]]
    /\ UNCHANGED <<load, bindings, got>> /\ LimiterRests

Fetched == {t \in Tasks : t <= Len(query.nodes)}

CallRun(t) ==
    /\ query.step = "fetch" /\ t \in Fetched
    /\ Call(t)
    /\ UNCHANGED domVars

\* Mutant: what comes back is pushed, in the order of completion.
PlaceByCompletion(results, t, item) ==
    LET done == Cardinality({u \in Tasks : state[u] = "done"})
    IN  [results EXCEPT ![done + 1] = item]

\* Promise.all: the result takes the place of its promise.
Place(results, t, item) == [results EXCEPT ![t] = item]

\* DOM.describeNode: an error answer leaves the bare node id.
DescribeNode(t) ==
    /\ query.step = "fetch" /\ state[t] = "running" /\ got[t] = Bare
    /\ LET element == ElementOf(query.nodes[t])
       IN  IF element = <<>>
           THEN /\ query' = [query EXCEPT !.results = Place(@, t, Bare)]
                /\ Finish(t)
                /\ UNCHANGED got
           ELSE /\ got' = [got EXCEPT ![t].tag = element]
                /\ UNCHANGED query /\ LimiterRests
    /\ UNCHANGED <<load, bindings>>

\* DOM.getOuterHTML: an error answer leaves the HTML out.
GetOuterHTML(t) ==
    /\ query.step = "fetch" /\ state[t] = "running" /\ got[t] # Bare
    /\ query' = [query EXCEPT !.results = Place(@, t, [got[t] EXCEPT !.html = ElementOf(query.nodes[t])])]
    /\ Finish(t)
    /\ UNCHANGED <<load, bindings, got>>

\* A request that gets no answer: Promise.all rejects, the process exits and
\* the other calls go with it.
CallFails(t) ==
    /\ query.step = "fetch" /\ state[t] = "running"
    /\ \E code \in {83, 104} : DomEnds(code)
    /\ UNCHANGED <<load, bindings, got>> /\ LimiterRests

ResumeRun(t) ==
    /\ query.step = "fetch"
    /\ Resume(t)
    /\ UNCHANGED domVars

AllFetched ==
    /\ query.step = "fetch"
    /\ \A t \in Fetched : state[t] = "done"
    /\ DomEnds(0)
    /\ UNCHANGED <<load, bindings, got>> /\ LimiterRests

\* The page, and the other users of the connection.
PageChanges ==
    /\ query.step \in {"document", "select", "fetch"}
    /\ bindings < MaxChanges + 1
    /\ bindings' = bindings + 1
    /\ \/ load' = load + 1 /\ load < Len(Matches)
       \/ UNCHANGED load
    /\ UNCHANGED <<query, got>> /\ LimiterRests

DomNext ==
    \/ \E ask \in Queries : DomEnable(ask)
    \/ GetDocument \/ QuerySelectorAll \/ AllFetched \/ PageChanges
    \/ \E t \in Tasks : CallRun(t) \/ ResumeRun(t) \/ DescribeNode(t) \/ GetOuterHTML(t) \/ CallFails(t)

DomSpec == Init /\ DomInit /\ [][DomNext]_<<vars, domVars>>

\* Every CDP call is answered or times out; every woken waiter resumes.
DomFairness ==
    /\ WF_domVars(GetDocument) /\ WF_domVars(QuerySelectorAll) /\ WF_domVars(AllFetched)
    /\ \A t \in Tasks : /\ WF_vars(CallRun(t)) /\ WF_vars(ResumeRun(t))
                        /\ WF_<<vars, domVars>>(DescribeNode(t)) /\ WF_<<vars, domVars>>(GetOuterHTML(t))

(***************************************************************************)
(* Properties.                                                             *)
(***************************************************************************)
\* What a successful command prints at a position describes the node selected
\* for that position or nothing, whatever the order in which the calls return:
\* no description goes to another node, none is lost while the ids hold, and
\* HTML is never that of another element than the tag.
QueryTells ==
    query.exit = 0 =>
        /\ Len(query.results) = Len(query.nodes)
        /\ \A i \in DOMAIN query.results :
               LET r == query.results[i]
                   node == query.nodes[i]
               IN  /\ r.tag \in {<<>>, <<node.element>>}
                   /\ r.html \in {<<>>, r.tag}
                   /\ node.bindings = bindings => r.html = <<node.element>>

\* A query that has begun ends.
QueryEnds == query.step \notin {"idle", "over"} ~> query.step = "over"
=============================================================================
