------------------------ MODULE CommandLineProofs ------------------------
(***************************************************************************)
(* Safety of what a command line runs: the ConcurrencyLimiter, the DOM     *)
(* query commands that use it, the form commands, the collectors with the  *)
(* viewing commands, and the functions that choose exit codes, filter      *)
(* requests, read typed URLs and cut lists into pages.  The processes      *)
(* share no state: each has an invariant of its own, proved for every      *)
(* value of its constants.                                                 *)
(***************************************************************************)
EXTENDS JsonlFraming, TelemetryViews, DomQuery, FormCommand, CommandLineCalls, FiniteSetTheorems,
        SequenceTheorems, WellFoundedInduction, TLAPS

(***************************************************************************)
(* ConcurrencyLimiter.                                                     *)
(***************************************************************************)
\* The sets of tasks in one state are finite.
LEMMA InFinite == \A s : IsFiniteSet(In(s)) /\ Cardinality(In(s)) \in Nat
<1> TAKE s
<1>1. In(s) \subseteq Tasks
  BY DEF In
<1> QED
  BY <1>1, TasksAssumption, FS_Subset, FS_CardinalityType

\* What Append does to the set of queued tasks.
LEMMA AppendEffect ==
    ASSUME NEW q \in Seq(Tasks), NEW t \in Tasks
    PROVE  /\ Append(q, t) \in Seq(Tasks) /\ Append(q, t) # <<>>
           /\ Len(Append(q, t)) = Len(q) + 1
           /\ \A i \in 1..Len(q) : Append(q, t)[i] = q[i]
           /\ Append(q, t)[Len(q) + 1] = t
  OBVIOUS

\* What Head and Tail return of a non-empty queue.
LEMMA TailEffect ==
    ASSUME NEW q \in Seq(Tasks), q # <<>>
    PROVE  /\ Head(q) \in Tasks /\ Head(q) = q[1] /\ Tail(q) \in Seq(Tasks)
           /\ Len(q) \in Nat \ {0} /\ Len(Tail(q)) = Len(q) - 1
           /\ \A i \in 1..Len(Tail(q)) : Tail(q)[i] = q[i + 1]
  OBVIOUS

\* A counted set that gains, loses or keeps a task.
LEMMA CountStep ==
    ASSUME NEW s, NEW t \in Tasks
    PROVE  /\ t \notin In(s) => Cardinality(In(s) \cup {t}) = Cardinality(In(s)) + 1
           /\ t \in In(s) => Cardinality(In(s) \ {t}) = Cardinality(In(s)) - 1
           /\ t \in In(s) => Cardinality(In(s)) > 0
<1>1. IsFiniteSet(In(s)) /\ Cardinality(In(s)) \in Nat
  BY InFinite
<1>2. t \in In(s) => Cardinality(In(s)) # 0
  BY <1>1, FS_EmptySet
<1>3. ASSUME t \notin In(s) PROVE Cardinality(In(s) \cup {t}) = Cardinality(In(s)) + 1
  BY <1>1, <1>3, FS_AddElement
<1>4. ASSUME t \in In(s) PROVE Cardinality(In(s) \ {t}) = Cardinality(In(s)) - 1
  BY <1>1, <1>4, FS_RemoveElement
<1> QED
  BY <1>1, <1>2, <1>3, <1>4

\* Enter, from "new" or from "woken", keeps the invariant.
LEMMA EnterStep ==
    ASSUME IInv, NEW t \in Tasks, Enter(t)
    PROVE  IInv'
<1> USE DEF IInv, TypeOK, TaskState
<1>1. CASE /\ running >= Limit
           /\ queue' = Append(queue, t)
           /\ state' = [state EXCEPT ![t] = "queued"]
           /\ UNCHANGED running
  <2>1. TypeOK'
    BY <1>1, AppendEffect
  <2>2. In("running")' = In("running")
    BY <1>1 DEF In, Enter
  <2>3. BoundedConcurrency'
    BY <1>1, <2>2 DEF BoundedConcurrency
  <2>4. \A i \in DOMAIN queue : queue[i] # t
    BY DEF QueueIsExact, Enter
  <2>5. /\ DOMAIN queue = 1..Len(queue) /\ DOMAIN queue' = 1..(Len(queue) + 1)
        /\ Len(queue) \in Nat
    BY <1>1, <2>1, AppendEffect
  <2>6. \A i \in DOMAIN queue' : queue'[i] = IF i = Len(queue) + 1 THEN t ELSE queue[i]
    BY <1>1, <2>5, AppendEffect
  <2>7. QueueIsExact'
    <3>1. \A u \in Tasks : state'[u] = "queued" <=> u = t \/ state[u] = "queued"
      BY <1>1
    <3>2. \A u \in Tasks : (\E i \in DOMAIN queue' : queue'[i] = u)
                              <=> u = t \/ \E i \in DOMAIN queue : queue[i] = u
      BY <2>5, <2>6
    <3>3. \A i, j \in DOMAIN queue' : queue'[i] = queue'[j] => i = j
      BY <2>4, <2>5, <2>6 DEF QueueIsExact
    <3> QED
      BY <3>1, <3>2, <3>3 DEF QueueIsExact
  <2>8. NoLostWakeup'
    <3>1. Cardinality(In("woken"))' \in Nat
      <4>1. In("woken")' \subseteq Tasks
        BY DEF In
      <4> QED
        BY <4>1, TasksAssumption, FS_Subset, FS_CardinalityType
    <3> QED
      BY <1>1, <3>1, LimitAssumption DEF NoLostWakeup
  <2> QED
    BY <2>1, <2>3, <2>7, <2>8
<1>2. CASE /\ running < Limit
           /\ running' = running + 1
           /\ state' = [state EXCEPT ![t] = "running"]
           /\ UNCHANGED queue
  <2>1. TypeOK'
    BY <1>2
  <2>2. In("running")' = In("running") \cup {t} /\ t \notin In("running")
    BY <1>2 DEF In, Enter
  <2>3. In("woken")' = In("woken") \ {t}
    BY <1>2 DEF In
  <2>4. BoundedConcurrency'
    BY <1>2, <2>2, CountStep, LimitAssumption DEF BoundedConcurrency
  <2>5. QueueIsExact'
    BY <1>2 DEF QueueIsExact, Enter
  <2>6. Cardinality(In("woken"))' >= Cardinality(In("woken")) - 1
    <3>1. CASE t \in In("woken")
      <4>1. Cardinality(In("woken") \ {t}) = Cardinality(In("woken")) - 1
        BY <3>1, CountStep
      <4>2. Cardinality(In("woken")) \in Nat
        BY InFinite
      <4>3. Cardinality(In("woken"))' = Cardinality(In("woken") \ {t})
        BY <2>3, Zenon
      <4> QED
        BY <4>1, <4>2, <4>3
    <3>2. CASE t \notin In("woken")
      <4>1. In("woken")' = In("woken")
        BY <2>3, <3>2
      <4> QED
        BY <4>1, InFinite
    <3> QED
      BY <3>1, <3>2
  <2>7. NoLostWakeup'
    <3>1. Cardinality(In("woken"))' \in Nat
      BY <2>3, InFinite, FS_RemoveElement, FS_CardinalityType
    <3> QED
      BY <1>2, <2>6, <3>1, InFinite, LimitAssumption DEF NoLostWakeup
  <2> QED
    BY <2>1, <2>4, <2>5, <2>7
<1> QED
  BY <1>1, <1>2 DEF Enter

\* A task that leaves fn keeps the invariant.
LEMMA FinishStep ==
    ASSUME IInv, NEW t \in Tasks, Finish(t)
    PROVE  IInv'
<1> USE DEF IInv, TypeOK, TaskState
<1>1. t \in In("running") /\ running' = running - 1 /\ running > 0
  BY CountStep DEF Finish, In, BoundedConcurrency
<1>2. CASE queue = <<>>
  <2>1. queue' = <<>> /\ state' = [state EXCEPT ![t] = "done"]
    BY <1>2 DEF Finish
  <2>2. In("running")' = In("running") \ {t}
    BY <2>1 DEF In
  <2>3. TypeOK' /\ NoLostWakeup'
    BY <1>1, <2>1 DEF NoLostWakeup
  <2>4. BoundedConcurrency'
    BY <1>1, <2>2, CountStep, LimitAssumption DEF BoundedConcurrency
  <2>5. QueueIsExact'
    BY <1>2, <2>1 DEF QueueIsExact, Finish
  <2> QED
    BY <2>3, <2>4, <2>5
<1>3. CASE queue # <<>>
  <2> DEFINE h == Head(queue)
  <2>1. /\ queue' = Tail(queue) /\ h \in Tasks
        /\ state' = [state EXCEPT ![t] = "done", ![h] = "woken"]
    BY <1>3, TailEffect DEF Finish
  <2>2. /\ DOMAIN queue = 1..Len(queue) /\ Len(queue) \in Nat \ {0}
        /\ DOMAIN queue' = 1..(Len(queue) - 1)
        /\ h = queue[1] /\ \A i \in DOMAIN queue' : queue'[i] = queue[i + 1]
    BY <1>3, <2>1, TailEffect
  <2>3. state[h] = "queued" /\ h # t
    BY <2>1, <2>2 DEF QueueIsExact, Finish
  <2>4. TypeOK'
    BY <1>1, <1>3, <2>1, TailEffect
  <2>5. In("running")' = In("running") \ {t} /\ In("woken")' = In("woken") \cup {h}
    BY <1>1, <2>1, <2>3 DEF In
  <2>6. BoundedConcurrency'
    BY <1>1, <2>5, CountStep, LimitAssumption DEF BoundedConcurrency
  <2>7. QueueIsExact'
    <3>1. \A i, j \in DOMAIN queue' : queue'[i] = queue'[j] => i = j
      BY <2>2 DEF QueueIsExact
    <3>2. \A u \in Tasks : state'[u] = "queued" <=> state[u] = "queued" /\ u # h
      BY <2>1, <2>3 DEF Finish
    <3>3. ASSUME NEW u \in Tasks
          PROVE  (\E i \in DOMAIN queue' : queue'[i] = u)
                    <=> u # h /\ \E i \in DOMAIN queue : queue[i] = u
      <4>1. \A i \in DOMAIN queue' : i + 1 \in DOMAIN queue /\ i + 1 # 1
        BY <2>2
      <4>2. \A i \in DOMAIN queue : i # 1 => i - 1 \in DOMAIN queue' /\ queue'[i - 1] = queue[i]
        BY <2>2
      <4>3. \A i \in DOMAIN queue : queue[i] = h => i = 1
        BY <2>2 DEF QueueIsExact
      <4> QED
        BY <2>2, <4>1, <4>2, <4>3
    <3> QED
      BY <3>1, <3>2, <3>3 DEF QueueIsExact
  <2>8. NoLostWakeup'
    <3>1. h \notin In("woken")
      BY <2>3 DEF In
    <3>2. Cardinality(In("woken"))' = Cardinality(In("woken")) + 1
      BY <2>1, <2>5, <3>1, CountStep
    <3>3. Cardinality(In("woken")) \in Nat
      BY InFinite
    <3> QED
      BY <1>1, <1>3, <3>2, <3>3 DEF NoLostWakeup
  <2> QED
    BY <2>4, <2>6, <2>7, <2>8
<1> QED
  BY <1>2, <1>3

LEMMA LimiterStarts == Init => IInv
<1> SUFFICES ASSUME Init PROVE IInv
  OBVIOUS
<1>1. In("running") = {} /\ In("woken") = {}
  BY DEF Init, In
<1> QED
  BY <1>1, FS_EmptySet, LimitAssumption
     DEF Init, IInv, TypeOK, TaskState, BoundedConcurrency, QueueIsExact, NoLostWakeup

LEMMA LimiterStep == IInv /\ [Next]_vars => IInv'
<1> SUFFICES ASSUME IInv, [Next]_vars PROVE IInv'
  OBVIOUS
<1>1. CASE UNCHANGED vars
  BY <1>1 DEF vars, IInv, TypeOK, BoundedConcurrency, QueueIsExact, NoLostWakeup, In
<1>2. ASSUME NEW t \in Tasks, Call(t) PROVE IInv'
  BY <1>2, EnterStep DEF Call
<1>3. ASSUME NEW t \in Tasks, Resume(t) PROVE IInv'
  BY <1>3, EnterStep DEF Resume
<1>4. ASSUME NEW t \in Tasks, Finish(t) PROVE IInv'
  BY <1>4, FinishStep
<1> QED
  BY <1>1, <1>2, <1>3, <1>4 DEF Next

\* The inductive invariant: the counter, the queue and the states of the calls
\* agree between every two steps of ConcurrencyLimiter.run().
THEOREM Invariance == Spec => []IInv
BY LimiterStarts, LimiterStep, PTL DEF Spec

\* run() keeps its state well typed; in particular the counter never goes
\* below zero.
THEOREM TypeCorrect == Spec => []TypeOK
  BY Invariance, PTL DEF IInv

\* At most maxConcurrency operations execute, for every limit and every order
\* of calls, wake-ups and completions.
THEOREM ConcurrencyIsBounded == Spec => []BoundedConcurrency
  BY Invariance, PTL DEF IInv

\* A waiter is never left queued beside a free slot that nobody is coming for.
THEOREM WakeupsAreNotLost == Spec => []NoLostWakeup
  BY Invariance, PTL DEF IInv

\* Both, as the run checks it.
THEOREM SlotsShared == Spec => []SlotsAreShared
  BY ConcurrencyIsBounded, WakeupsAreNotLost, PTL DEF SlotsAreShared


(***************************************************************************)
(* bdg dom query and bdg dom get.                                          *)
(***************************************************************************)
Elements == Nat \X Nat

Item == [tag : Seq(Elements), html : Seq(Elements)]

Node == [bindings : Nat, element : Elements]

DomSteps == {"idle", "document", "select", "fetch", "over"}

DomTypes ==
    /\ load \in 1 .. Len(Matches)
    /\ bindings \in Nat
    /\ query \in [ask : Queries \cup {NoQuery}, step : DomSteps, root : Nat, nodes : Seq(Node),
                  results : Seq(Item), exit : Int]
    /\ got \in [Tasks -> Item]

\* No call of the limiter is made before there are nodes to describe.
NothingFetched ==
    query.step \in {"idle", "document", "select"} => \A t \in Tasks : state[t] = "new" /\ got[t] = Bare

\* What a call has, and what it left in the result, is of the node it was made for.
Describes(t) ==
    LET node == query.nodes[t]
        r    == query.results[t]
    IN  /\ got[t] \in {Bare, [tag |-> <<node.element>>, html |-> <<>>]}
        /\ state[t] = "done" =>
              /\ r.tag \in {<<>>, <<node.element>>}
              /\ r.html \in {<<>>, r.tag}
              /\ node.bindings = bindings => r.html = <<node.element>>

\* One result for each node, one call for each, and no node from the future.
Fetching ==
    query.step = "fetch" =>
        /\ Len(query.results) = Len(query.nodes)
        /\ \A t \in DOMAIN query.nodes :
              t \in Tasks /\ query.nodes[t].bindings <= bindings /\ Describes(t)
        /\ \A t \in Tasks \ DOMAIN query.nodes : state[t] = "new"

DomInv ==
    /\ IInv /\ DomTypes /\ NothingFetched /\ Fetching
    /\ query.step = "idle" => bindings = 0
    /\ query.step # "idle" => query.ask \in Queries
    /\ query.step # "over" => query.exit = -1
    /\ QueryTells

\* The tuples that stand for "an element" and "none".
LEMMA Singles ==
    /\ \A e \in Elements : <<e>> \in Seq(Elements) /\ Len(<<e>>) = 1 /\ <<e>> # <<>> /\ <<e>>[1] = e
    /\ <<>> \in Seq(Elements)
    /\ Bare \in Item /\ Bare.tag = <<>> /\ Bare.html = <<>>
<1>1. \A e \in Elements : <<e>> \in Seq(Elements) /\ Len(<<e>>) = 1 /\ <<e>> # <<>> /\ <<e>>[1] = e
  OBVIOUS
<1>2. <<>> \in Seq(Elements)
  OBVIOUS
<1>3. Bare.tag = <<>> /\ Bare.html = <<>>
  BY DEF Bare
<1>4. Bare \in Item
  BY <1>2 DEF Bare, Item
<1> QED
  BY <1>1, <1>2, <1>3, <1>4

LEMMA QueryFacts ==
    ASSUME DomTypes
    PROVE  /\ query = [ask |-> query.ask, step |-> query.step, root |-> query.root, nodes |-> query.nodes,
                       results |-> query.results, exit |-> query.exit]
           /\ query.ask \in Queries \cup {NoQuery} /\ query.step \in DomSteps /\ query.root \in Nat
           /\ query.nodes \in Seq(Node) /\ query.results \in Seq(Item) /\ query.exit \in Int
BY DEF DomTypes

LEMMA DomStarts == Init /\ DomInit => DomInv
<1> SUFFICES ASSUME Init, DomInit PROVE DomInv
  OBVIOUS
<1>1. IInv
  BY LimiterStarts
<1>2. /\ load = 1 /\ bindings = 0 /\ got = [t \in Tasks |-> Bare]
      /\ query = [ask |-> NoQuery, step |-> "idle", root |-> 0, nodes |-> <<>>, results |-> <<>>, exit |-> -1]
  BY DEF DomInit, DomIdle
<1>3. DomTypes
  <2>1. load \in 1 .. Len(Matches)
    BY <1>2, DomAssumption
  <2>2. got \in [Tasks -> Item]
    BY <1>2, Singles
  <2>3. query \in [ask : Queries \cup {NoQuery}, step : DomSteps, root : Nat, nodes : Seq(Node),
                   results : Seq(Item), exit : Int]
    <3>1. <<>> \in Seq(Node) /\ <<>> \in Seq(Item)
      OBVIOUS
    <3> QED
      BY <1>2, <3>1 DEF DomSteps
  <2> QED
    BY <1>2, <2>1, <2>2, <2>3 DEF DomTypes
<1>4. NothingFetched
  BY <1>2 DEF Init, NothingFetched
<1>5. Fetching /\ QueryTells
  BY <1>2 DEF Fetching, QueryTells
<1> QED
  BY <1>1, <1>2, <1>3, <1>4, <1>5 DEF DomInv

\* A step of the limiter, seen from the command: one call moves, a woken one
\* may come along.
LEMMA LimiterMoves ==
    ASSUME IInv, NEW t \in Tasks, Call(t) \/ Resume(t) \/ Finish(t)
    PROVE  /\ IInv'
           /\ state' \in [Tasks -> TaskState]
           /\ \A u \in Tasks \ {t} : state[u] \in {"new", "done"} <=> state'[u] \in {"new", "done"}
           /\ \A u \in Tasks \ {t} : state[u] \in {"new", "done"} => state'[u] = state[u]
           /\ state'[t] = "done" <=> Finish(t)
<1>1. IInv'
  BY LimiterStep DEF Next
<1>2. state \in [Tasks -> TaskState] /\ state' \in [Tasks -> TaskState] /\ queue \in Seq(Tasks)
  BY <1>1 DEF IInv, TypeOK
<1>3. CASE Call(t) \/ Resume(t)
  <2>1. PICK x \in {"queued", "running"} : state' = [state EXCEPT ![t] = x]
    BY <1>3 DEF Call, Resume, Enter
  <2>2. ~Finish(t)
    BY <1>3 DEF Call, Resume, Enter, Finish
  <2> QED
    BY <1>1, <1>2, <2>1, <2>2
<1>4. CASE Finish(t)
  <2>1. CASE queue = <<>>
    <3>1. state' = [state EXCEPT ![t] = "done"]
      BY <1>4, <2>1 DEF Finish
    <3> QED
      BY <1>1, <1>2, <1>4, <3>1
  <2>2. CASE queue # <<>>
    <3>1. state' = [state EXCEPT ![t] = "done", ![Head(queue)] = "woken"]
      BY <1>4, <2>2 DEF Finish
    <3>2. Head(queue) \in Tasks /\ state[Head(queue)] = "queued" /\ state[t] = "running"
      <4>1. 1 \in DOMAIN queue /\ Head(queue) = queue[1] /\ Head(queue) \in Tasks
        BY <1>2, <2>2
      <4> QED
        BY <1>4, <4>1 DEF IInv, QueueIsExact, Finish
    <3> QED
      BY <1>1, <1>2, <1>4, <3>1, <3>2
  <2> QED
    BY <2>1, <2>2
<1> QED
  BY <1>3, <1>4

\* A step that neither fetches nor ends keeps what there is to keep.
LEMMA BeforeFetch ==
    ASSUME DomInv, query.step \in {"idle", "document", "select"}, UNCHANGED <<load, got>>, LimiterRests,
           bindings' \in Nat,
           query' \in [ask : Queries, step : {"document", "select"}, root : Nat, nodes : Seq(Node),
                       results : Seq(Item), exit : {-1}]
    PROVE  DomInv'
<1>1. IInv'
  BY LimiterStep DEF DomInv, LimiterRests, vars
<1>2. query'.step \in {"document", "select"} /\ query'.exit = -1 /\ query'.ask \in Queries
  OBVIOUS
<1>3. DomTypes'
  BY DEF DomInv, DomTypes, DomSteps
<1>4. NothingFetched' /\ Fetching' /\ QueryTells'
  BY <1>2 DEF DomInv, NothingFetched, Fetching, QueryTells, LimiterRests
<1> QED
  BY <1>1, <1>2, <1>3, <1>4 DEF DomInv

\* The command ends: only with what the properties say of its results.
LEMMA DomEndsStep ==
    ASSUME DomInv, NEW code \in Int, DomEnds(code), UNCHANGED <<load, bindings, got>>, LimiterRests,
           query.step # "idle", code = 0 => query.step = "fetch" /\ \A t \in Fetched : state[t] = "done"
    PROVE  DomInv'
<1>1. IInv'
  BY LimiterStep DEF DomInv, LimiterRests, vars
<1>2. query' = [ask |-> query.ask, step |-> "over", root |-> query.root, nodes |-> query.nodes,
                results |-> query.results, exit |-> code]
  BY QueryFacts DEF DomEnds, DomInv
<1>3. DomTypes'
  BY <1>2, QueryFacts DEF DomInv, DomTypes, DomSteps
<1>4. NothingFetched' /\ Fetching'
  BY <1>2 DEF NothingFetched, Fetching
<1>5. QueryTells'
  <2> SUFFICES ASSUME code = 0 PROVE QueryTells'
    BY <1>2 DEF QueryTells
  <2>1. Len(query.results) = Len(query.nodes) /\ query.nodes \in Seq(Node) /\ query.results \in Seq(Item)
    BY QueryFacts DEF DomInv, Fetching
  <2>2. \A i \in DOMAIN query.results : i \in DOMAIN query.nodes /\ i \in Tasks /\ state[i] = "done" /\ Describes(i)
    BY <2>1, DomAssumption DEF DomInv, Fetching, Fetched
  <2> QED
    BY <1>2, <2>1, <2>2 DEF QueryTells, Describes
<1>6. query'.ask \in Queries /\ query'.step = "over"
  BY <1>2 DEF DomInv
<1> QED
  BY <1>1, <1>3, <1>4, <1>5, <1>6 DEF DomInv

\* The nodes are known: one bare result for each, and the calls can begin.
LEMMA FetchBegins ==
    ASSUME DomInv, query.step \in {"idle", "select"}, UNCHANGED <<load, bindings, got>>, LimiterRests,
           NEW ask \in Queries, NEW root \in Nat, NEW nodes \in Seq(Node), NEW results \in Seq(Item),
           Len(results) = Len(nodes), \A i \in DOMAIN nodes : i \in Tasks /\ nodes[i].bindings <= bindings,
           query' = [ask |-> ask, step |-> "fetch", root |-> root, nodes |-> nodes, results |-> results, exit |-> -1]
    PROVE  DomInv'
<1>1. IInv'
  BY LimiterStep DEF DomInv, LimiterRests, vars
<1>2. DomTypes'
  BY DEF DomInv, DomTypes, DomSteps
<1>3. \A t \in Tasks : state[t] = "new" /\ got[t] = Bare
  BY DEF DomInv, NothingFetched
<1>4. Fetching'
  <2>1. \A t \in DOMAIN nodes : t \in Tasks /\ nodes[t].bindings <= bindings
    OBVIOUS
  <2>2. \A t \in DOMAIN nodes : Describes(t)'
    BY <1>3, <2>1 DEF Describes, LimiterRests
  <2> QED
    BY <1>3, <2>1, <2>2 DEF Fetching, LimiterRests
<1>5. NothingFetched' /\ QueryTells'
  BY DEF NothingFetched, QueryTells
<1> QED
  BY <1>1, <1>2, <1>4, <1>5 DEF DomInv

LEMMA DomEnableStep == ASSUME DomInv, NEW ask \in Queries, DomEnable(ask) PROVE DomInv'
<1>1. query.step = "idle" /\ UNCHANGED <<load, bindings, got>> /\ LimiterRests
  BY DEF DomEnable
<1>2. CASE ~ask.nodeId
  <2>1. query' = [ask |-> ask, step |-> "document", root |-> 0, nodes |-> <<>>, results |-> <<>>, exit |-> -1]
    BY <1>2 DEF DomEnable, DomIdle
  <2>2. <<>> \in Seq(Node) /\ <<>> \in Seq(Item) /\ bindings \in Nat
    BY DEF DomInv, DomTypes
  <2>3. query' \in [ask : Queries, step : {"document", "select"}, root : Nat, nodes : Seq(Node),
                    results : Seq(Item), exit : {-1}]
    BY <2>1, <2>2
  <2> QED
    BY <1>1, <2>2, <2>3, BeforeFetch
<1>3. CASE ask.nodeId
  <2> DEFINE node == [bindings |-> 0, element |-> Element(1, 1)]
  <2>1. query' = [ask |-> ask, step |-> "fetch", root |-> 0, nodes |-> <<node>>, results |-> <<Bare>>, exit |-> -1]
    BY <1>3 DEF DomEnable, DomIdle
  <2>2. node \in Node /\ node.bindings = 0 /\ 0 <= bindings
    BY DEF Node, Elements, Element, DomInv, DomTypes
  <2> HIDE DEF node
  <2>3. /\ <<node>> \in Seq(Node) /\ <<Bare>> \in Seq(Item) /\ Len(<<Bare>>) = Len(<<node>>)
        /\ \A i \in DOMAIN <<node>> : i = 1 /\ <<node>>[i] = node
    BY <2>2, Singles
  <2>4. 1 \in Tasks
    BY DomAssumption
  <2> QED
    BY <1>1, <2>1, <2>2, <2>3, <2>4, FetchBegins
<1> QED
  BY <1>2, <1>3

LEMMA GetDocumentStep == ASSUME DomInv, GetDocument PROVE DomInv'
<1>1. query.step = "document" /\ UNCHANGED <<load, got>> /\ LimiterRests
  BY DEF GetDocument
<1>2. CASE bindings' = bindings + 1 /\ query' = [query EXCEPT !.step = "select", !.root = bindings + 1]
  <2>1. bindings' \in Nat /\ query.exit = -1 /\ query.ask \in Queries
    BY <1>1, <1>2 DEF DomInv, DomTypes
  <2>2. query' = [ask |-> query.ask, step |-> "select", root |-> bindings', nodes |-> query.nodes,
                  results |-> query.results, exit |-> -1]
    BY <1>2, <2>1, QueryFacts DEF DomInv
  <2>3. query' \in [ask : Queries, step : {"document", "select"}, root : Nat, nodes : Seq(Node),
                    results : Seq(Item), exit : {-1}]
    BY <2>1, <2>2, QueryFacts DEF DomInv
  <2> QED
    BY <1>1, <2>1, <2>3, BeforeFetch
<1>3. CASE DomEnds(104) /\ UNCHANGED bindings
  BY <1>1, <1>3, DomEndsStep
<1> QED
  BY <1>2, <1>3 DEF GetDocument

LEMMA QuerySelectorAllStep == ASSUME DomInv, QuerySelectorAll PROVE DomInv'
<1>1. query.step = "select" /\ UNCHANGED <<load, bindings, got>> /\ LimiterRests
  BY DEF QuerySelectorAll
<1>2. load \in DOMAIN Matches /\ bindings \in Nat /\ query.ask \in Queries
  <2>1. Matches \in Seq(Nat)
    BY DomAssumption
  <2> QED
    BY <1>1, <2>1 DEF DomInv, DomTypes
<1> DEFINE ask == query.ask
           NodesOf(m) == [i \in 1 .. m |-> [bindings |-> bindings, element |-> Element(load, i)]]
           Begins(nodes) == query' = [query EXCEPT !.step = "fetch", !.nodes = nodes,
                                                   !.results = [i \in 1 .. Len(nodes) |-> Bare]]
<1>3. PICK m \in {0, Matches[load]} :
         \/ DomEnds(83) \/ DomEnds(81)
         \/ /\ ask.name = "get" => m > 0 /\ ask.nth \in 0 .. m
            /\ Begins(Chosen(ask, NodesOf(m)))
  <2>1. Matches[load] \in Nat
    BY <1>2, DomAssumption
  <2>2. PICK m \in {0} \cup (IF query.root = bindings THEN {Matches[load]} ELSE {}) :
           CASE ask.name = "get" /\ m = 0 -> DomEnds(83)
             [] ask.name = "get" /\ m > 0 /\ ask.nth \notin 0 .. m -> DomEnds(81)
             [] OTHER -> Begins(Chosen(ask, NodesOf(m)))
    BY DEF QuerySelectorAll
  <2>3. m \in {0, Matches[load]} /\ m \in Nat
    BY <2>1, <2>2
  <2> HIDE DEF Begins
  <2>4. \/ DomEnds(83) \/ DomEnds(81)
        \/ /\ ask.name = "get" => m > 0 /\ ask.nth \in 0 .. m
           /\ Begins(Chosen(ask, NodesOf(m)))
    BY <2>2, <2>3
  <2> QED
    BY <2>3, <2>4
<1>4. CASE DomEnds(83) \/ DomEnds(81)
  BY <1>1, <1>4, DomEndsStep
<1>5. CASE /\ ask.name = "get" => m > 0 /\ ask.nth \in 0 .. m
           /\ Begins(Chosen(ask, NodesOf(m)))
  <2> DEFINE all == NodesOf(m)
             nodes == Chosen(ask, all)
             results == [i \in 1 .. Len(nodes) |-> Bare]
  <2>1. m \in Nat /\ 1 .. m \subseteq Tasks
    <3>1. Matches[load] \in Nat /\ 1 .. Matches[load] \subseteq Tasks
      BY <1>2, DomAssumption
    <3> QED
      BY <3>1
  <2>2. /\ all \in Seq(Node) /\ Len(all) = m
        /\ \A i \in 1 .. m : all[i] \in Node /\ all[i].bindings = bindings
    <3>1. \A i \in 1 .. m : all[i] \in Node /\ all[i].bindings = bindings
      <4>1. load \in Nat
        BY DEF DomInv, DomTypes
      <4> QED
        BY <1>2, <2>1, <4>1 DEF Node, Elements, Element
    <3>2. all \in [1 .. m -> Node]
      BY <3>1
    <3> HIDE DEF NodesOf
    <3> QED
      BY <2>1, <3>1, <3>2
  <2>3. ask.name \in {"query", "get"} /\ ask.nth \in Int
    BY <1>2, DomAssumption
  <2>4. \/ nodes = all
        \/ m > 0 /\ \E i \in 1 .. m : nodes = <<all[i]>>
    <3> HIDE DEF NodesOf
    <3> QED
      BY <1>5, <2>1, <2>3 DEF Chosen
  <2>5. /\ nodes \in Seq(Node)
        /\ \A i \in DOMAIN nodes : i \in Tasks /\ nodes[i].bindings <= bindings
    <3> HIDE DEF all, nodes
    <3>1. CASE nodes = all
      BY <1>2, <2>1, <2>2, <3>1
    <3>2. CASE m > 0 /\ \E i \in 1 .. m : nodes = <<all[i]>>
      <4>1. PICK i \in 1 .. m : nodes = <<all[i]>>
        BY <3>2
      <4>2. nodes \in Seq(Node) /\ \A j \in DOMAIN nodes : j = 1 /\ nodes[j] = all[i]
        BY <2>2, <4>1
      <4> QED
        BY <1>2, <2>2, <4>2, DomAssumption
    <3> QED
      BY <2>4, <3>1, <3>2
  <2> HIDE DEF nodes, all
  <2>6. results \in Seq(Item) /\ Len(results) = Len(nodes)
    BY <2>5, Singles
  <2>7. query' = [ask |-> ask, step |-> "fetch", root |-> query.root, nodes |-> nodes, results |-> results,
                  exit |-> -1]
    <3>1. query.exit = -1
      BY <1>1 DEF DomInv
    <3>2. query' = [query EXCEPT !.step = "fetch", !.nodes = nodes, !.results = results]
      BY <1>5 DEF nodes, all
    <3> HIDE DEF results
    <3> QED
      BY <3>1, <3>2, QueryFacts DEF DomInv
  <2> HIDE DEF results
  <2>8. query.root \in Nat
    BY QueryFacts DEF DomInv
  <2> QED
    BY <1>1, <1>2, <2>5, <2>6, <2>7, <2>8, FetchBegins
<1> QED
  BY <1>3, <1>4, <1>5

\* A call starts or goes on waiting: nothing of the command changes.
LEMMA WaitsStep ==
    ASSUME DomInv, NEW t \in Tasks, CallRun(t) \/ ResumeRun(t)
    PROVE  DomInv'
<1>1. query.step = "fetch" /\ UNCHANGED <<load, bindings, query, got>> /\ (Call(t) \/ Resume(t))
  BY DEF CallRun, ResumeRun, domVars
<1>2. /\ IInv' /\ state' \in [Tasks -> TaskState] /\ state'[t] # "done"
      /\ \A u \in Tasks \ {t} : state[u] \in {"new", "done"} <=> state'[u] \in {"new", "done"}
      /\ \A u \in Tasks \ {t} : state[u] \in {"new", "done"} => state'[u] = state[u]
  <2>1. ~Finish(t)
    BY <1>1 DEF Call, Resume, Enter, Finish
  <2> QED
    BY <1>1, <2>1, LimiterMoves DEF DomInv
<1>3. t \in DOMAIN query.nodes
  <2>1. state[t] = "new" => t \in Fetched
    BY <1>1 DEF CallRun, ResumeRun, Resume
  <2>2. query.nodes \in Seq(Node)
    BY QueryFacts DEF DomInv
  <2> QED
    BY <1>1, <2>1, <2>2, DomAssumption DEF Fetched, DomInv, Fetching
<1>4. DomTypes' /\ NothingFetched' /\ QueryTells'
  BY <1>1 DEF DomInv, DomTypes, NothingFetched, QueryTells
<1>5. Fetching'
  <2>1. \A u \in DOMAIN query.nodes : Describes(u)'
    BY <1>1, <1>2 DEF DomInv, Fetching, Describes
  <2> QED
    BY <1>1, <1>2, <1>3, <2>1 DEF DomInv, Fetching
<1> QED
  BY <1>1, <1>2, <1>4, <1>5 DEF DomInv

\* A call that ends leaves its result at its own place.
LEMMA PlacedStep ==
    ASSUME DomInv, NEW t \in Tasks, query.step = "fetch", Finish(t), UNCHANGED <<load, bindings, got>>,
           t \in DOMAIN query.nodes, NEW item \in Item,
           query' = [query EXCEPT !.results = Place(query.results, t, item)],
           item.tag \in {<<>>, <<query.nodes[t].element>>}, item.html \in {<<>>, item.tag},
           query.nodes[t].bindings = bindings => item.html = <<query.nodes[t].element>>
    PROVE  DomInv'
<1>1. /\ IInv' /\ state' \in [Tasks -> TaskState] /\ state'[t] = "done"
      /\ \A u \in Tasks \ {t} : state[u] \in {"new", "done"} <=> state'[u] \in {"new", "done"}
      /\ \A u \in Tasks \ {t} : state[u] \in {"new", "done"} => state'[u] = state[u]
  BY LimiterMoves DEF DomInv
<1>2. /\ query.nodes \in Seq(Node) /\ query.results \in Seq(Item) /\ Len(query.results) = Len(query.nodes)
      /\ t \in DOMAIN query.results
  BY QueryFacts DEF DomInv, Fetching
<1> DEFINE r == [query.results EXCEPT ![t] = item]
<1>3. /\ r \in Seq(Item) /\ Len(r) = Len(query.nodes) /\ r[t] = item
      /\ \A u \in DOMAIN query.results : u # t => r[u] = query.results[u]
  BY <1>2
<1>4. query' = [ask |-> query.ask, step |-> "fetch", root |-> query.root, nodes |-> query.nodes, results |-> r,
                exit |-> query.exit]
  <2>1. query' = [query EXCEPT !.results = r]
    BY DEF Place
  <2> HIDE DEF r
  <2> QED
    BY <2>1, QueryFacts DEF DomInv
<1> HIDE DEF r
<1>5. DomTypes'
  BY <1>3, <1>4, QueryFacts, SMTT(40) DEF DomInv, DomTypes, DomSteps
<1>6. NothingFetched' /\ QueryTells'
  BY <1>4 DEF DomInv, NothingFetched, QueryTells
<1>7. Fetching'
  <2>1. Describes(t)'
    BY <1>3, <1>4 DEF DomInv, Fetching, Describes
  <2>2. \A u \in DOMAIN query.nodes : u # t => Describes(u)'
    BY <1>1, <1>2, <1>3, <1>4 DEF DomInv, Fetching, Describes
  <2>3. query'.step = "fetch" /\ query'.nodes = query.nodes /\ query'.results = r
    BY <1>4
  <2> QED
    BY <1>1, <1>3, <2>1, <2>2, <2>3 DEF DomInv, Fetching
<1>8. query'.step = "fetch" /\ query'.exit = -1 /\ query'.ask \in Queries
  BY <1>4 DEF DomInv
<1> QED
  BY <1>1, <1>5, <1>6, <1>7, <1>8 DEF DomInv

\* What is known of a call that runs.
LEMMA CallFacts ==
    ASSUME DomInv, NEW t \in Tasks, query.step = "fetch", state[t] = "running"
    PROVE  /\ t \in DOMAIN query.nodes /\ query.nodes[t] \in Node /\ query.nodes[t].element \in Elements
           /\ query.nodes[t].bindings \in Nat /\ query.nodes[t].bindings <= bindings /\ bindings \in Nat
           /\ got[t] \in Item /\ got[t] \in {Bare, [tag |-> <<query.nodes[t].element>>, html |-> <<>>]}
<1>1. t \in DOMAIN query.nodes
  BY DEF DomInv, Fetching
<1>2. query.nodes \in Seq(Node) /\ got[t] \in Item /\ bindings \in Nat
  BY QueryFacts DEF DomInv, DomTypes
<1>3. query.nodes[t] \in Node
  BY <1>1, <1>2
<1> QED
  BY <1>1, <1>2, <1>3 DEF DomInv, Fetching, Describes, Node

LEMMA DescribeNodeStep == ASSUME DomInv, NEW t \in Tasks, DescribeNode(t) PROVE DomInv'
<1> DEFINE node == query.nodes[t]
<1>1. /\ query.step = "fetch" /\ state[t] = "running" /\ got[t] = Bare /\ UNCHANGED <<load, bindings>>
      /\ \/ /\ ElementOf(node) = <<>> /\ UNCHANGED got /\ Finish(t)
            /\ query' = [query EXCEPT !.results = Place(query.results, t, Bare)]
         \/ /\ ElementOf(node) # <<>> /\ UNCHANGED query /\ LimiterRests
            /\ got' = [got EXCEPT ![t].tag = ElementOf(node)]
  BY DEF DescribeNode
<1>2. /\ t \in DOMAIN query.nodes /\ node.element \in Elements /\ got[t] \in Item
      /\ <<node.element>> # <<>> /\ <<node.element>> \in Seq(Elements)
  BY <1>1, CallFacts, Singles
<1>3. CASE ElementOf(node) = <<>>
  BY <1>1, <1>2, <1>3, PlacedStep, Singles DEF ElementOf
<1>4. CASE ElementOf(node) # <<>>
  <2>1. got' = [got EXCEPT ![t] = [tag |-> <<node.element>>, html |-> <<>>]]
    <3>1. got[t] = [tag |-> <<>>, html |-> <<>>] /\ ElementOf(node) = <<node.element>>
      BY <1>1, <1>4 DEF Bare, ElementOf
    <3> QED
      BY <1>1, <1>4, <3>1
  <2>2. IInv'
    BY <1>1, <1>4, LimiterStep DEF DomInv, LimiterRests, vars
  <2>3. [tag |-> <<node.element>>, html |-> <<>>] \in Item
    BY <1>2, Singles DEF Item
  <2>4. /\ got' \in [Tasks -> Item] /\ got'[t] = [tag |-> <<node.element>>, html |-> <<>>]
        /\ \A u \in Tasks : u # t => got'[u] = got[u]
    BY <2>1, <2>3 DEF DomInv, DomTypes
  <2>5. DomTypes' /\ NothingFetched' /\ QueryTells'
    BY <1>1, <1>4, <2>4 DEF DomInv, DomTypes, NothingFetched, QueryTells
  <2>6. Fetching'
    <3>1. UNCHANGED <<query, state, bindings>>
      BY <1>1, <1>4 DEF LimiterRests
    <3>2. \A u \in DOMAIN query.nodes : Describes(u)'
      BY <1>1, <2>4, <3>1 DEF DomInv, Fetching, Describes
    <3> QED
      BY <3>1, <3>2 DEF DomInv, Fetching
  <2> QED
    BY <1>1, <1>4, <2>2, <2>5, <2>6 DEF DomInv
<1> QED
  BY <1>3, <1>4

LEMMA GetOuterHTMLStep == ASSUME DomInv, NEW t \in Tasks, GetOuterHTML(t) PROVE DomInv'
<1> DEFINE node == query.nodes[t]
           item == [tag |-> <<node.element>>, html |-> ElementOf(node)]
<1>1. /\ query.step = "fetch" /\ state[t] = "running" /\ got[t] # Bare /\ Finish(t)
      /\ UNCHANGED <<load, bindings, got>>
      /\ query' = [query EXCEPT !.results = Place(query.results, t, [got[t] EXCEPT !.html = ElementOf(node)])]
  BY DEF GetOuterHTML
<1>2. /\ t \in DOMAIN query.nodes /\ node.element \in Elements
      /\ got[t] = [tag |-> <<node.element>>, html |-> <<>>]
  BY <1>1, CallFacts
<1>3. [got[t] EXCEPT !.html = ElementOf(node)] = item
  BY <1>2
<1>4. /\ ElementOf(node) \in {<<>>, <<node.element>>}
      /\ node.bindings = bindings => ElementOf(node) = <<node.element>>
  BY DEF ElementOf
<1>5. item \in Item
  BY <1>2, <1>4, Singles DEF Item
<1>6. item.tag = <<node.element>> /\ item.html = ElementOf(node)
  OBVIOUS
<1> HIDE DEF item
<1> QED
  BY <1>1, <1>2, <1>3, <1>4, <1>5, <1>6, PlacedStep

LEMMA PageChangesStep == ASSUME DomInv, PageChanges PROVE DomInv'
<1>1. /\ query.step \in {"document", "select", "fetch"} /\ bindings' = bindings + 1
      /\ UNCHANGED <<query, got>> /\ LimiterRests
      /\ (load' = load + 1 /\ load < Len(Matches)) \/ UNCHANGED load
  BY DEF PageChanges
<1>2. IInv'
  BY <1>1, LimiterStep DEF DomInv, LimiterRests, vars
<1>3. DomTypes'
  <2>1. Len(Matches) \in Nat
    BY DomAssumption
  <2> QED
    BY <1>1, <2>1 DEF DomInv, DomTypes
<1>4. NothingFetched' /\ QueryTells'
  BY <1>1 DEF DomInv, NothingFetched, QueryTells, LimiterRests
<1>5. Fetching'
  <2> SUFFICES ASSUME query.step = "fetch" PROVE Fetching'
    BY <1>1 DEF Fetching
  <2>1. query.nodes \in Seq(Node) /\ \A t \in DOMAIN query.nodes : query.nodes[t].bindings \in Nat
    <3>1. query.nodes \in Seq(Node) /\ \A node \in Node : node.bindings \in Nat
      BY QueryFacts DEF DomInv, Node
    <3> QED
      BY <3>1
  <2>2. \A t \in DOMAIN query.nodes : query.nodes[t].bindings < bindings'
    BY <1>1, <2>1 DEF DomInv, DomTypes, Fetching
  <2>3. \A t \in DOMAIN query.nodes : Describes(t)'
    BY <1>1, <2>1, <2>2, <1>3 DEF DomInv, DomTypes, Fetching, Describes, LimiterRests
  <2> QED
    BY <1>1, <1>3, <2>1, <2>2, <2>3 DEF DomInv, DomTypes, Fetching, LimiterRests
<1> QED
  BY <1>1, <1>2, <1>3, <1>4, <1>5 DEF DomInv

LEMMA DomStep == DomInv /\ [DomNext]_<<vars, domVars>> => DomInv'
<1> SUFFICES ASSUME DomInv, [DomNext]_<<vars, domVars>> PROVE DomInv'
  OBVIOUS
<1>1. CASE UNCHANGED <<vars, domVars>>
  <2>1. UNCHANGED <<running, queue, state, load, bindings, query, got>>
    BY <1>1 DEF vars, domVars
  <2>2. IInv'
    BY <2>1, LimiterStep DEF DomInv, vars
  <2> QED
    BY <2>1, <2>2 DEF DomInv, DomTypes, NothingFetched, Fetching, Describes, QueryTells
<1>2. ASSUME NEW t \in Tasks, CallFails(t) PROVE DomInv'
  BY <1>2, DomEndsStep DEF CallFails
<1>3. CASE AllFetched
  BY <1>3, DomEndsStep DEF AllFetched
<1> QED
  BY <1>1, <1>2, <1>3, DomEnableStep, GetDocumentStep, QuerySelectorAllStep, WaitsStep, DescribeNodeStep,
     GetOuterHTMLStep, PageChangesStep
  DEF DomNext

\* Whatever the order of the calls' answers, whatever the page and the other
\* users of the connection do: what is printed at a position is of the node
\* selected for it.
THEOREM QueryTrue == DomSpec => []QueryTells
<1>1. DomInv => QueryTells
  BY DEF DomInv
<1> QED
  BY <1>1, DomStarts, DomStep, PTL DEF DomSpec

\* A command does with the limiter what any caller may: its behaviours are
\* behaviours of ConcurrencyLimiter.
THEOREM QueryUsesLimiter == DomSpec => Spec
<1>1. [DomNext]_<<vars, domVars>> => [Next]_vars
  BY DEF DomNext, DomEnable, GetDocument, QuerySelectorAll, AllFetched, PageChanges, CallRun, ResumeRun,
         DescribeNode, GetOuterHTML, CallFails, LimiterRests, vars, Next
<1> QED
  BY <1>1, PTL DEF DomSpec, Spec

(***************************************************************************)
(* bdg dom eval, fill, click and submit.                                   *)
(***************************************************************************)
\* A set of naturals that is not empty has a least element.
LEMMA LeastElement ==
    ASSUME NEW T \in SUBSET Nat, T # {}
    PROVE  \E x \in T : \A y \in T : x <= y
<1> DEFINE U == {0 .. n : n \in T}
<1>1. U \subseteq FiniteSubsetsOf(Nat) /\ U # {}
  <2>1. \A n \in T : 0 .. n \subseteq Nat /\ IsFiniteSet(0 .. n)
    BY FS_Interval
  <2> QED
    BY <2>1 DEF FiniteSubsetsOf
<1>2. PICK u \in U : \A v \in U : ~ (<<v, u>> \in StrictSubsetOrdering(Nat))
  BY <1>1, FS_StrictSubsetOrderingWellFounded, WFMin
<1>3. PICK x \in T : u = 0 .. x
  OBVIOUS
<1>4. ASSUME NEW y \in T, y < x PROVE FALSE
  <2>1. /\ 0 .. y \in SUBSET Nat /\ 0 .. x \in SUBSET Nat
        /\ 0 .. y \subseteq 0 .. x /\ x \notin 0 .. y /\ x \in 0 .. x
    BY <1>4
  <2>2. <<0 .. y, 0 .. x>> \in StrictSubsetOrdering(Nat)
    BY <2>1 DEF StrictSubsetOrdering
  <2> QED
    BY <1>2, <1>3, <2>2
<1> QED
  BY <1>4

Values == {"", "true", "false", "option"} \cup {ask.value : ask \in Forms}

Events == {"focus", "blur"} \cup Tells

FieldState ==
    [kind : {f.kind : f \in Fields}, visible : BOOLEAN, value : Values, seen : Seq(Events \X Values), clicks : Nat]

FormSteps == {"idle", "check", "connect", "index", "evaluate", "wait", "over"}

FormTypes ==
    /\ session \in [alive : BOOLEAN, metadata : BOOLEAN, target : BOOLEAN, defaultPort : BOOLEAN]
    /\ matched \in Seq(FieldState)
    /\ form \in [ask : Forms \cup {NoForm}, step : FormSteps, exit : Int, closed : BOOLEAN]
    /\ traffic \in [seen : Nat, unseen : Nat, made : Nat, odd : BOOLEAN, loaded : BOOLEAN]
    /\ waiting \in [enabled : BOOLEAN, active : Int, total : Nat, navigated : BOOLEAN, idle : BOOLEAN]

\* Nothing was filled or clicked; at most the focus has come or gone.
Quiet(f) == f.clicks = 0 /\ f.value = "" /\ \A e \in ToSet(f.seen) : e[1] \notin Tells

\* Nothing was done to the page.
Clean == \A i \in DOMAIN matched : Quiet(matched[i]) /\ matched[i].seen = <<>>

\* The first match is a file input, which was given the focus and refused.
FocusedOnly == matched # <<>> /\ matched[1].kind = "file" /\ \A i \in DOMAIN matched : Quiet(matched[i])

\* One element was clicked once: the first visible one, or the first.
Clicked ==
    \E k \in DOMAIN matched :
        /\ matched[k].clicks = 1
        /\ \A i \in DOMAIN matched : i # k => Quiet(matched[i])
        /\ \A i \in DOMAIN matched : matched[i].seen = <<>>
        /\ \A j \in DOMAIN matched : matched[j].visible => k <= j /\ matched[k].visible

\* What a filled element was told of its value came after the value was set.
ToldAfter(f) ==
    /\ f.clicks = 0
    /\ \E e \in ToSet(f.seen) : e[1] \in Tells
    /\ \A e \in ToSet(f.seen) : e[1] \in Tells => e[2] = f.value

\* The first match was filled.
Filled == matched # <<>> /\ ToldAfter(matched[1]) /\ \A i \in DOMAIN matched : i # 1 => Quiet(matched[i])

\* A command acts in the step that evaluates its script, and only there.
ActsInTurn ==
    /\ form.step \notin {"wait", "over"} => Clean
    /\ form.step = "wait" => Clicked /\ form.ask.name = "submit"
    /\ form.step = "over" =>
          \/ Clean /\ (form.exit = 0 => form.ask.name = "eval")
          \/ FocusedOnly /\ form.exit \in {81, 110}
          \/ (Clicked \/ Filled) /\ form.exit \in {0, 102, 104, 110}

\* The counter is that of the requests heard of, unless one was missed or redirected.
CountsHeard ==
    /\ form.step \notin {"wait", "over"} => traffic = NoTraffic /\ form.exit = -1
    /\ form.step = "wait" =>
          /\ form.exit = -1
          /\ ~waiting.enabled => traffic.seen = 0 /\ waiting.active = 0
          /\ ~traffic.odd => waiting.active = traffic.seen /\ traffic.unseen = 0

FormInv == FormTypes /\ ActsInTurn /\ CountsHeard /\ SubmitIsIdle

\* A sequence of one element or none, in terms of its positions.
LEMMA SetOf == ASSUME NEW S, NEW s \in Seq(S) PROVE ToSet(s) = {s[i] : i \in 1 .. Len(s)}
BY DEF ToSet

\* A page handler is told something: nothing else of the element changes.
LEMMA SawState ==
    ASSUME NEW f \in FieldState, NEW ev \in Seq(Events)
    PROVE  /\ Saw(f, ev) \in FieldState
           /\ Saw(f, ev).clicks = f.clicks /\ Saw(f, ev).value = f.value
           /\ Saw(f, ev).kind = f.kind /\ Saw(f, ev).visible = f.visible
           /\ ToSet(Saw(f, ev).seen) = ToSet(f.seen) \cup {<<ev[i], f.value>> : i \in DOMAIN ev}
<1> DEFINE told == [i \in DOMAIN ev |-> <<ev[i], f.value>>]
<1>1. f.seen \in Seq(Events \X Values) /\ f.value \in Values
  BY DEF FieldState
<1>2. told \in Seq(Events \X Values) /\ ToSet(told) = {<<ev[i], f.value>> : i \in DOMAIN ev}
  BY <1>1 DEF ToSet
<1>3. f.seen \o told \in Seq(Events \X Values) /\ ToSet(f.seen \o told) = ToSet(f.seen) \cup ToSet(told)
  <2> HIDE DEF told
  <2>1. /\ f.seen \o told \in Seq(Events \X Values) /\ Len(f.seen \o told) = Len(f.seen) + Len(told)
        /\ Len(f.seen) \in Nat /\ Len(told) \in Nat
        /\ \A i \in 1 .. Len(f.seen) : (f.seen \o told)[i] = f.seen[i]
        /\ \A i \in 1 .. Len(told) : (f.seen \o told)[Len(f.seen) + i] = told[i]
    BY <1>1, <1>2
  <2>2. \A i \in 1 .. Len(f.seen \o told) :
           i \in 1 .. Len(f.seen) \/ \E j \in 1 .. Len(told) : i = Len(f.seen) + j
    <3> TAKE i \in 1 .. Len(f.seen \o told)
    <3>1. CASE i <= Len(f.seen)
      BY <2>1, <3>1
    <3>2. CASE i > Len(f.seen)
      <4>1. i - Len(f.seen) \in 1 .. Len(told) /\ i = Len(f.seen) + (i - Len(f.seen))
        BY <2>1, <3>2
      <4> QED
        BY <4>1
    <3> QED
      BY <2>1, <3>1, <3>2
  <2>3. /\ ToSet(f.seen) = {f.seen[i] : i \in 1 .. Len(f.seen)} /\ ToSet(told) = {told[i] : i \in 1 .. Len(told)}
        /\ ToSet(f.seen \o told) = {(f.seen \o told)[i] : i \in 1 .. Len(f.seen \o told)}
    BY <1>1, <1>2, <2>1, SetOf
  <2>4. ASSUME NEW x \in ToSet(f.seen) \cup ToSet(told) PROVE x \in ToSet(f.seen \o told)
    <3>1. CASE x \in ToSet(f.seen)
      <4>1. PICK i \in 1 .. Len(f.seen) : x = f.seen[i]
        BY <2>3, <3>1
      <4>2. i \in 1 .. Len(f.seen \o told) /\ x = (f.seen \o told)[i]
        BY <2>1, <4>1
      <4> QED
        BY <2>3, <4>2
    <3>2. CASE x \in ToSet(told)
      <4>1. PICK i \in 1 .. Len(told) : x = told[i]
        BY <2>3, <3>2
      <4>2. Len(f.seen) + i \in 1 .. Len(f.seen \o told) /\ x = (f.seen \o told)[Len(f.seen) + i]
        BY <2>1, <4>1
      <4> QED
        BY <2>3, <4>2
    <3> QED
      BY <3>1, <3>2
  <2>5. ASSUME NEW x \in ToSet(f.seen \o told) PROVE x \in ToSet(f.seen) \cup ToSet(told)
    <3>1. PICK i \in 1 .. Len(f.seen \o told) : x = (f.seen \o told)[i]
      BY <2>3
    <3>2. CASE i \in 1 .. Len(f.seen)
      <4>1. x = f.seen[i]
        BY <2>1, <3>1, <3>2
      <4> QED
        BY <2>3, <3>2, <4>1
    <3>3. ASSUME NEW j \in 1 .. Len(told), i = Len(f.seen) + j PROVE x \in ToSet(told)
      <4>1. x = told[j]
        BY <2>1, <3>1, <3>3
      <4> QED
        BY <2>3, <4>1
    <3> QED
      BY <2>2, <3>2, <3>3
  <2> QED
    BY <2>1, <2>4, <2>5
<1>4. Saw(f, ev) = [f EXCEPT !.seen = f.seen \o told]
  BY DEF Saw
<1>5. /\ [f EXCEPT !.seen = f.seen \o told] \in FieldState
      /\ [f EXCEPT !.seen = f.seen \o told].seen = f.seen \o told
  <2> HIDE DEF told
  <2> QED
    BY <1>1, <1>3 DEF FieldState
<1>6. /\ Saw(f, ev) \in FieldState /\ Saw(f, ev).seen = f.seen \o told
      /\ Saw(f, ev).clicks = f.clicks /\ Saw(f, ev).value = f.value
      /\ Saw(f, ev).kind = f.kind /\ Saw(f, ev).visible = f.visible
  <2> HIDE DEF told
  <2> QED
    BY <1>4, <1>5 DEF FieldState
<1> QED
  BY <1>2, <1>3, <1>6

\* The focus: no handler is told of a value, none is changed.
LEMMA FocusIsQuiet ==
    ASSUME matched \in Seq(FieldState), Clean, NEW fields \in Focused
    PROVE  /\ fields \in Seq(FieldState) /\ DOMAIN fields = DOMAIN matched
           /\ \A i \in DOMAIN matched : Quiet(fields[i]) /\ fields[i].kind = matched[i].kind
<1>1. CASE fields = matched
  BY <1>1 DEF Clean
<1>2. CASE fields # matched
  <2>1. PICK left \in {0} \cup DOMAIN matched :
           fields = [i \in DOMAIN matched |-> CASE i = 1 -> Saw(matched[i], <<"focus">>)
                                                [] i # 1 /\ i = left -> Saw(matched[i], <<"blur">>)
                                                [] OTHER -> matched[i]]
    BY <1>2 DEF Focused
  <2>2. ASSUME NEW i \in DOMAIN matched, NEW e \in {"focus", "blur"}
        PROVE  /\ Saw(matched[i], <<e>>) \in FieldState /\ Quiet(Saw(matched[i], <<e>>))
               /\ Saw(matched[i], <<e>>).kind = matched[i].kind
    <3>1. matched[i] \in FieldState /\ Quiet(matched[i])
      BY DEF Clean
    <3>2. <<e>> \in Seq(Events) /\ DOMAIN <<e>> = {1} /\ <<e>>[1] = e
      BY DEF Events
    <3>3. /\ Saw(matched[i], <<e>>) \in FieldState
          /\ Saw(matched[i], <<e>>).clicks = 0 /\ Saw(matched[i], <<e>>).value = ""
          /\ Saw(matched[i], <<e>>).kind = matched[i].kind
          /\ ToSet(Saw(matched[i], <<e>>).seen) =
                 ToSet(matched[i].seen) \cup {<< <<e>>[j], matched[i].value>> : j \in DOMAIN <<e>>}
      BY <3>1, <3>2, SawState DEF Quiet
    <3>4. ASSUME NEW x \in ToSet(Saw(matched[i], <<e>>).seen) PROVE x[1] \notin Tells
      <4>1. CASE x \in ToSet(matched[i].seen)
        BY <3>1, <4>1 DEF Quiet
      <4>2. CASE x \in {<< <<e>>[j], matched[i].value>> : j \in DOMAIN <<e>>}
        <5>1. x[1] = e
          BY <3>2, <4>2
        <5> QED
          BY <5>1 DEF Tells
      <4> QED
        BY <3>3, <4>1, <4>2
    <3> QED
      BY <3>3, <3>4 DEF Quiet
  <2>3. \A i \in DOMAIN matched : fields[i] \in FieldState /\ Quiet(fields[i]) /\ fields[i].kind = matched[i].kind
    <3> TAKE i \in DOMAIN matched
    <3>1. fields[i] \in {matched[i], Saw(matched[i], <<"focus">>), Saw(matched[i], <<"blur">>)}
      BY <2>1
    <3>2. matched[i] \in FieldState /\ Quiet(matched[i])
      BY DEF Clean
    <3> QED
      BY <2>2, <3>1, <3>2
  <2>4. DOMAIN matched = 1 .. Len(matched) /\ Len(matched) \in Nat
    OBVIOUS
  <2>5. DOMAIN fields = DOMAIN matched /\ fields = [i \in DOMAIN matched |-> fields[i]]
    BY <2>1
  <2>6. fields \in [1 .. Len(matched) -> FieldState]
    BY <2>3, <2>4, <2>5
  <2>7. fields \in Seq(FieldState)
    BY <2>4, <2>6
  <2> QED
    BY <2>3, <2>5, <2>7
<1> QED
  BY <1>1, <1>2

\* What the fill script leaves behind: events, each with the value set before.
LEMMA FillTells ==
    ASSUME NEW f \in FieldState, Quiet(f), NEW v \in Values, NEW b \in BOOLEAN
    PROVE  FillField(f, v, b) \in FieldState /\ ToldAfter(FillField(f, v, b))
<1> DEFINE e0 == CASE f.kind = "editable" -> <<"input">>
                   [] f.kind \in {"select", "checkbox"} -> <<"change">>
                   [] OTHER -> <<"input", "change">>
<1> DEFINE e1 == IF b THEN <<"focusout">> ELSE <<>>
<1> DEFINE ev == e0 \o e1
<1> DEFINE h == Holds(f.kind, v)
<1> DEFINE g == [f EXCEPT !.value = h]
<1>1. e0 \in Seq(Tells) /\ Len(e0) >= 1
  <2>1. e0 \in {<<"input">>, <<"change">>, <<"input", "change">>}
    OBVIOUS
  <2>2. /\ <<"input">> \in Seq(Tells) /\ Len(<<"input">>) = 1
        /\ <<"change">> \in Seq(Tells) /\ Len(<<"change">>) = 1
        /\ <<"input", "change">> \in Seq(Tells) /\ Len(<<"input", "change">>) = 2
    BY DEF Tells
  <2> HIDE DEF e0
  <2>3. CASE e0 = <<"input">>
    BY <2>2, <2>3
  <2>4. CASE e0 = <<"change">>
    BY <2>2, <2>4
  <2>5. CASE e0 = <<"input", "change">>
    BY <2>2, <2>5
  <2> QED
    BY <2>1, <2>3, <2>4, <2>5
<1>2. e1 \in Seq(Tells)
  <2>1. e1 \in {<<"focusout">>, <<>>}
    OBVIOUS
  <2>2. <<"focusout">> \in Seq(Tells) /\ <<>> \in Seq(Tells)
    BY DEF Tells
  <2> HIDE DEF e1
  <2> QED
    BY <2>1, <2>2
<1>3. ev \in Seq(Tells) /\ ev \in Seq(Events) /\ 1 \in DOMAIN ev
  <2> HIDE DEF e0, e1
  <2>1. ev \in Seq(Tells) /\ Len(ev) >= 1
    BY <1>1, <1>2
  <2> HIDE DEF ev
  <2>2. ev \in Seq(Events)
    BY <2>1 DEF Events
  <2> QED
    BY <2>1, <2>2
<1>4. h \in Values
  BY DEF Holds, Values
<1>5. g \in FieldState /\ g.seen = f.seen /\ g.clicks = 0 /\ g.value = h
  <2> HIDE DEF h
  <2> QED
    BY <1>4 DEF FieldState, Quiet
<1>6. FillField(f, v, b) = Saw(g, ev)
  BY DEF FillField
<1> HIDE DEF e0, e1, ev, h, g
<1>7. /\ Saw(g, ev) \in FieldState /\ Saw(g, ev).clicks = 0 /\ Saw(g, ev).value = h
      /\ ToSet(Saw(g, ev).seen) = ToSet(f.seen) \cup {<<ev[i], h>> : i \in DOMAIN ev}
  BY <1>3, <1>5, SawState
<1>8. \E e \in ToSet(Saw(g, ev).seen) : e[1] \in Tells
  <2>1. <<ev[1], h>> \in ToSet(Saw(g, ev).seen) /\ ev[1] \in Tells
    BY <1>3, <1>7
  <2> QED
    BY <2>1
<1>9. ASSUME NEW e \in ToSet(Saw(g, ev).seen), e[1] \in Tells PROVE e[2] = h
  <2>1. e \notin ToSet(f.seen)
    BY <1>9 DEF Quiet
  <2>2. PICK i \in DOMAIN ev : e = <<ev[i], h>>
    BY <1>7, <2>1
  <2> QED
    BY <2>2
<1> QED
  BY <1>6, <1>7, <1>8, <1>9 DEF ToldAfter

\* The click script picks the first visible match, or the first.
LEMMA TargetIsFirst ==
    ASSUME matched \in Seq(FieldState), matched # <<>>
    PROVE  /\ Target \in DOMAIN matched
           /\ \A j \in DOMAIN matched : matched[j].visible => Target <= j /\ matched[Target].visible
<1> DEFINE visible == {i \in DOMAIN matched : matched[i].visible}
<1>1. CASE visible = {}
  BY <1>1 DEF Target
<1>2. CASE visible # {}
  <2>1. \E i \in visible : \A j \in visible : i <= j
    <3>1. visible \in SUBSET Nat
      OBVIOUS
    <3> HIDE DEF visible
    <3> QED
      BY <1>2, <3>1, LeastElement
  <2>2. Target = CHOOSE i \in visible : \A j \in visible : i <= j
    BY <1>2 DEF Target
  <2>3. Target \in visible /\ \A j \in visible : Target <= j
    <3> HIDE DEF visible
    <3> QED
      BY <2>1, <2>2
  <2> QED
    BY <2>3
<1> QED
  BY <1>1, <1>2

LEMMA FormStarts == FormInit => FormInv
<1> SUFFICES ASSUME FormInit PROVE FormInv
  OBVIOUS
<1>1. PICK found \in [alive : BOOLEAN, metadata : BOOLEAN, target : BOOLEAN, defaultPort : BOOLEAN],
           fields \in SeqOf(Fields, MaxMatched) : FormInitOn(found, fields)
  BY DEF FormInit
<1>2. fields \in Seq(Fields)
  BY FormAssumption DEF SeqOf
<1>3. matched \in Seq(FieldState) /\ Clean
  <2>1. \A f \in Fields : Untouched(f) \in FieldState /\ Quiet(Untouched(f)) /\ Untouched(f).seen = <<>>
    <3> TAKE f \in Fields
    <3>1. f.visible \in BOOLEAN
      BY FormAssumption
    <3>2. "" \in Values
      BY DEF Values
    <3>3. <<>> \in Seq(Events \X Values)
      OBVIOUS
    <3>4. f.kind \in {g.kind : g \in Fields}
      OBVIOUS
    <3>5. Untouched(f) \in FieldState
      BY <3>1, <3>2, <3>3, <3>4 DEF FieldState, Untouched
    <3>6. Untouched(f).clicks = 0 /\ Untouched(f).value = "" /\ Untouched(f).seen = <<>>
      BY DEF Untouched
    <3>7. ToSet(Untouched(f).seen) = {}
      <4>1. ToSet(<<>>) = {}
        BY DEF ToSet
      <4> QED
        BY <3>6, <4>1
    <3>8. Quiet(Untouched(f))
      BY <3>6, <3>7 DEF Quiet
    <3> QED
      BY <3>5, <3>6, <3>8
  <2>2. matched = [i \in DOMAIN fields |-> Untouched(fields[i])]
    BY <1>1 DEF FormInitOn
  <2> QED
    BY <1>2, <2>1, <2>2 DEF Clean
<1>4. form = FormIdle /\ traffic = NoTraffic /\ waiting = NoWait /\ session = found
  BY <1>1 DEF FormInitOn
<1>5. FormTypes
  BY <1>3, <1>4 DEF FormTypes, FormIdle, NoTraffic, NoWait, FormSteps
<1>6. ActsInTurn /\ CountsHeard /\ SubmitIsIdle
  BY <1>3, <1>4 DEF ActsInTurn, CountsHeard, SubmitIsIdle, FormIdle, NoTraffic, NoWait, NoForm
<1> QED
  BY <1>5, <1>6 DEF FormInv

\* The facts about the command that the steps need.
LEMMA FormFacts ==
    ASSUME FormTypes
    PROVE  /\ form.ask \in Forms \cup {NoForm} /\ form.step \in FormSteps /\ form.exit \in Int
           /\ form = [ask |-> form.ask, step |-> form.step, exit |-> form.exit, closed |-> form.closed]
           /\ form.ask.name \in {"eval", "fill", "click", "submit", "none"}
           /\ form.ask.value \in Values /\ form.ask.blur \in BOOLEAN
           /\ form.ask.waitNetwork \in BOOLEAN /\ form.ask.waitNavigation \in BOOLEAN
           /\ session.target \in BOOLEAN
<1>1. \A ask \in Forms \cup {NoForm} :
         /\ ask.name \in {"eval", "fill", "click", "submit", "none"} /\ ask.value \in Values /\ ask.blur \in BOOLEAN
         /\ ask.waitNetwork \in BOOLEAN /\ ask.waitNavigation \in BOOLEAN
  <2> TAKE ask \in Forms \cup {NoForm}
  <2>1. CASE ask \in Forms
    BY <2>1, FormAssumption DEF Values
  <2>2. CASE ask = NoForm
    BY <2>2 DEF NoForm, Values
  <2> QED
    BY <2>1, <2>2
<1>2. /\ form.ask \in Forms \cup {NoForm} /\ form.step \in FormSteps /\ form.exit \in Int
      /\ form = [ask |-> form.ask, step |-> form.step, exit |-> form.exit, closed |-> form.closed]
      /\ session.target \in BOOLEAN
  BY DEF FormTypes
<1> QED
  BY <1>1, <1>2

\* A step that ends the command or moves it on, with the page as it was.
LEMMA CleanStep ==
    ASSUME FormInv, UNCHANGED <<matched, traffic, waiting>>, form.step \notin {"wait", "over"},
           session' \in [alive : BOOLEAN, metadata : BOOLEAN, target : BOOLEAN, defaultPort : BOOLEAN],
           form' \in [ask : Forms \cup {NoForm}, step : FormSteps, exit : Int, closed : BOOLEAN],
           form'.step # "wait",
           form'.step # "over" => form'.exit = -1,
           form'.exit = 0 => form'.ask.name = "eval"
    PROVE  FormInv'
<1>1. FormTypes'
  BY DEF FormInv, FormTypes
<1>2. ActsInTurn'
  BY DEF FormInv, ActsInTurn, Clean
<1>3. CountsHeard' /\ SubmitIsIdle'
  BY DEF FormInv, CountsHeard, SubmitIsIdle
<1> QED
  BY <1>1, <1>2, <1>3 DEF FormInv

LEMMA BeginFormStep == ASSUME FormInv, NEW ask \in Forms, BeginForm(ask) PROVE FormInv'
<1>1. /\ form.step = "idle" /\ UNCHANGED <<session, matched, traffic, waiting>>
      /\ form' = [FormIdle EXCEPT !.ask = ask, !.step = "check"]
  BY DEF BeginForm
<1>2. form' = [ask |-> ask, step |-> "check", exit |-> -1, closed |-> TRUE]
  BY <1>1 DEF FormIdle
<1>3. form' \in [ask : Forms \cup {NoForm}, step : FormSteps, exit : Int, closed : BOOLEAN]
  BY <1>2 DEF FormSteps
<1>4. form'.step = "check" /\ form'.exit = -1
  BY <1>2
<1>5. session' \in [alive : BOOLEAN, metadata : BOOLEAN, target : BOOLEAN, defaultPort : BOOLEAN]
  BY <1>1 DEF FormInv, FormTypes
<1> QED
  BY <1>1, <1>3, <1>4, <1>5, CleanStep

\* A command that ends having done nothing, with any code but that of success.
LEMMA EndsClean ==
    ASSUME FormInv, form.step \notin {"wait", "over"}, NEW code \in Int, FormEnds(code),
           code = 0 => form.ask.name = "eval", UNCHANGED <<session, matched, traffic, waiting>>
    PROVE  FormInv'
<1>1. form' = [ask |-> form.ask, step |-> "over", exit |-> code, closed |-> TRUE]
  BY FormFacts DEF FormEnds, FormInv
<1> QED
  BY <1>1, FormFacts, CleanStep DEF FormInv, FormTypes, FormSteps

LEMMA CheckSessionStep == ASSUME FormInv, CheckSession PROVE FormInv'
<1>1. form.step = "check" /\ UNCHANGED <<session, matched, traffic, waiting>>
  BY DEF CheckSession
<1>2. \/ FormEnds(83) \/ FormEnds(103)
      \/ form' = [form EXCEPT !.step = "connect"]
  BY DEF CheckSession
<1>3. CASE FormEnds(83) \/ FormEnds(103)
  BY <1>1, <1>3, EndsClean
<1>4. CASE form' = [form EXCEPT !.step = "connect"]
  <2>1. form' = [ask |-> form.ask, step |-> "connect", exit |-> form.exit, closed |-> form.closed]
    BY <1>4, FormFacts DEF FormInv
  <2> QED
    BY <1>1, <2>1, FormFacts, CleanStep DEF FormInv, FormTypes, FormSteps, CountsHeard
<1> QED
  BY <1>2, <1>3, <1>4

LEMMA ConnectFormStep == ASSUME FormInv, ConnectForm PROVE FormInv'
<1>1. form.step = "connect" /\ UNCHANGED <<session, matched, traffic, waiting>>
  BY DEF ConnectForm
<1>2. \/ FormEnds(83) \/ FormEnds(104)
      \/ \E x \in {"index", "evaluate"} : form' = [form EXCEPT !.step = x, !.closed = FALSE]
  BY DEF ConnectForm
<1>3. CASE FormEnds(83) \/ FormEnds(104)
  BY <1>1, <1>3, EndsClean
<1>4. ASSUME NEW x \in {"index", "evaluate"}, form' = [form EXCEPT !.step = x, !.closed = FALSE]
      PROVE  FormInv'
  <2>1. form' = [ask |-> form.ask, step |-> x, exit |-> form.exit, closed |-> FALSE]
    BY <1>4, FormFacts DEF FormInv
  <2> QED
    BY <1>1, <2>1, FormFacts, CleanStep DEF FormInv, FormTypes, FormSteps, CountsHeard
<1> QED
  BY <1>2, <1>3, <1>4

LEMMA ScriptFailsStep ==
    ASSUME FormInv, GetElementByIndex \/ Eval \/ EvaluateFails \/ ClickBreaks
    PROVE  FormInv'
<1>1. form.step \in {"index", "evaluate"} /\ UNCHANGED <<session, matched, traffic, waiting>>
  BY DEF GetElementByIndex, Eval, EvaluateFails, ClickBreaks
<1>2. \/ FormEnds(110) \/ FormEnds(104) \/ FormEnds(101) \/ FormEnds(83)
      \/ form.ask.name = "eval" /\ FormEnds(0)
  BY DEF GetElementByIndex, Eval, EvaluateFails, ClickBreaks
<1> QED
  BY <1>1, <1>2, EndsClean

\* The script of a click ran: the command waits or ends, or its answer is lost.
LEMMA ClickStep ==
    ASSUME FormInv, form.step = "evaluate", form.ask.name \in {"click", "submit"}, matched # <<>>,
           matched' = [matched EXCEPT ![Target].clicks = @ + 1], UNCHANGED <<session, traffic>>,
           \/ (FormEnds(0) \/ FormEnds(110)) /\ UNCHANGED waiting
           \/ /\ form.ask.name = "submit"
              /\ form' = [form EXCEPT !.step = "wait"]
              /\ waiting' = [NoWait EXCEPT !.idle = TRUE]
    PROVE  FormInv'
<1>1. matched \in Seq(FieldState) /\ Clean
  BY DEF FormInv, FormTypes, ActsInTurn
<1>2. /\ Target \in DOMAIN matched
      /\ \A j \in DOMAIN matched : matched[j].visible => Target <= j /\ matched[Target].visible
  BY <1>1, TargetIsFirst
<1>3. /\ matched' \in Seq(FieldState) /\ DOMAIN matched' = DOMAIN matched
      /\ \A i \in DOMAIN matched : i # Target => matched'[i] = matched[i]
      /\ matched'[Target] = [matched[Target] EXCEPT !.clicks = @ + 1]
  <2> DEFINE r == [matched[Target] EXCEPT !.clicks = @ + 1]
  <2>1. r \in FieldState
    <3>1. \A f \in FieldState : [f EXCEPT !.clicks = f.clicks + 1] \in FieldState
      BY DEF FieldState
    <3>2. matched[Target] \in FieldState
      BY <1>1, <1>2
    <3> QED
      BY <3>1, <3>2
  <2>2. matched' = [matched EXCEPT ![Target] = r]
    OBVIOUS
  <2> HIDE DEF r
  <2>3. /\ matched' \in Seq(FieldState) /\ DOMAIN matched' = DOMAIN matched
        /\ \A i \in DOMAIN matched : i # Target => matched'[i] = matched[i]
        /\ matched'[Target] = r
    BY <1>1, <1>2, <2>1, <2>2
  <2> QED
    BY <2>3 DEF r
<1>4. /\ matched'[Target].clicks = 1 /\ matched'[Target].seen = <<>>
      /\ matched'[Target].visible = matched[Target].visible
  <2>1. matched[Target] \in FieldState /\ matched[Target].clicks = 0 /\ matched[Target].seen = <<>>
    <3>1. matched[Target] \in FieldState
      BY <1>1, <1>2
    <3>2. Quiet(matched[Target]) /\ matched[Target].seen = <<>>
      BY <1>1, <1>2 DEF Clean
    <3> QED
      BY <3>1, <3>2 DEF Quiet
  <2>2. \A f \in FieldState :
           /\ [f EXCEPT !.clicks = f.clicks + 1].clicks = f.clicks + 1
           /\ [f EXCEPT !.clicks = f.clicks + 1].seen = f.seen
           /\ [f EXCEPT !.clicks = f.clicks + 1].visible = f.visible
    BY DEF FieldState
  <2> QED
    BY <1>3, <2>1, <2>2
<1>5. Clicked'
  <2>1. \A i \in DOMAIN matched : i # Target => matched'[i] = matched[i] /\ Quiet(matched[i])
    BY <1>1, <1>3 DEF Clean
  <2>2. \A i \in DOMAIN matched : i # Target => Quiet(matched'[i])
    BY <2>1
  <2>3. \A i \in DOMAIN matched : matched'[i].seen = <<>> /\ matched'[i].visible = matched[i].visible
    BY <1>1, <1>3, <1>4 DEF Clean
  <2> QED
    BY <1>2, <1>3, <1>4, <2>2, <2>3 DEF Clicked
<1>6. CASE (FormEnds(0) \/ FormEnds(110)) /\ UNCHANGED waiting
  <2>1. PICK code \in {0, 110} : form' = [ask |-> form.ask, step |-> "over", exit |-> code, closed |-> TRUE]
    BY <1>6, FormFacts DEF FormEnds, FormInv
  <2>2. FormTypes'
    BY <1>3, <1>6, <2>1, FormFacts DEF FormInv, FormTypes, FormSteps
  <2>3. ActsInTurn'
    BY <1>5, <2>1 DEF ActsInTurn
  <2>4. CountsHeard' /\ SubmitIsIdle'
    BY <1>6, <2>1 DEF FormInv, CountsHeard, SubmitIsIdle, NoTraffic
  <2> QED
    BY <2>2, <2>3, <2>4 DEF FormInv
<1>7. CASE /\ form.ask.name = "submit"
           /\ form' = [form EXCEPT !.step = "wait"]
           /\ waiting' = [NoWait EXCEPT !.idle = TRUE]
  <2>1. form' = [ask |-> form.ask, step |-> "wait", exit |-> form.exit, closed |-> form.closed]
    BY <1>7, FormFacts DEF FormInv
  <2>2. waiting' = [enabled |-> FALSE, active |-> 0, total |-> 0, navigated |-> FALSE, idle |-> TRUE]
    BY <1>7 DEF NoWait
  <2>3. FormTypes'
    BY <1>3, <2>1, <2>2, FormFacts DEF FormInv, FormTypes, FormSteps
  <2>4. ActsInTurn'
    BY <1>5, <1>7, <2>1 DEF ActsInTurn
  <2>5. CountsHeard' /\ SubmitIsIdle'
    BY <2>1, <2>2 DEF FormInv, CountsHeard, SubmitIsIdle, NoTraffic
  <2> QED
    BY <2>3, <2>4, <2>5 DEF FormInv
<1> QED
  BY <1>6, <1>7

\* The script of a fill ran: it found nothing to fill, it gave a file input the
\* focus, or it filled the first match.
LEMMA FillStep ==
    ASSUME FormInv, form.step = "evaluate", form.ask.name = "fill", FillScript, NEW code \in {FillCode, 110},
           FormEnds(code), UNCHANGED <<session, traffic, waiting>>
    PROVE  FormInv'
<1>1. matched \in Seq(FieldState) /\ Clean
  BY DEF FormInv, FormTypes, ActsInTurn
<1>2. CASE matched = <<>> \/ matched[1].kind \notin Fillable
  <2>1. code \in {81, 83, 110} /\ UNCHANGED matched
    BY <1>2 DEF FillScript, FillCode
  <2> QED
    BY <2>1, EndsClean
<1>3. CASE matched # <<>> /\ matched[1].kind \in Fillable
  <2>1. PICK fields \in Focused :
           matched' = IF matched[1].kind = "file" THEN fields
                      ELSE [fields EXCEPT ![1] = FillField(fields[1], form.ask.value, form.ask.blur)]
    BY <1>3 DEF FillScript
  <2>2. /\ fields \in Seq(FieldState) /\ DOMAIN fields = DOMAIN matched /\ 1 \in DOMAIN matched
        /\ \A i \in DOMAIN matched : Quiet(fields[i]) /\ fields[i].kind = matched[i].kind
    BY <1>1, <1>3, FocusIsQuiet
  <2>3. /\ matched' \in Seq(FieldState)
        /\ \/ FocusedOnly' /\ code \in {81, 110}
           \/ Filled' /\ code \in {0, 110}
    <3>1. CASE matched[1].kind = "file"
      <4>1. matched' = fields /\ code \in {81, 110}
        BY <1>3, <2>1, <3>1 DEF FillCode
      <4> QED
        BY <1>3, <2>2, <3>1, <4>1 DEF FocusedOnly
    <3>2. CASE matched[1].kind # "file"
      <4> DEFINE r == FillField(fields[1], form.ask.value, form.ask.blur)
      <4>1. r \in FieldState /\ ToldAfter(r)
        BY <2>2, FillTells, FormFacts DEF FormInv
      <4>2. matched' = [fields EXCEPT ![1] = r] /\ code \in {0, 110}
        BY <1>3, <2>1, <3>2 DEF FillCode
      <4> HIDE DEF r
      <4>3. /\ matched' \in Seq(FieldState) /\ DOMAIN matched' = DOMAIN matched /\ matched'[1] = r
            /\ \A i \in DOMAIN matched : i # 1 => matched'[i] = fields[i]
        BY <2>2, <4>1, <4>2
      <4>4. Filled'
        BY <2>2, <4>1, <4>3 DEF Filled
      <4> QED
        BY <4>2, <4>3, <4>4
    <3> QED
      BY <3>1, <3>2
  <2>4. form' = [ask |-> form.ask, step |-> "over", exit |-> code, closed |-> TRUE] /\ code \in Int
    <3>1. code \in Int
      BY <2>3
    <3>2. form' = [form EXCEPT !.step = "over", !.exit = code, !.closed = TRUE]
      BY DEF FormEnds
    <3> QED
      BY <3>1, <3>2, FormFacts DEF FormInv
  <2>5. FormTypes'
    BY <2>3, <2>4, FormFacts DEF FormInv, FormTypes, FormSteps
  <2>6. ActsInTurn'
    BY <2>3, <2>4 DEF ActsInTurn
  <2>7. CountsHeard' /\ SubmitIsIdle'
    BY <2>4 DEF FormInv, CountsHeard, SubmitIsIdle, NoTraffic
  <2> QED
    BY <2>5, <2>6, <2>7 DEF FormInv
<1> QED
  BY <1>2, <1>3

\* What the wait does, for a command that waits: it listens, counts, ends.
LEMMA WaitStep ==
    ASSUME FormInv, form.step = "wait", UNCHANGED matched,
           session' \in [alive : BOOLEAN, metadata : BOOLEAN, target : BOOLEAN, defaultPort : BOOLEAN],
           waiting' \in [enabled : BOOLEAN, active : Int, total : Nat, navigated : BOOLEAN, idle : BOOLEAN],
           traffic' \in [seen : Nat, unseen : Nat, made : Nat, odd : BOOLEAN, loaded : BOOLEAN],
           ~waiting'.enabled => traffic'.seen = 0 /\ waiting'.active = 0,
           ~traffic'.odd => waiting'.active = traffic'.seen /\ traffic'.unseen = 0,
           \/ UNCHANGED form
           \/ FormEnds(102) \/ FormEnds(104)
           \/ FormEnds(0) /\ (form.ask.waitNetwork => waiting'.active = 0)
    PROVE  FormInv'
<1>1. CASE UNCHANGED form
  BY <1>1 DEF FormInv, FormTypes, ActsInTurn, Clicked, CountsHeard, SubmitIsIdle
<1>2. ASSUME NEW code \in {0, 102, 104}, FormEnds(code), code = 0 => (form.ask.waitNetwork => waiting'.active = 0)
      PROVE  FormInv'
  <2>1. form' = [ask |-> form.ask, step |-> "over", exit |-> code, closed |-> TRUE]
    BY <1>2, FormFacts DEF FormEnds, FormInv
  <2>2. FormTypes'
    BY <2>1, FormFacts DEF FormInv, FormTypes, FormSteps
  <2>3. ActsInTurn'
    BY <2>1 DEF FormInv, ActsInTurn, Clicked
  <2>4. CountsHeard' /\ SubmitIsIdle'
    BY <1>2, <2>1 DEF CountsHeard, SubmitIsIdle
  <2> QED
    BY <2>2, <2>3, <2>4 DEF FormInv
<1> QED
  BY <1>1, <1>2

\* What is known of a command that waits.
LEMMA WaitFacts ==
    ASSUME FormInv, form.step = "wait"
    PROVE  /\ session \in [alive : BOOLEAN, metadata : BOOLEAN, target : BOOLEAN, defaultPort : BOOLEAN]
           /\ waiting \in [enabled : BOOLEAN, active : Int, total : Nat, navigated : BOOLEAN, idle : BOOLEAN]
           /\ traffic \in [seen : Nat, unseen : Nat, made : Nat, odd : BOOLEAN, loaded : BOOLEAN]
           /\ ~waiting.enabled => traffic.seen = 0 /\ waiting.active = 0
           /\ ~traffic.odd => waiting.active = traffic.seen /\ traffic.unseen = 0
BY DEF FormInv, FormTypes, CountsHeard

LEMMA EnableNetworkStep == ASSUME FormInv, EnableNetwork PROVE FormInv'
<1>1. form.step = "wait" /\ UNCHANGED <<session, matched, traffic>> /\ ~waiting.enabled
  BY DEF EnableNetwork
<1>2. CASE waiting' = [waiting EXCEPT !.enabled = TRUE] /\ UNCHANGED form
  BY <1>1, <1>2, WaitFacts, WaitStep
<1>3. CASE FormEnds(104) /\ UNCHANGED waiting
  BY <1>1, <1>3, WaitFacts, WaitStep
<1> QED
  BY <1>2, <1>3 DEF EnableNetwork

\* A request counted by the command, heard of or not by the page's count.
LEMMA StartedCounts ==
    ASSUME FormInv, form.step = "wait", waiting' = RequestStarted
    PROVE  /\ waiting' \in [enabled : BOOLEAN, active : Int, total : Nat, navigated : BOOLEAN, idle : BOOLEAN]
           /\ waiting'.enabled = waiting.enabled /\ waiting'.active = waiting.active + 1
<1>1. waiting' = [enabled |-> waiting.enabled, active |-> waiting.active + 1, total |-> waiting.total + 1,
                  navigated |-> waiting.navigated, idle |-> FALSE]
  BY WaitFacts DEF RequestStarted
<1> QED
  BY <1>1, WaitFacts

LEMMA FinishedCounts ==
    ASSUME FormInv, form.step = "wait", waiting' = RequestFinished
    PROVE  /\ waiting' \in [enabled : BOOLEAN, active : Int, total : Nat, navigated : BOOLEAN, idle : BOOLEAN]
           /\ waiting'.enabled = waiting.enabled /\ waiting'.active = waiting.active - 1
<1>1. \E x \in BOOLEAN :
         waiting' = [enabled |-> waiting.enabled, active |-> waiting.active - 1, total |-> waiting.total,
                     navigated |-> waiting.navigated, idle |-> x]
  <2>1. (waiting.idle \/ (waiting.active = 1 /\ form.ask.waitNetwork)) \in BOOLEAN
    OBVIOUS
  <2> QED
    BY <2>1, WaitFacts DEF RequestFinished
<1> QED
  BY <1>1, WaitFacts

LEMMA RequestBeginsStep == ASSUME FormInv, RequestBegins PROVE FormInv'
<1>1. form.step = "wait" /\ UNCHANGED <<session, matched, form>>
  BY DEF RequestBegins
<1>2. CASE waiting.enabled
  <2>1. /\ traffic' = [seen |-> traffic.seen + 1, unseen |-> traffic.unseen, made |-> traffic.made + 1,
                       odd |-> traffic.odd, loaded |-> traffic.loaded]
        /\ waiting' = RequestStarted
    <3>1. /\ Heard /\ (traffic.odd \/ ~Heard) = traffic.odd
          /\ traffic.seen + (IF Heard THEN 1 ELSE 0) = traffic.seen + 1
          /\ traffic.unseen + (IF Heard THEN 0 ELSE 1) = traffic.unseen
      BY <1>1, <1>2, WaitFacts DEF Heard
    <3>2. /\ traffic' = [traffic EXCEPT !.made = traffic.made + 1, !.seen = traffic.seen + 1,
                                        !.unseen = traffic.unseen, !.odd = traffic.odd]
          /\ waiting' = RequestStarted
      BY <3>1 DEF RequestBegins
    <3> QED
      BY <1>1, <3>2, WaitFacts
  <2>2. /\ traffic' \in [seen : Nat, unseen : Nat, made : Nat, odd : BOOLEAN, loaded : BOOLEAN]
        /\ traffic'.seen = traffic.seen + 1 /\ traffic'.unseen = traffic.unseen /\ traffic'.odd = traffic.odd
    BY <1>1, <2>1, WaitFacts
  <2> QED
    BY <1>1, <1>2, <2>1, <2>2, StartedCounts, WaitFacts, WaitStep
<1>3. CASE ~waiting.enabled
  <2>1. /\ traffic' = [seen |-> traffic.seen, unseen |-> traffic.unseen + 1, made |-> traffic.made + 1,
                       odd |-> TRUE, loaded |-> traffic.loaded]
        /\ UNCHANGED waiting
    <3>1. /\ ~Heard /\ (traffic.odd \/ ~Heard) = TRUE
          /\ traffic.seen + (IF Heard THEN 1 ELSE 0) = traffic.seen
          /\ traffic.unseen + (IF Heard THEN 0 ELSE 1) = traffic.unseen + 1
      BY <1>1, <1>3, WaitFacts DEF Heard
    <3>2. /\ traffic' = [traffic EXCEPT !.made = traffic.made + 1, !.seen = traffic.seen,
                                        !.unseen = traffic.unseen + 1, !.odd = TRUE]
          /\ UNCHANGED waiting
      BY <3>1 DEF RequestBegins
    <3> QED
      BY <1>1, <3>2, WaitFacts
  <2>2. /\ traffic' \in [seen : Nat, unseen : Nat, made : Nat, odd : BOOLEAN, loaded : BOOLEAN]
        /\ traffic'.seen = traffic.seen /\ traffic'.odd
    BY <1>1, <2>1, WaitFacts
  <2> QED
    BY <1>1, <1>3, <2>1, <2>2, WaitFacts, WaitStep
<1> QED
  BY <1>2, <1>3

LEMMA RequestRedirectedStep == ASSUME FormInv, RequestRedirected PROVE FormInv'
<1>1. form.step = "wait" /\ UNCHANGED <<session, matched, form>> /\ waiting.enabled /\ waiting' = RequestStarted
  BY DEF RequestRedirected, Heard
<1>2. traffic' = [seen |-> traffic.seen, unseen |-> traffic.unseen, made |-> traffic.made + 1,
                  odd |-> TRUE, loaded |-> traffic.loaded]
  BY <1>1, WaitFacts DEF RequestRedirected
<1>3. traffic' \in [seen : Nat, unseen : Nat, made : Nat, odd : BOOLEAN, loaded : BOOLEAN] /\ traffic'.odd
  BY <1>1, <1>2, WaitFacts
<1> QED
  BY <1>1, <1>3, StartedCounts, WaitFacts, WaitStep

LEMMA RequestEndsStep == ASSUME FormInv, RequestEnds PROVE FormInv'
<1>1. form.step = "wait" /\ UNCHANGED <<session, matched, form>>
  BY DEF RequestEnds
<1>2. /\ waiting' \in [enabled : BOOLEAN, active : Int, total : Nat, navigated : BOOLEAN, idle : BOOLEAN]
      /\ waiting'.enabled = waiting.enabled
      /\ waiting.enabled => waiting'.active = waiting.active - 1
      /\ ~waiting.enabled => waiting'.active = waiting.active
  <2>1. CASE waiting.enabled
    BY <1>1, <2>1, FinishedCounts DEF RequestEnds, Heard
  <2>2. CASE ~waiting.enabled
    BY <1>1, <2>2, WaitFacts DEF RequestEnds, Heard
  <2> QED
    BY <2>1, <2>2
<1>3. CASE traffic.seen > 0 /\ traffic' = [traffic EXCEPT !.seen = traffic.seen - 1]
  <2>1. /\ traffic' \in [seen : Nat, unseen : Nat, made : Nat, odd : BOOLEAN, loaded : BOOLEAN]
        /\ traffic'.seen = traffic.seen - 1 /\ traffic'.unseen = traffic.unseen /\ traffic'.odd = traffic.odd
    BY <1>1, <1>3, WaitFacts
  <2> QED
    BY <1>1, <1>2, <1>3, <2>1, WaitFacts, WaitStep
<1>4. CASE traffic.unseen > 0 /\ traffic' = [traffic EXCEPT !.unseen = traffic.unseen - 1]
  <2>1. /\ traffic' \in [seen : Nat, unseen : Nat, made : Nat, odd : BOOLEAN, loaded : BOOLEAN]
        /\ traffic'.seen = traffic.seen /\ traffic'.odd = traffic.odd /\ traffic.odd
    BY <1>1, <1>4, WaitFacts
  <2> QED
    BY <1>1, <1>2, <2>1, WaitFacts, WaitStep
<1> QED
  BY <1>3, <1>4 DEF RequestEnds

LEMMA IdleExpiresStep == ASSUME FormInv, IdleExpires PROVE FormInv'
<1>1. form.step = "wait" /\ UNCHANGED <<session, matched, traffic>>
      /\ waiting' = [waiting EXCEPT !.idle = FALSE]
  BY DEF IdleExpires
<1>2. \/ UNCHANGED form
      \/ FormEnds(0) /\ (form.ask.waitNetwork => waiting'.active = 0)
  BY DEF IdleExpires, CheckCompletion
<1> QED
  BY <1>1, <1>2, WaitFacts, WaitStep

LEMMA PageNavigatesStep == ASSUME FormInv, PageNavigates PROVE FormInv'
<1>1. form.step = "wait" /\ UNCHANGED <<session, matched, form, waiting>>
      /\ traffic' = [traffic EXCEPT !.loaded = TRUE]
  BY DEF PageNavigates, EnabledDomains
<1> QED
  BY <1>1, WaitFacts, WaitStep

LEMMA WaitTimesOutStep == ASSUME FormInv, WaitTimesOut PROVE FormInv'
BY WaitFacts, WaitStep DEF WaitTimesOut

LEMMA TargetGoesStep == ASSUME FormInv, TargetGoes PROVE FormInv'
<1>1. form.step # "over" /\ UNCHANGED <<matched, form, traffic, waiting>>
      /\ session' = [session EXCEPT !.target = FALSE]
  BY DEF TargetGoes
<1>2. session' \in [alive : BOOLEAN, metadata : BOOLEAN, target : BOOLEAN, defaultPort : BOOLEAN]
  BY <1>1 DEF FormInv, FormTypes
<1> QED
  BY <1>1, <1>2 DEF FormInv, FormTypes, ActsInTurn, Clean, FocusedOnly, Clicked, Filled, CountsHeard, SubmitIsIdle

\* Every step of a form command keeps the invariant.
LEMMA FormStep == FormInv /\ [FormNext]_formVars => FormInv'
<1> SUFFICES ASSUME FormInv, [FormNext]_formVars PROVE FormInv'
  OBVIOUS
<1>1. CASE UNCHANGED formVars
  BY <1>1 DEF formVars, FormInv, FormTypes, ActsInTurn, Clean, FocusedOnly, Clicked, Filled, CountsHeard, SubmitIsIdle
<1>2. CASE Fill
  <2>1. form.step = "evaluate" /\ form.ask.name = "fill" /\ UNCHANGED <<session, traffic, waiting>>
    BY <1>2 DEF Fill
  <2>2. CASE FormEnds(110) /\ UNCHANGED matched
    BY <2>1, <2>2, EndsClean
  <2>3. CASE FillScript /\ FormEnds(FillCode)
    BY <2>1, <2>3, FillStep
  <2> QED
    BY <1>2, <2>2, <2>3 DEF Fill
<1>3. CASE Click
  <2>1. /\ form.step = "evaluate" /\ form.ask.name \in {"click", "submit"} /\ ClickScript
        /\ UNCHANGED <<session, traffic>>
    BY <1>3 DEF Click, Clicks
  <2>2. CASE matched = <<>>
    BY <1>3, <2>1, <2>2, EndsClean DEF Click, ClickScript
  <2>3. CASE matched # <<>>
    BY <1>3, <2>1, <2>3, ClickStep DEF Click, ClickScript
  <2> QED
    BY <2>2, <2>3
<1>4. CASE ScriptUnanswered
  <2>1. form.step = "evaluate" /\ FormEnds(110) /\ UNCHANGED <<session, traffic, waiting>>
    BY <1>4 DEF ScriptUnanswered
  <2>2. CASE form.ask.name \in {"click", "submit"} /\ ClickScript
    <3>1. CASE matched = <<>>
      BY <2>1, <2>2, <3>1, EndsClean DEF ClickScript
    <3>2. CASE matched # <<>>
      BY <2>1, <2>2, <3>2, ClickStep DEF ClickScript
    <3> QED
      BY <3>1, <3>2
  <2>3. CASE form.ask.name = "fill" /\ FillScript
    BY <2>1, <2>3, FillStep
  <2> QED
    BY <1>4, <2>2, <2>3 DEF ScriptUnanswered, Clicks
<1> QED
  BY <1>1, <1>2, <1>3, <1>4, BeginFormStep, CheckSessionStep, ConnectFormStep, ScriptFailsStep,
     EnableNetworkStep, RequestBeginsStep, RequestRedirectedStep, RequestEndsStep, IdleExpiresStep,
     PageNavigatesStep, WaitTimesOutStep, TargetGoesStep
  DEF FormNext

\* The invariant says more than the property asks.
LEMMA FormTells == FormInv => FormsDoWhatTheySay
<1> SUFFICES ASSUME FormInv, form.step = "over" PROVE ActsOnce
  BY DEF FormsDoWhatTheySay, FormInv, ActsOnce
<1>1. matched \in Seq(FieldState) /\ DOMAIN matched \subseteq Nat /\ \A i \in DOMAIN matched : matched[i].clicks \in Nat
  <2>1. \A f \in FieldState : f.clicks \in Nat
    BY DEF FieldState
  <2> QED
    BY <2>1 DEF FormInv, FormTypes
<1>2. \A i \in DOMAIN matched :
         /\ matched[i].seen = <<>> => ToSet(matched[i].seen) = {}
         /\ Quiet(matched[i]) => ~Acted(matched[i])
  <2> TAKE i \in DOMAIN matched
  <2>1. matched[i].seen = <<>> => ToSet(matched[i].seen) = {}
    BY DEF ToSet
  <2>2. ASSUME Quiet(matched[i]) PROVE ~Acted(matched[i])
    <3>1. matched[i].clicks = 0 /\ matched[i].value = "" /\ ~\E e \in ToSet(matched[i].seen) : e[1] \in Tells
      BY <2>2, Zenon DEF Quiet
    <3>2. \A n : n = 0 => ~(n > 0)
      OBVIOUS
    <3>3. ~(matched[i].clicks > 0)
      BY <3>1, <3>2, Zenon
    <3> QED
      BY <3>1, <3>3, Zenon DEF Acted
  <2> QED
    BY <2>1, <2>2
<1>3. ASSUME \A i \in DOMAIN matched : Quiet(matched[i]),
             form.exit = 0 => form.ask.name = "eval",
             ASSUME form.exit \in 80 .. 99 \cup {103}, NEW i \in DOMAIN matched, matched[i].seen # <<>>
             PROVE  form.exit = 81 /\ matched[1].kind = "file"
      PROVE  ActsOnce
  <2>1. \A i \in DOMAIN matched : ~Acted(matched[i]) /\ matched[i].clicks = 0
    BY <1>2, <1>3 DEF Quiet
  <2>2. \A i \in DOMAIN matched : \A e \in ToSet(matched[i].seen) : e[1] \notin Tells
    BY <1>3 DEF Quiet
  <2>3. \A i \in DOMAIN matched : ~(matched[i].clicks > 0)
    BY <2>1
  <2> QED
    BY <1>3, <2>1, <2>2, <2>3 DEF ActsOnce
<1>4. CASE Clicked /\ form.exit \in {0, 102, 104, 110}
  <2>1. PICK k \in DOMAIN matched :
          /\ matched[k].clicks = 1
          /\ \A i \in DOMAIN matched : i # k => Quiet(matched[i])
          /\ \A j \in DOMAIN matched : matched[j].visible => k <= j /\ matched[k].visible
    BY <1>4 DEF Clicked
  <2>2. Acted(matched[k]) /\ \A i \in DOMAIN matched : Acted(matched[i]) => i = k
    <3>1. Acted(matched[k])
      BY <2>1 DEF Acted
    <3>2. \A i \in DOMAIN matched : i # k => ~Acted(matched[i])
      BY <1>2, <2>1
    <3> QED
      BY <3>1, <3>2
  <2>3. \A i \in DOMAIN matched : ToSet(matched[i].seen) = {}
    BY <1>2, <1>4 DEF Clicked
  <2>4. \A i, j \in DOMAIN matched : matched[i].clicks > 0 /\ matched[j].visible => j >= i /\ matched[i].visible
    <3>1. ASSUME NEW i \in DOMAIN matched, matched[i].clicks > 0 PROVE i = k
      <4>1. Quiet(matched[i]) => matched[i].clicks = 0
        BY DEF Quiet
      <4> QED
        BY <2>1, <3>1, <4>1
    <3>2. \A j \in DOMAIN matched : matched[j].visible => j >= k /\ matched[k].visible
      BY <1>1, <2>1
    <3> QED
      BY <3>1, <3>2
  <2>5. \A i, j \in DOMAIN matched : Acted(matched[i]) /\ Acted(matched[j]) => i = j /\ matched[i].clicks <= 1
    BY <2>1, <2>2
  <2>6. form.exit \notin 80 .. 99 \cup {103}
    BY <1>4
  <2> QED
    BY <2>2, <2>3, <2>4, <2>5, <2>6 DEF ActsOnce
<1>5. CASE Filled /\ form.exit \in {0, 102, 104, 110}
  <2>1. 1 \in DOMAIN matched /\ ToldAfter(matched[1]) /\ \A i \in DOMAIN matched : i # 1 => Quiet(matched[i])
    BY <1>1, <1>5 DEF Filled
  <2>2. Acted(matched[1]) /\ \A i \in DOMAIN matched : Acted(matched[i]) => i = 1
    BY <1>2, <2>1 DEF Acted, ToldAfter
  <2>3. \A i \in DOMAIN matched : \A e \in ToSet(matched[i].seen) : e[1] \in Tells => i = 1 /\ e[2] = matched[i].value
    BY <2>1 DEF Quiet, ToldAfter
  <2>4. \A i \in DOMAIN matched : matched[i].clicks = 0
    BY <2>1 DEF Quiet, ToldAfter
  <2>5. \A i, j \in DOMAIN matched : Acted(matched[i]) /\ Acted(matched[j]) => i = j /\ matched[i].clicks <= 1
    BY <2>2, <2>4
  <2>6. form.exit \notin 80 .. 99 \cup {103}
    BY <1>5
  <2>7. \A i, j \in DOMAIN matched : matched[i].clicks > 0 /\ matched[j].visible => j >= i /\ matched[i].visible
    BY <2>4
  <2> QED
    BY <2>1, <2>2, <2>3, <2>5, <2>6, <2>7 DEF ActsOnce
<1>6. CASE Clean /\ (form.exit = 0 => form.ask.name = "eval")
  <2>1. \A i \in DOMAIN matched : Quiet(matched[i]) /\ matched[i].seen = <<>>
    BY <1>6 DEF Clean
  <2> QED
    BY <1>3, <1>6, <2>1
<1>7. CASE FocusedOnly /\ form.exit \in {81, 110}
  <2>1. matched[1].kind = "file" /\ \A i \in DOMAIN matched : Quiet(matched[i])
    BY <1>7 DEF FocusedOnly
  <2>2. form.exit # 0 /\ (form.exit \in 80 .. 99 \cup {103} => form.exit = 81)
    BY <1>7
  <2> QED
    BY <1>3, <2>1, <2>2
<1> QED
  BY <1>4, <1>5, <1>6, <1>7 DEF FormInv, ActsInTurn

\* For any page, any form and any traffic: a form command fills or clicks one
\* element, the one it names, and once, with every handler that is told of the
\* value told of the final one; or it fills and clicks nothing, as all codes that
\* blame the user or the session promise, and then has moved the focus at most, on
\* a file input it refuses.
THEOREM FormsTrue == FormSpec => []FormsDoWhatTheySay
BY FormStarts, FormStep, FormTells, PTL DEF FormSpec

(***************************************************************************)
(* The collectors and the viewing commands.                                *)
(***************************************************************************)
Logged == [message : Messages, page : Nat]

Entry == [n : Nat, type : {m.type : m \in Messages}, navigationId : Nat]

PollOutcomes == {"ok", "failed", "noSession", "unreachable", "silent"}

\* What a poll may be: none, under way, or answered.
PollStates ==
    [at : {"none", "asked"}, outcome : {""}, items : {<<>>}]
        \cup [at : {"answered"}, outcome : PollOutcomes, items : Seq(Entry)]

ViewTypes ==
    /\ page \in Nat /\ happened \in Seq(Logged) /\ console \in Seq(Entry)
    /\ viewer = [command |-> viewer.command, follow |-> viewer.follow, shown |-> viewer.shown,
                 failing |-> viewer.failing, exit |-> viewer.exit, listed |-> viewer.listed,
                 whole |-> viewer.whole]
    /\ viewer.command \in Viewings \cup {NoCommand}
    /\ polls \in [1 .. MaxPolls -> PollStates]

\* A list that was the whole store once: the store has only grown since.
BeginsConsole(items) ==
    items \in Seq(Entry) /\ Len(items) <= Len(console) /\ \A k \in 1 .. Len(items) : items[k] = console[k]

\* Only tail has several requests under way, and a command that is over none.
OneRequest ==
    /\ viewer.follow <=> viewer.command.name = "tail"
    /\ \A i \in 1 .. MaxPolls : polls[i].at # "none" => Running /\ (viewer.follow \/ i = 1)

\* What an answer has, when it comes back, of a store that may have grown.
AnswersHold ==
    \A i \in 1 .. MaxPolls : polls[i].at = "answered" /\ polls[i].outcome = "ok" =>
        /\ viewer.command.name # "details" /\ Len(console) <= Window => BeginsConsole(polls[i].items)
        /\ viewer.command.name = "details" /\ viewer.whole =>
               polls[i].items = <<viewer.listed[viewer.command.index + 1]>>

\* The list last printed, when it was whole, still begins the store.
ListHolds ==
    /\ viewer.whole => BeginsConsole(viewer.listed)
    /\ viewer.whole /\ viewer.command.name = "details" => viewer.command.index < Len(viewer.listed)

ViewInv ==
    /\ ViewTypes /\ host \in {"starting", "session", "idle", "down"} /\ navigation = page /\ ConsoleTells
    /\ OneRequest /\ AnswersHold /\ ListHolds /\ WholeIndexFinds

LEMMA ViewStarts == ViewInit => ViewInv
<1> SUFFICES ASSUME ViewInit PROVE ViewInv
  OBVIOUS
<1>1. /\ host = "starting" /\ page = 0 /\ navigation = 0 /\ happened = <<>> /\ console = <<>>
      /\ viewer = Idle /\ polls = [i \in 1 .. MaxPolls |-> NoPoll]
  BY DEF ViewInit
<1>2. viewer = [command |-> NoCommand, follow |-> FALSE, shown |-> <<>>, failing |-> FALSE, exit |-> -1,
                listed |-> <<>>, whole |-> FALSE]
  BY <1>1 DEF Idle
<1>3. /\ <<>> \in Seq(Logged) /\ <<>> \in Seq(Entry) /\ Len(<<>>) = 0
      /\ NoPoll \in PollStates /\ NoPoll.at = "none"
  BY DEF NoPoll, PollStates
<1>4. ViewTypes
  BY <1>1, <1>2, <1>3 DEF ViewTypes
<1>5. ConsoleTells
  BY <1>1, <1>3, ViewsAssumption DEF ConsoleTells
<1>6. OneRequest /\ AnswersHold /\ ListHolds /\ WholeIndexFinds
  <2>1. NoCommand.name = "none"
    BY DEF NoCommand
  <2>2. viewer.command = NoCommand /\ viewer.follow = FALSE /\ viewer.whole = FALSE
    BY <1>2
  <2>3. \A i \in 1 .. MaxPolls : polls[i].at = "none"
    BY <1>1, <1>3
  <2> QED
    BY <2>1, <2>2, <2>3 DEF OneRequest, AnswersHold, ListHolds, WholeIndexFinds, Found
<1> QED
  BY <1>1, <1>4, <1>5, <1>6 DEF ViewInv

\* A step of the worker that leaves the page, the store and the commands alone.
LEMMA ViewRests ==
    ASSUME ViewInv, UNCHANGED <<page, happened, navigation, console, viewer, polls>>,
           host' \in {"starting", "session", "idle", "down"}
    PROVE  ViewInv'
BY DEF ViewInv, ViewTypes, ConsoleTells, Kept, OneRequest, Running, AnswersHold, BeginsConsole, ListHolds,
       WholeIndexFinds, Found

LEMMA FrameNavigatedStep == ASSUME ViewInv, NEW main \in BOOLEAN, FrameNavigated(main) PROVE ViewInv'
<1>1. /\ UNCHANGED <<happened, console, host, viewer, polls>>
      /\ page' = IF main /\ Started("navigation") THEN page + 1 ELSE page
      /\ navigation' = IF Started("navigation") /\ main THEN navigation + 1 ELSE navigation
  BY DEF FrameNavigated, CountsFrame
<1>2. page' \in Nat /\ navigation' = page'
  BY <1>1 DEF ViewInv, ViewTypes
<1> QED
  BY <1>1, <1>2 DEF ViewInv, ViewTypes, ConsoleTells, Kept, OneRequest, Running, AnswersHold, BeginsConsole,
                    ListHolds, WholeIndexFinds, Found

\* What was the beginning of the store stays its beginning.
LEMMA StoreGrows ==
    ASSUME console \in Seq(Entry), NEW e \in Entry, console' = Append(console, e), NEW items, BeginsConsole(items)
    PROVE  BeginsConsole(items)'
BY DEF BeginsConsole

LEMMA MessageLoggedStep == ASSUME ViewInv, NEW m \in Messages, MessageLogged(m) PROVE ViewInv'
<1> DEFINE entry == [n |-> Len(happened) + 1, type |-> m.type, navigationId |-> navigation]
           logged == [message |-> m, page |-> page]
<1>1. /\ page \in Nat /\ navigation = page /\ happened \in Seq(Logged) /\ console \in Seq(Entry)
      /\ Len(happened) \in Nat /\ Len(console) \in Nat /\ DOMAIN happened = 1 .. Len(happened)
      /\ DOMAIN console = 1 .. Len(console)
  BY DEF ViewInv, ViewTypes
<1>2. entry \in Entry /\ logged \in Logged
  BY <1>1 DEF Entry, Logged
<1>3. UNCHANGED <<page, navigation, host, viewer, polls>>
  BY DEF MessageLogged
<1>4. CASE UNCHANGED <<happened, console>>
  BY <1>3, <1>4, ViewRests DEF ViewInv
<1>5. CASE /\ happened' = Append(happened, logged)
           /\ console' = IF ~m.excluded THEN PushWithLimit(console, entry) ELSE console
  <2>1. /\ happened' \in Seq(Logged) /\ DOMAIN happened' = 1 .. Len(happened) + 1
        /\ \A n \in 1 .. Len(happened) : happened'[n] = happened[n]
        /\ happened'[Len(happened) + 1] = logged
    BY <1>1, <1>2, <1>5
  <2>2. /\ \A n \in DOMAIN happened : happened'[n].message.excluded <=> ~Kept(n)
        /\ happened'[Len(happened) + 1].message.excluded <=> m.excluded
    BY <1>1, <2>1 DEF Kept
  <2>3. CASE console' = Append(console, entry) /\ ~m.excluded /\ Len(console) < MaxConsole
    <3>1. /\ console' \in Seq(Entry) /\ DOMAIN console' = 1 .. Len(console) + 1 /\ Len(console') = Len(console) + 1
          /\ \A i \in 1 .. Len(console) : console'[i] = console[i]
          /\ console'[Len(console) + 1] = entry
      BY <1>1, <1>2, <2>3
    <3>2. ConsoleTells'
      <4>1. Len(console') <= MaxConsole
        BY <1>1, <2>3, <3>1, ViewsAssumption
      <4>2. \A i \in DOMAIN console' :
               LET n == console'[i].n
               IN  /\ n \in DOMAIN happened' /\ ~happened'[n].message.excluded
                   /\ console'[i].type = happened'[n].message.type /\ console'[i].navigationId = happened'[n].page
                   /\ \A j \in 1 .. i - 1 : console'[j].n < n
        <5>1. ASSUME NEW i \in DOMAIN console
              PROVE  LET n == console'[i].n
                     IN  /\ n \in DOMAIN happened' /\ ~happened'[n].message.excluded
                         /\ console'[i].type = happened'[n].message.type
                         /\ console'[i].navigationId = happened'[n].page
                         /\ \A j \in 1 .. i - 1 : console'[j].n < n
          BY <1>1, <2>1, <2>2, <3>1 DEF ViewInv, ConsoleTells
        <5>2. /\ entry.n = Len(happened) + 1 /\ entry.type = m.type /\ entry.navigationId = page
              /\ logged.message.type = m.type /\ logged.page = page
          BY <1>1
        <5>3. \A j \in DOMAIN console : console[j].n \in 1 .. Len(happened)
          BY <1>1 DEF ViewInv, ConsoleTells
        <5> HIDE DEF entry, logged
        <5>4. LET i == Len(console) + 1
                  n == console'[i].n
              IN  /\ n \in DOMAIN happened' /\ ~happened'[n].message.excluded
                  /\ console'[i].type = happened'[n].message.type
                  /\ console'[i].navigationId = happened'[n].page
                  /\ \A j \in 1 .. i - 1 : console'[j].n < n
          <6>1. /\ console'[Len(console) + 1] = entry /\ happened'[Len(happened) + 1] = logged
                /\ Len(happened) + 1 \in DOMAIN happened'
            BY <1>1, <2>1, <3>1
          <6>2. ~happened'[Len(happened) + 1].message.excluded
            BY <2>2, <2>3
          <6>3. \A j \in 1 .. (Len(console) + 1) - 1 : console'[j] = console[j] /\ console[j].n < Len(happened) + 1
            BY <1>1, <3>1, <5>3
          <6> QED
            BY <5>2, <6>1, <6>2, <6>3
        <5> QED
          BY <1>1, <3>1, <5>1, <5>4
      <4>3. \A n \in DOMAIN happened' : happened'[n].message.excluded \/ \E i \in DOMAIN console' : console'[i].n = n
        <5>1. \A n \in DOMAIN happened : ~Kept(n) \/ \E i \in DOMAIN console : console[i].n = n
          <6>1. Len(console) # MaxConsole
            <7>1. MaxConsole \in Nat
              BY ViewsAssumption
            <7>2. Len(console) \in Nat /\ Len(console) < MaxConsole
              BY <1>1, <2>3
            <7> HIDE DEF entry, logged
            <7> QED
              BY <7>1, <7>2
          <6> QED
            BY <6>1 DEF ViewInv, ConsoleTells
        <5>2. console'[Len(console) + 1].n = Len(happened) + 1
          BY <3>1
        <5> HIDE DEF entry, logged
        <5> QED
          BY <1>1, <2>1, <2>2, <3>1, <5>1, <5>2, SMTT(40)
      <4> HIDE DEF entry, logged
      <4> QED
        BY <4>1, <4>2, <4>3 DEF ConsoleTells, Kept
    <3>3. AnswersHold'
      BY <1>1, <1>2, <1>3, <2>3, <3>1, StoreGrows, CliAssumption DEF ViewInv, AnswersHold
    <3>4. ListHolds' /\ OneRequest' /\ WholeIndexFinds'
      BY <1>1, <1>2, <1>3, <2>3, StoreGrows DEF ViewInv, ListHolds, OneRequest, Running, WholeIndexFinds, Found
    <3>5. ViewTypes'
      BY <1>3, <2>1, <3>1 DEF ViewInv, ViewTypes
    <3> QED
      BY <1>3, <3>2, <3>3, <3>4, <3>5 DEF ViewInv
  <2>4. CASE console' = console /\ (m.excluded \/ Len(console) = MaxConsole)
    <3>1. ConsoleTells'
      <4>1. \A i \in DOMAIN console : console[i].n \in 1 .. Len(happened)
        BY <1>1 DEF ViewInv, ConsoleTells
      <4>2. \A i \in DOMAIN console :
               LET n == console[i].n
               IN  /\ n \in DOMAIN happened' /\ ~happened'[n].message.excluded
                   /\ console[i].type = happened'[n].message.type /\ console[i].navigationId = happened'[n].page
                   /\ \A j \in 1 .. i - 1 : console[j].n < n
        BY <1>1, <2>1, <2>2 DEF ViewInv, ConsoleTells
      <4>3. \A n \in DOMAIN happened' :
               \/ happened'[n].message.excluded
               \/ \E i \in DOMAIN console : console[i].n = n
               \/ Len(console) = MaxConsole /\ \A i \in DOMAIN console : console[i].n < n
        <5>1. CASE m.excluded
          BY <1>1, <2>1, <2>2, <5>1 DEF ViewInv, ConsoleTells
        <5>2. CASE Len(console) = MaxConsole
          BY <1>1, <2>1, <2>2, <4>1, <5>2 DEF ViewInv, ConsoleTells
        <5> QED
          BY <2>4, <5>1, <5>2
      <4> HIDE DEF entry, logged
      <4> QED
        BY <2>4, <4>2, <4>3 DEF ViewInv, ConsoleTells, Kept
    <3> QED
      BY <1>3, <2>1, <2>4, <3>1 DEF ViewInv, ViewTypes, OneRequest, Running, AnswersHold, BeginsConsole,
                                    ListHolds, WholeIndexFinds, Found
  <2>5. Len(console) < MaxConsole \/ Len(console) = MaxConsole
    <3>1. Len(console) <= MaxConsole /\ MaxConsole \in Nat
      BY ViewsAssumption DEF ViewInv, ConsoleTells
    <3>2. Len(console) \in Nat
      BY <1>1
    <3> QED
      BY <3>1, <3>2
  <2> HIDE DEF entry, logged
  <2> QED
    BY <1>5, <2>3, <2>4, <2>5 DEF PushWithLimit
<1> QED
  BY <1>4, <1>5 DEF MessageLogged

\* What is known of the command and its requests.
LEMMA ViewFacts ==
    ASSUME ViewInv
    PROVE  /\ viewer = [command |-> viewer.command, follow |-> viewer.follow, shown |-> viewer.shown,
                        failing |-> viewer.failing, exit |-> viewer.exit, listed |-> viewer.listed,
                        whole |-> viewer.whole]
           /\ viewer.command \in Viewings \cup {NoCommand}
           /\ polls \in [1 .. MaxPolls -> PollStates] /\ console \in Seq(Entry)
           /\ host \in {"starting", "session", "idle", "down"}
           /\ ViewTypes /\ OneRequest /\ AnswersHold /\ ListHolds /\ WholeIndexFinds
BY DEF ViewInv, ViewTypes

\* The worker and the page rest: only the command or its requests move.
LEMMA StoreRests ==
    ASSUME ViewInv, UNCHANGED <<page, happened, navigation, console, host>>, ViewTypes', OneRequest', AnswersHold',
           ListHolds', WholeIndexFinds'
    PROVE  ViewInv'
BY DEF ViewInv, ConsoleTells, Kept

LEMMA RunsCommandStep == ASSUME ViewInv, NEW c \in Viewings, RunsCommand(c) PROVE ViewInv'
<1>1. /\ UNCHANGED <<page, happened, navigation, console, host>> /\ ~Running
      /\ c.name = "details" => c.index < Len(viewer.listed)
      /\ polls' = [polls EXCEPT ![1] = [NoPoll EXCEPT !.at = "asked"]]
  BY DEF RunsCommand, Ask
<1>2. viewer' = [command |-> c, follow |-> c.name = "tail", shown |-> <<>>, failing |-> FALSE, exit |-> -1,
                 listed |-> IF c.name = "details" THEN viewer.listed ELSE <<>>,
                 whole |-> IF c.name = "details" THEN viewer.whole ELSE FALSE]
  BY DEF RunsCommand, Idle
<1>3. /\ viewer'.command = c /\ (viewer'.follow <=> c.name = "tail") /\ viewer'.exit = -1
      /\ c.name = "details" => viewer'.listed = viewer.listed /\ viewer'.whole = viewer.whole
      /\ c.name # "details" => ~viewer'.whole
  BY <1>2
<1>4. c # NoCommand
  <2>1. NoCommand.name = "none" /\ c.name # "none"
    BY ViewsAssumption DEF NoCommand
  <2> QED
    BY <2>1
<1>5. [NoPoll EXCEPT !.at = "asked"] \in PollStates
  BY DEF NoPoll, PollStates
<1>6. /\ polls' \in [1 .. MaxPolls -> PollStates]
      /\ \A i \in 1 .. MaxPolls : (i # 1 => polls'[i].at = "none") /\ polls'[i].at # "answered"
  <2>1. [NoPoll EXCEPT !.at = "asked"].at = "asked"
    BY DEF NoPoll
  <2>2. \A i \in 1 .. MaxPolls : polls[i].at = "none"
    BY <1>1, ViewFacts DEF OneRequest
  <2> QED
    BY <1>1, <1>5, <2>1, <2>2, ViewFacts
<1>7. ViewTypes'
  BY <1>1, <1>2, <1>3, <1>6, ViewFacts DEF ViewTypes
<1>8. OneRequest'
  BY <1>3, <1>4, <1>6 DEF OneRequest, Running
<1>9. AnswersHold' /\ WholeIndexFinds'
  BY <1>3, <1>6 DEF AnswersHold, WholeIndexFinds, Found
<1>10. ListHolds'
  BY <1>1, <1>3, ViewFacts DEF ListHolds, BeginsConsole
<1> QED
  BY <1>1, <1>7, <1>8, <1>9, <1>10, StoreRests

LEMMA TickStep == ASSUME ViewInv, Tick PROVE ViewInv'
<1>1. /\ UNCHANGED <<page, happened, navigation, console, host, viewer>> /\ Running /\ viewer.follow
      /\ \E i \in 1 .. MaxPolls : polls' = [polls EXCEPT ![i] = [NoPoll EXCEPT !.at = "asked"]]
  BY DEF Tick, Ask
<1>2. [NoPoll EXCEPT !.at = "asked"] \in PollStates /\ [NoPoll EXCEPT !.at = "asked"].at = "asked"
  BY DEF NoPoll, PollStates
<1>3. /\ polls' \in [1 .. MaxPolls -> PollStates]
      /\ \A i \in 1 .. MaxPolls : polls'[i] = polls[i] \/ polls'[i].at = "asked"
  BY <1>1, <1>2, ViewFacts
<1>4. ViewTypes' /\ OneRequest' /\ ListHolds' /\ WholeIndexFinds'
  BY <1>1, <1>3, ViewFacts
     DEF ViewTypes, OneRequest, Running, ListHolds, BeginsConsole, WholeIndexFinds, Found
<1>5. AnswersHold'
  BY <1>1, <1>3, ViewFacts DEF AnswersHold, BeginsConsole
<1> QED
  BY <1>1, <1>4, <1>5, StoreRests

\* The window of a store no longer than it is the whole store.
LEMMA WindowIsWhole ==
    ASSUME console \in Seq(Entry)
    PROVE  /\ WorkerPeek(console, Window, 0).items \in Seq(Entry)
           /\ Len(console) <= Window => BeginsConsole(WorkerPeek(console, Window, 0).items)
<1>1. Smaller(Window, PeekMax) = Window /\ Window \in Nat /\ Len(console) \in Nat
  BY CliAssumption DEF Smaller
<1> DEFINE start == Larger(0, Len(console) - Window - 0)
           end == Larger(0, Len(console) - 0)
<1>2. start \in Nat /\ end = Len(console) /\ (Len(console) <= Window => start = 0)
  BY <1>1 DEF Larger
<1>3. WorkerPeek(console, Window, 0).items = SubSeq(console, start + 1, end)
  BY <1>1 DEF WorkerPeek
<1> HIDE DEF start, end
<1>4. SubSeq(console, start + 1, end) \in Seq(Entry)
  BY <1>1, <1>2
<1>5. Len(console) <= Window => SubSeq(console, start + 1, end) = console
  BY <1>1, <1>2
<1>6. BeginsConsole(console)
  BY DEF BeginsConsole
<1> QED
  BY <1>3, <1>4, <1>5, <1>6

\* A request is over: no other command's, and its answer holds.
LEMMA PollAnswered ==
    ASSUME ViewInv, NEW i \in 1 .. MaxPolls, polls[i].at = "asked",
           UNCHANGED <<page, happened, navigation, console, host, viewer>>,
           NEW o \in PollOutcomes, NEW items \in Seq(Entry),
           polls' = [polls EXCEPT ![i] = [at |-> "answered", outcome |-> o, items |-> items]],
           o = "ok" =>
               /\ viewer.command.name # "details" /\ Len(console) <= Window => BeginsConsole(items)
               /\ viewer.command.name = "details" /\ viewer.whole =>
                      items = <<viewer.listed[viewer.command.index + 1]>>
    PROVE  ViewInv'
<1> DEFINE poll == [at |-> "answered", outcome |-> o, items |-> items]
<1>1. poll \in PollStates /\ poll.at = "answered" /\ poll.outcome = o /\ poll.items = items
  BY DEF PollStates
<1> HIDE DEF poll
<1>2. /\ polls' \in [1 .. MaxPolls -> PollStates] /\ polls'[i] = poll
      /\ \A j \in 1 .. MaxPolls : j # i => polls'[j] = polls[j]
  BY <1>1, ViewFacts DEF poll
<1>3. ViewTypes' /\ ListHolds' /\ WholeIndexFinds'
  BY <1>2, ViewFacts DEF ViewTypes, ListHolds, BeginsConsole, WholeIndexFinds, Found
<1>4. OneRequest'
  BY <1>2, ViewFacts DEF OneRequest, Running
<1>5. AnswersHold'
  BY <1>1, <1>2, ViewFacts DEF AnswersHold, BeginsConsole
<1> QED
  BY <1>3, <1>4, <1>5, StoreRests

LEMMA AnswerStep == ASSUME ViewInv, NEW i \in 1 .. MaxPolls, Answer(i) PROVE ViewInv'
<1>1. /\ polls[i].at = "asked" /\ UNCHANGED <<page, happened, navigation, console, host, viewer>>
      /\ polls' = [polls EXCEPT ![i] = Answered(viewer.command)]
  BY DEF Answer
<1>2. console \in Seq(Entry) /\ <<>> \in Seq(Entry)
  BY ViewFacts
<1> DEFINE c == viewer.command
           found == WorkerDetails(console, c.index)
           window == WorkerPeek(console, Window, 0).items
<1>3. \/ \E o \in {"unreachable", "noSession", "failed"} : Answered(c) = [at |-> "answered", outcome |-> o, items |-> <<>>]
      \/ c.name = "details" /\ found # <<>> /\ Answered(c) = [at |-> "answered", outcome |-> "ok", items |-> found]
      \/ c.name # "details" /\ Answered(c) = [at |-> "answered", outcome |-> "ok", items |-> window]
  <2> HIDE DEF found, window, c
  <2>1. CASE host = "down"
    BY <2>1 DEF Answered
  <2>2. CASE host \in {"starting", "idle"}
    BY <2>2 DEF Answered
  <2>3. CASE host = "session" /\ c.name = "details"
    BY <2>3 DEF Answered, found
  <2>4. CASE ~(host \in {"down", "starting", "idle"} \/ (host = "session" /\ c.name = "details"))
    BY <2>4, ViewFacts DEF Answered, window
  <2> QED
    BY <2>1, <2>2, <2>3, <2>4
<1>4. CASE \E o \in {"unreachable", "noSession", "failed"} :
              Answered(c) = [at |-> "answered", outcome |-> o, items |-> <<>>]
  BY <1>1, <1>2, <1>4, PollAnswered DEF PollOutcomes
<1>5. CASE c.name = "details" /\ found # <<>> /\ Answered(c) = [at |-> "answered", outcome |-> "ok", items |-> found]
  <2>1. c.index \in 0 .. Len(console) - 1 /\ found = <<console[c.index + 1]>>
    BY <1>5 DEF WorkerDetails
  <2>2. found \in Seq(Entry)
    BY <1>2, <2>1
  <2>3. viewer.whole => console[c.index + 1] = viewer.listed[c.index + 1]
    BY <1>2, <1>5, <2>1, ViewFacts DEF ListHolds, BeginsConsole
  <2> HIDE DEF found, window
  <2> QED
    BY <1>1, <1>5, <2>1, <2>2, <2>3, PollAnswered DEF PollOutcomes
<1>6. CASE c.name # "details" /\ Answered(c) = [at |-> "answered", outcome |-> "ok", items |-> window]
  BY <1>1, <1>2, <1>6, WindowIsWhole, PollAnswered DEF PollOutcomes
<1> QED
  BY <1>3, <1>4, <1>5, <1>6

LEMMA FailsStep ==
    ASSUME ViewInv, NEW i \in 1 .. MaxPolls, NEW o \in {"failed", "silent"}, Fails(i, o)
    PROVE  ViewInv'
<1>1. <<>> \in Seq(Entry)
  OBVIOUS
<1> QED
  BY <1>1, PollAnswered DEF Fails, PollOutcomes

\* A command that does not follow ends when its answer has come; 0 is for an
\* answer that has what was asked.
LEMMA ExitMeans ==
    ASSUME NEW o \in PollOutcomes, NEW name \in {"peek", "console", "details"}
    PROVE  CommandExit(name, o) # -1 /\ (CommandExit(name, o) = EXIT.success => o = "ok")
BY DEF CommandExit, RunCommand, QueryResult, Thrown, Failure, Success, Errors, PeekErrorExit,
       HandleDaemonConnectionError, EXIT, PollOutcomes

LEMMA ReceiveStep == ASSUME ViewInv, NEW i \in 1 .. MaxPolls, Receive(i) PROVE ViewInv'
<1> DEFINE c == viewer.command
           o == polls[i].outcome
           items == polls[i].items
           printed == View(c, items)
           shown == IF o = "ok" THEN <<printed>> ELSE viewer.shown
           exit == IF viewer.follow THEN -1 ELSE CommandExit(c.name, o)
           listed == IF c.name = "console" THEN (IF o = "ok" THEN printed ELSE <<>>) ELSE viewer.listed
           whole == IF c.name = "console" /\ o = "ok"
                    THEN c.filter = "" /\ c.last = 0 /\ Len(console) <= Window ELSE viewer.whole
<1>1. /\ UNCHANGED <<page, happened, navigation, console, host>> /\ Running /\ polls[i].at = "answered"
      /\ polls' = [polls EXCEPT ![i] = NoPoll]
  BY DEF Receive
<1>2. viewer' = [command |-> c, follow |-> viewer.follow, shown |-> shown, failing |-> o # "ok", exit |-> exit,
                 listed |-> listed, whole |-> whole]
  <2>1. viewer' = [viewer EXCEPT !.shown = shown, !.failing = (o # "ok"), !.exit = exit, !.listed = listed,
                                 !.whole = whole]
    BY DEF Receive
  <2> HIDE DEF shown, exit, listed, whole
  <2> QED
    BY <2>1, ViewFacts
<1>3. /\ viewer'.command = c /\ viewer'.follow = viewer.follow /\ viewer'.shown = shown /\ viewer'.exit = exit
      /\ viewer'.listed = listed /\ viewer'.whole = whole
  <2> HIDE DEF c, shown, exit, listed, whole
  <2> QED
    BY <1>2
<1>4. /\ NoPoll \in PollStates /\ NoPoll.at = "none"
      /\ polls' \in [1 .. MaxPolls -> PollStates] /\ polls'[i] = NoPoll
      /\ \A j \in 1 .. MaxPolls : j # i => polls'[j] = polls[j]
  <2>1. NoPoll \in PollStates /\ NoPoll.at = "none"
    BY DEF NoPoll, PollStates
  <2> QED
    BY <1>1, <2>1, ViewFacts
<1>5. o \in PollOutcomes /\ items \in Seq(Entry)
  <2>1. polls[i] \in PollStates
    BY ViewFacts
  <2> QED
    BY <1>1, <2>1 DEF PollStates
<1>6. c \in Viewings /\ c.name \in {"peek", "tail", "console", "details"} /\ (viewer.follow <=> c.name = "tail")
  BY <1>1, ViewFacts, ViewsAssumption DEF Running, OneRequest
<1>7. ViewTypes'
  <2> HIDE DEF shown, exit, listed, whole
  <2> QED
    BY <1>1, <1>2, <1>3, <1>4, ViewFacts DEF ViewTypes
<1>8. OneRequest'
  <2>1. viewer.follow => Running'
    BY <1>1, <1>3 DEF Running
  <2>2. \A j \in 1 .. MaxPolls : polls'[j].at # "none" => viewer.follow
    BY <1>1, <1>4, ViewFacts DEF OneRequest
  <2> HIDE DEF shown, exit, listed, whole
  <2> QED
    BY <1>3, <1>6, <2>1, <2>2 DEF OneRequest
<1>9. AnswersHold'
  <2>1. \A j \in 1 .. MaxPolls : polls'[j].at # "none" => viewer.follow /\ j # i
    BY <1>1, <1>4, ViewFacts DEF OneRequest
  <2> HIDE DEF shown, exit, listed, whole
  <2> QED
    BY <1>1, <1>3, <1>4, <1>6, <2>1, ViewFacts DEF AnswersHold, BeginsConsole
<1>10. ListHolds'
  <2>1. CASE c.name = "console"
    <3>1. ASSUME whole, o = "ok" PROVE BeginsConsole(printed)
      <4>1. c.filter = "" /\ ~(c.last > 0) /\ Len(console) <= Window
        <5>1. c.filter = "" /\ c.last = 0 /\ Len(console) <= Window
          BY <2>1, <3>1, Zenon
        <5>2. ~(0 > 0)
          OBVIOUS
        <5> QED
          BY <5>1, <5>2, Zenon
      <4>2. printed = items
        <5>1. printed = ConsoleLogs(items, c.filter, c.last)
          BY <2>1 DEF View
        <5> HIDE DEF c, items, printed
        <5>2. ConsoleLogs(items, c.filter, c.last) = items
          BY <4>1, Zenon DEF ConsoleLogs
        <5> QED
          BY <5>1, <5>2
      <4>3. BeginsConsole(items)
        BY <1>1, <2>1, <3>1, <4>1, ViewFacts DEF AnswersHold
      <4> HIDE DEF printed, items
      <4> QED
        BY <4>2, <4>3
    <3>2. whole /\ o = "ok" => BeginsConsole(listed)
      <4> HIDE DEF printed, whole
      <4> QED
        BY <2>1, <3>1
    <3>3. BeginsConsole(<<>>)
      BY ViewFacts DEF BeginsConsole
    <3>4. whole => BeginsConsole(listed)
      <4>1. CASE o = "ok"
        BY <3>2, <4>1
      <4>2. CASE o # "ok"
        <5>1. listed = <<>>
          BY <2>1, <4>2
        <5> HIDE DEF listed
        <5> QED
          BY <3>3, <5>1
      <4> QED
        BY <4>1, <4>2
    <3> HIDE DEF shown, exit, listed, whole
    <3> QED
      BY <1>1, <1>3, <2>1, <3>4 DEF ListHolds, BeginsConsole
  <2>2. CASE c.name # "console"
    <3>1. listed = viewer.listed /\ whole = viewer.whole
      BY <2>2
    <3> HIDE DEF shown, exit, listed, whole
    <3> QED
      BY <1>1, <1>3, <2>2, <3>1, ViewFacts DEF ListHolds, BeginsConsole
  <2> QED
    BY <2>1, <2>2
<1>11. WholeIndexFinds'
  <2> SUFFICES ASSUME c.name = "details", whole, exit = EXIT.success
               PROVE  shown = <<<<listed[c.index + 1]>>>>
    <3> HIDE DEF shown, exit, listed, whole
    <3> QED
      BY <1>3 DEF WholeIndexFinds, Found
  <2>1. o = "ok" /\ listed = viewer.listed /\ viewer.whole
    BY <1>5, <1>6, ExitMeans
  <2>2. items = <<viewer.listed[c.index + 1]>>
    BY <1>1, <2>1, ViewFacts DEF AnswersHold
  <2>3. shown = <<items>>
    BY <2>1 DEF View
  <2> HIDE DEF shown, exit, listed, whole, items
  <2> QED
    BY <2>1, <2>2, <2>3
<1> QED
  BY <1>1, <1>7, <1>8, <1>9, <1>10, <1>11, StoreRests

LEMMA InterruptStep == ASSUME ViewInv, Interrupt PROVE ViewInv'
<1>1. /\ UNCHANGED <<page, happened, navigation, console, host>> /\ viewer.follow
      /\ viewer' = [viewer EXCEPT !.exit = EXIT.success] /\ polls' = [i \in 1 .. MaxPolls |-> NoPoll]
  BY DEF Interrupt
<1>2. viewer' = [command |-> viewer.command, follow |-> viewer.follow, shown |-> viewer.shown,
                 failing |-> viewer.failing, exit |-> EXIT.success, listed |-> viewer.listed,
                 whole |-> viewer.whole]
  BY <1>1, ViewFacts
<1>3. viewer.command.name = "tail"
  BY <1>1, ViewFacts DEF OneRequest
<1>4. NoPoll \in PollStates /\ NoPoll.at = "none"
  BY DEF NoPoll, PollStates
<1>5. ViewTypes'
  BY <1>1, <1>2, <1>4, ViewFacts DEF ViewTypes
<1>6. OneRequest' /\ AnswersHold'
  BY <1>1, <1>2, <1>4, ViewFacts DEF OneRequest, AnswersHold
<1>7. ListHolds' /\ WholeIndexFinds'
  BY <1>1, <1>2, <1>3, ViewFacts DEF ListHolds, BeginsConsole, WholeIndexFinds, Found
<1> QED
  BY <1>1, <1>5, <1>6, <1>7, StoreRests

LEMMA ViewStep == ViewInv /\ [ViewNext]_viewVars => ViewInv'
<1> SUFFICES ASSUME ViewInv, [ViewNext]_viewVars PROVE ViewInv'
  OBVIOUS
<1>1. CASE UNCHANGED viewVars
  BY <1>1, ViewRests DEF viewVars, ViewInv
<1>2. CASE StartPlugin \/ WorkerReady \/ SessionEnds \/ DaemonDies
  BY <1>2, ViewRests DEF StartPlugin, WorkerReady, SessionEnds, DaemonDies, ViewInv
<1> QED
  BY <1>1, <1>2, FrameNavigatedStep, MessageLoggedStep, RunsCommandStep, TickStep, AnswerStep, FailsStep,
     ReceiveStep, InterruptStep
  DEF ViewNext

\* The console collector, the navigation counter, the filter and the limit, in
\* any order of page loads and messages, for any set of collectors.
THEOREM ConsoleTrue == ViewSpec => []ConsoleTells
<1>1. ViewInv => ConsoleTells
  BY DEF ViewInv
<1> QED
  BY <1>1, ViewStarts, ViewStep, PTL DEF ViewSpec

\* The index a user reads from a whole list leads to that message, however much
\* is logged between the two commands.
THEOREM IndexFinds == ViewSpec => []WholeIndexFinds
<1>1. ViewInv => WholeIndexFinds
  BY DEF ViewInv
<1> QED
  BY <1>1, ViewStarts, ViewStep, PTL DEF ViewSpec

\* Both, as the run checks them.
THEOREM ConsoleShown == ViewSpec => []ConsoleIsTrue
  BY ConsoleTrue, IndexFinds, PTL DEF ConsoleIsTrue

(***************************************************************************)
(* Exit codes and filters.                                                 *)
(***************************************************************************)
\* The exit code tells the cause, for every command and every outcome.
THEOREM ExitTells ==
    \A command \in CommandNames, o \in Outcomes : ExitTellsCauseFor(command, o)
BY DEF CommandNames, ExitTellsCauseFor, Outcomes, CommandExit, RunCommand, QueryResult, StopResult, StatusResult, StartExit,
       GetExitCodeForDaemonError, PeekErrorExit, HandleDaemonConnectionError, Success, Failure, Thrown, Errors, EXIT

\* What is fetched, as conditions on the options.
LEMMA FetchedIff ==
    ASSUME NEW url, NEW mime, NEW size \in Int, NEW o, o.max \in Int
    PROVE  ShouldFetchBodyWithReason(url, mime, size, o) = "fetch" <=>
               mime \in TextMimeTypes /\ size <= o.max /\ ShouldFetchBody(url, mime, o)
BY DEF ShouldFetchBodyWithReason

LEMMA MatchesNone == ASSUME NEW url PROVE ~MatchesAnyPattern(url, {})
BY DEF MatchesAnyPattern

\* Whatever a pattern matches, the rules for bodies and requests are monotone
\* in the options, and an include pattern that matches decides alone.
THEOREM OptionsAreMonotone ==
    ASSUME NEW P, NEW url, NEW mime, NEW size \in Int,
           NEW o \in [fetchAll : BOOLEAN, include : SUBSET P, exclude : SUBSET P, max : Int]
    PROVE  FiltersAreMonotoneFor(url, mime, size, o)
<1> DEFINE fetched(x) == ShouldFetchBodyWithReason(url, mime, size, x) = "fetch"
           kept(include, exclude) == ~ShouldFilterRequest(url, TRUE, include, exclude)
           m(patterns) == MatchesAnyPattern(url, patterns)
           ready(x) == mime \in TextMimeTypes /\ size <= x.max
<1>1. \A include, exclude : kept(include, exclude) <=> IF include # {} THEN m(include) ELSE ~m(exclude)
  BY DEF ShouldFilterRequest, ShouldExcludeDomain, ShouldExcludeUrl, EvaluatePatternMatch
<1>2. ASSUME NEW x, x.max \in Int
      PROVE  fetched(x) <=>
                 /\ ready(x)
                 /\ IF x.include # {} THEN m(x.include)
                    ELSE /\ x.exclude # {} => ~m(x.exclude)
                         /\ x.fetchAll \/ (mime \notin SkipBodyMimeTypes /\ (SkipBodyPatterns # {} => ~m(SkipBodyPatterns)))
  BY <1>2, FetchedIff DEF ShouldFetchBody, EvaluatePatternMatch
<1>3. ~m({})
  BY MatchesNone
<1>4. ASSUME NEW x, x.max \in Int, x.include = o.include
      PROVE  fetched(x) <=>
                 /\ ready(x)
                 /\ IF o.include # {} THEN m(o.include)
                    ELSE /\ ~m(x.exclude)
                         /\ x.fetchAll \/ (mime \notin SkipBodyMimeTypes /\ ~m(SkipBodyPatterns))
  <2> HIDE DEF fetched, m, ready
  <2> QED
    BY <1>2, <1>3, <1>4
<1>5. /\ o.max \in Int /\ o.fetchAll \in BOOLEAN
      /\ [o EXCEPT !.exclude = {}].max = o.max /\ [o EXCEPT !.exclude = {}].include = o.include
      /\ [o EXCEPT !.exclude = {}].exclude = {} /\ [o EXCEPT !.exclude = {}].fetchAll = o.fetchAll
      /\ [o EXCEPT !.fetchAll = TRUE].max = o.max /\ [o EXCEPT !.fetchAll = TRUE].include = o.include
      /\ [o EXCEPT !.fetchAll = TRUE].exclude = o.exclude /\ [o EXCEPT !.fetchAll = TRUE].fetchAll = TRUE
      /\ [o EXCEPT !.max = o.max + 1].max = o.max + 1 /\ [o EXCEPT !.max = o.max + 1].include = o.include
      /\ [o EXCEPT !.max = o.max + 1].exclude = o.exclude /\ [o EXCEPT !.max = o.max + 1].fetchAll = o.fetchAll
  OBVIOUS
<1>6. /\ o.include # {} =>
             /\ kept(o.include, o.exclude) <=> m(o.include)
             /\ fetched(o) <=> m(o.include) /\ ready(o)
      /\ kept(o.include, o.exclude) => kept(o.include, {})
  <2> HIDE DEF fetched, kept, m, ready
  <2> QED
    BY <1>1, <1>3, <1>4, <1>5
<1>7. /\ fetched(o) => fetched([o EXCEPT !.exclude = {}]) /\ fetched([o EXCEPT !.fetchAll = TRUE]) /\ ready(o)
      /\ o.fetchAll /\ ready(o) /\ o.include = {} => (fetched(o) <=> ~m(o.exclude))
  <2>1. ready([o EXCEPT !.exclude = {}]) <=> ready(o)
    BY <1>5
  <2>2. ready([o EXCEPT !.fetchAll = TRUE]) <=> ready(o)
    BY <1>5
  <2> HIDE DEF fetched, m, ready
  <2> QED
    BY <1>3, <1>4, <1>5, <2>1, <2>2
<1>8. fetched(o) => fetched([o EXCEPT !.max = o.max + 1])
  <2>1. ready(o) => ready([o EXCEPT !.max = o.max + 1])
    BY <1>5
  <2>2. [o EXCEPT !.max = o.max + 1].max \in Int
    BY <1>5
  <2> HIDE DEF fetched, m, ready
  <2> QED
    BY <1>4, <1>5, <2>1, <2>2
<1>9. ShouldFilterRequest(url, FALSE, o.include, o.exclude) <=>
          ShouldExcludeDomain(url, FALSE) \/ ~kept(o.include, o.exclude)
  BY DEF ShouldFilterRequest, ShouldExcludeDomain
<1> QED
  BY <1>6, <1>7, <1>8, <1>9, Zenon DEF FiltersAreMonotoneFor

(***************************************************************************)
(* Typed URLs.                                                             *)
(***************************************************************************)
\* The tokens a URL is typed in.
Tokens == DOMAIN LowerOf

\* The least of some positions is one of them.
LEMMA FirstOne ==
    ASSUME NEW n \in Nat, NEW I \in SUBSET (1 .. n), I # {}
    PROVE  Min(I) \in 1 .. n
<1>1. I \in SUBSET Nat
  OBVIOUS
<1>2. PICK x \in I : \A y \in I : x <= y
  BY <1>1, LeastElement
<1>3. Min(I) \in I
  BY <1>2 DEF Min
<1> QED
  BY <1>3

\* What agrees with all of s begins with s.
LEMMA BeginsWith ==
    ASSUME NEW S, NEW s \in Seq(S), NEW t \in Seq(S), Len(s) <= Len(t),
           \A i \in 1 .. Len(s) : s[i] = t[i]
    PROVE  StartsWith(t, s)
<1>1. \A r \in Seq(S) : Len(s) <= Len(r) =>
          /\ SubSeq(r, 1, Len(s)) \in Seq(S) /\ Len(SubSeq(r, 1, Len(s))) = Len(s)
          /\ \A i \in 1 .. Len(s) : SubSeq(r, 1, Len(s))[i] = r[i]
  OBVIOUS
<1>2. SubSeq(s, 1, Len(s)) = SubSeq(t, 1, Len(s))
  <2> DEFINE a == SubSeq(s, 1, Len(s))
             b == SubSeq(t, 1, Len(s))
  <2>1. /\ a \in Seq(S) /\ b \in Seq(S) /\ Len(a) = Len(b)
        /\ \A i \in 1 .. Len(a) : a[i] = b[i]
    BY <1>1
  <2> HIDE DEF a, b
  <2>2. a = b
    BY <2>1, SeqEqual
  <2> QED
    BY <2>2 DEF a, b
<1> QED
  BY <1>2, Zenon DEF StartsWith, IsPrefix

\* A concatenation begins with its first part.
LEMMA Beginning ==
    ASSUME NEW S, NEW s \in Seq(S), NEW t \in Seq(S), NEW u \in Seq(S)
    PROVE  StartsWith(s \o t \o u, s)
<1> DEFINE c == s \o t \o u
<1>1. c \in Seq(S) /\ Len(s) <= Len(c) /\ \A i \in 1 .. Len(s) : s[i] = c[i]
  OBVIOUS
<1> HIDE DEF c
<1>2. StartsWith(c, s)
  BY <1>1, BeginsWith
<1> QED
  BY <1>2 DEF c

\* The tail is one shorter.
LEMMA TailOf == \A S : \A s \in Seq(S) : Len(s) >= 1 => Tail(s) \in Seq(S) /\ Len(Tail(s)) = Len(s) - 1
OBVIOUS

\* The cuts made in a URL are made of its tokens.
LEMMA Parts ==
    ASSUME NEW s \in Seq(Tokens), NEW stops
    PROVE  /\ Before(s, stops) \in Seq(Tokens)
           /\ DropSlashes(s) \in Seq(Tokens)
           /\ ToLower(s) \in Seq(Tokens)
           /\ \A m \in Nat \ {0} : SubSeq(s, m, Len(s)) \in Seq(Tokens)
<1>1. \A n \in 0 .. Len(s) : SubSeq(s, 1, n) \in Seq(Tokens)
  OBVIOUS
<1>2. \A m \in Nat \ {0} : SubSeq(s, m, Len(s)) \in Seq(Tokens)
  OBVIOUS
<1>3. Before(s, stops) \in Seq(Tokens)
  <2> DEFINE I == {i \in 1 .. Len(s) : s[i] \in stops}
  <2>1. I # {} => Min(I) \in 1 .. Len(s)
    <3>1. I \in SUBSET (1 .. Len(s)) /\ Len(s) \in Nat
      OBVIOUS
    <3> HIDE DEF I
    <3> QED
      BY <3>1, FirstOne
  <2>2. Before(s, stops) = IF (IF I # {} THEN Min(I) ELSE 0) = 0 THEN s ELSE SubSeq(s, 1, Min(I) - 1)
    BY <2>1 DEF Before, SelectInSeq
  <2> HIDE DEF I
  <2>3. CASE I = {}
    BY <2>2, <2>3
  <2>4. CASE I # {}
    <3>1. Min(I) \in 1 .. Len(s) /\ Min(I) # 0 /\ Min(I) - 1 \in 0 .. Len(s)
      BY <2>1, <2>4
    <3> QED
      BY <1>1, <2>2, <2>4, <3>1
  <2> QED
    BY <2>3, <2>4
<1>4. DropSlashes(s) \in Seq(Tokens)
  <2> DEFINE I == {i \in 1 .. Len(s) : s[i] # "/"}
  <2>1. I # {} => Min(I) \in 1 .. Len(s)
    <3>1. I \in SUBSET (1 .. Len(s)) /\ Len(s) \in Nat
      OBVIOUS
    <3> HIDE DEF I
    <3> QED
      BY <3>1, FirstOne
  <2>2. DropSlashes(s) = IF (IF I # {} THEN Min(I) ELSE 0) = 0 THEN <<>> ELSE SubSeq(s, Min(I), Len(s))
    BY <2>1 DEF DropSlashes, SelectInSeq
  <2> HIDE DEF I
  <2>3. CASE I = {}
    BY <2>2, <2>3
  <2>4. CASE I # {}
    <3>1. Min(I) \in Nat \ {0} /\ Min(I) # 0
      BY <2>1, <2>4
    <3> QED
      BY <1>2, <2>2, <2>4, <3>1
  <2> QED
    BY <2>3, <2>4
<1>5. ToLower(s) \in Seq(Tokens)
  BY LowerAssumption DEF ToLower, Tokens
<1> QED
  BY <1>2, <1>3, <1>4, <1>5

\* A URL whose parts are accepted has the protocol of its scheme, ...
LEMMA LocatedTells ==
    ASSUME NEW scheme, NEW name \in Seq(Tokens), NEW port \in Seq(Tokens), NEW path \in Seq(Tokens),
           Located(scheme, name, port, path).ok
    PROVE  /\ Located(scheme, name, port, path).protocol = scheme
           /\ Located(scheme, name, port, path).host \in Seq(Tokens)
           /\ Located(scheme, name, port, path).port \in Seq(Tokens)
           /\ Located(scheme, name, port, path).path \in Seq(Tokens)
<1>1. ToLower(name) \in Seq(Tokens)
  BY LowerAssumption DEF ToLower, Tokens
<1>2. <<"/">> \in Seq(Tokens)
  BY LowerAssumption DEF Tokens
<1> QED
  BY <1>1, <1>2 DEF Located, NoUrl

\* Only the scheme is lowered, and lowering it again or parsing it first is the same.
LEMMA Same ==
    ASSUME NEW t \in Seq(Tokens), Len(t) > 0
    PROVE  LET url == <<LowerOf[t[1]]>> \o Tail(t)
           IN /\ url \in Seq(Tokens) /\ Len(url) = Len(t) /\ url[1] = LowerOf[t[1]]
              /\ \A i \in 2 .. Len(t) : url[i] = t[i]
              /\ ToLower(url) = ToLower(t)
              /\ Tail(url) = Tail(t)
              /\ <<LowerOf[url[1]]>> \o Tail(url) = url
              /\ ParseUrl(url) = ParseUrl(t)
<1> DEFINE url == <<LowerOf[t[1]]>> \o Tail(t)
<1>0. t[1] \in Tokens /\ LowerOf[t[1]] \in Tokens
  BY LowerAssumption DEF Tokens
<1>1. /\ url \in Seq(Tokens) /\ Len(url) = Len(t) /\ url[1] = LowerOf[t[1]]
      /\ \A i \in 2 .. Len(t) : url[i] = t[i]
  BY <1>0
<1> HIDE DEF url
<1>2. ToLower(url) = ToLower(t)
  <2>1. \A i \in 1 .. Len(t) : LowerOf[url[i]] = LowerOf[t[i]]
    BY <1>0, <1>1, LowerAssumption DEF Tokens
  <2>2. DOMAIN url = 1 .. Len(t) /\ DOMAIN t = 1 .. Len(t)
    BY <1>1
  <2> QED
    BY <2>1, <2>2 DEF ToLower
<1>3. Tail(url) = Tail(t)
  BY <1>1
<1>4. LowerOf[url[1]] = url[1]
  BY <1>0, <1>1, LowerAssumption DEF Tokens
<1>5. SubSeq(url, 3, Len(url)) = SubSeq(t, 3, Len(t))
  BY <1>1
<1>6. url[1] \in Words <=> t[1] \in Words
  BY <1>0, <1>1, LowerAssumption DEF Tokens
<1>7. Len(t) < 2 \/ url[2] = t[2]
  BY <1>1
<1>8. ParseUrl(url) = ParseUrl(t)
  BY <1>1, <1>4, <1>5, <1>6, <1>7 DEF ParseUrl
<1> QED
  BY <1>1, <1>2, <1>3, <1>4, <1>8 DEF url

\* ... however many slashes there are before the authority.
LEMMA ParsedTells ==
    ASSUME NEW scheme, NEW rest \in Seq(Tokens), AfterScheme(scheme, rest).ok
    PROVE  /\ AfterScheme(scheme, rest).protocol = scheme
           /\ AfterScheme(scheme, rest).host \in Seq(Tokens)
           /\ AfterScheme(scheme, rest).port \in Seq(Tokens)
           /\ AfterScheme(scheme, rest).path \in Seq(Tokens)
<1>1. ASSUME NEW authority \in Seq(Tokens), NEW tail \in Seq(Tokens), WithAuthority(scheme, authority, tail).ok
      PROVE  /\ WithAuthority(scheme, authority, tail).protocol = scheme
             /\ WithAuthority(scheme, authority, tail).host \in Seq(Tokens)
             /\ WithAuthority(scheme, authority, tail).port \in Seq(Tokens)
             /\ WithAuthority(scheme, authority, tail).path \in Seq(Tokens)
  <2> DEFINE name == Before(authority, {":"})
             port == SubSeq(authority, Len(name) + 2, Len(authority))
             path == Before(SubSeq(tail, Len(authority) + 1, Len(tail)), {"?"})
  <2>1. name \in Seq(Tokens)
    BY Parts, <1>1
  <2>2. Len(name) + 2 \in Nat \ {0} /\ Len(authority) + 1 \in Nat \ {0}
    BY <1>1, <2>1
  <2>3. port \in Seq(Tokens) /\ SubSeq(tail, Len(authority) + 1, Len(tail)) \in Seq(Tokens)
    <3> HIDE DEF name
    <3> QED
      BY Parts, <1>1, <2>2
  <2>4. path \in Seq(Tokens)
    BY Parts, <2>3
  <2>5. WithAuthority(scheme, authority, tail) = Located(scheme, name, port, path)
    BY DEF WithAuthority, WithHost
  <2> HIDE DEF name, port, path
  <2> QED
    BY <1>1, <2>1, <2>3, <2>4, <2>5, LocatedTells
<1>2. CASE scheme \in {"http", "https"}
  <2>1. DropSlashes(rest) \in Seq(Tokens) /\ Before(DropSlashes(rest), {"/", "?"}) \in Seq(Tokens)
    BY Parts
  <2>2. AfterScheme(scheme, rest) = WithAuthority(scheme, Before(DropSlashes(rest), {"/", "?"}), DropSlashes(rest))
    BY <1>2, Zenon DEF AfterScheme
  <2> QED
    BY <1>1, <2>1, <2>2
<1>3. CASE scheme \notin {"http", "https"} /\ StartsWith(rest, <<"/", "/">>)
  <2> DEFINE after == Tail(Tail(rest))
             authority == Before(after, {"/", "?"})
  <2>1. Len(rest) >= 2
    BY <1>3 DEF StartsWith, IsPrefix
  <2>2. Tail(rest) \in Seq(Tokens) /\ Len(Tail(rest)) >= 1
    BY <2>1, TailOf
  <2>3. after \in Seq(Tokens)
    BY <2>2, TailOf
  <2>4. AfterScheme(scheme, rest) = WithAuthority(scheme, authority, after)
    BY <1>3, Zenon DEF AfterScheme
  <2> HIDE DEF after
  <2>5. authority \in Seq(Tokens)
    BY Parts, <2>3
  <2> HIDE DEF authority
  <2> QED
    BY <1>1, <2>3, <2>4, <2>5
<1>4. CASE scheme \notin {"http", "https"} /\ ~StartsWith(rest, <<"/", "/">>)
  <2>1. AfterScheme(scheme, rest) = [ok |-> TRUE, protocol |-> scheme, host |-> <<>>, port |-> <<>>, path |-> Before(rest, {"?"})]
    BY <1>4, Zenon DEF AfterScheme
  <2>2. Before(rest, {"?"}) \in Seq(Tokens)
    BY Parts
  <2> QED
    BY <2>1, <2>2
<1> QED
  BY <1>2, <1>3, <1>4

\* For every string that is typed, of any length: what passes the validation of
\* bdg start is what the worker navigates to, and it is seen by the filters under
\* the host Chrome reports.
THEOREM TypedIsNavigated ==
    ASSUME NEW typed \in Seq(Tokens)
    PROVE  ValidatedIsNavigatedFor(typed)
<1> DEFINE http == <<"http", ":", "/", "/">>
           url == NormalizeUrl(typed)
           to == ParseUrl(url)
<1> SUFFICES ASSUME ValidateUrl(typed)
             PROVE  /\ to.ok /\ to.protocol \in ValidProtocols
                    /\ NormalizeUrl(url) = url
                    /\ HasPrefix(typed, PreservedPrefixes) => to = ParseUrl(typed)
                    /\ ~HasPrefix(typed, PreservedPrefixes) => to.protocol = "http"
                    /\ ExtractHostname(url) = to.host
                    /\ StartsWith(ExtractHostnameWithPath(url), to.host)
  BY Zenon DEF ValidatedIsNavigatedFor
<1>1. to.ok /\ to.protocol \in ValidProtocols
  BY Zenon DEF ValidateUrl
<1>2. http \in Seq(Tokens) /\ http \in PreservedPrefixes
  BY LowerAssumption DEF Tokens, PreservedPrefixes, Hierarchical
<1> DEFINE Told ==
               /\ NormalizeUrl(url) = url
               /\ HasPrefix(typed, PreservedPrefixes) => to = ParseUrl(typed)
               /\ ~HasPrefix(typed, PreservedPrefixes) => to.protocol = "http"
               /\ to.host \in Seq(Tokens) /\ to.port \in Seq(Tokens) /\ to.path \in Seq(Tokens)
<1>3. ASSUME ~HasPrefix(typed, PreservedPrefixes) PROVE Told
  <2>1. url = http \o typed
    BY <1>3 DEF NormalizeUrl
  <2>2. /\ url \in Seq(Tokens) /\ Len(url) >= 4
        /\ url[1] = "http" /\ url[2] = ":" /\ url[3] = "/" /\ url[4] = "/"
    BY <1>2, <2>1
  <2> HIDE DEF url
  <2>3. HasPrefix(url, PreservedPrefixes)
    <3>1. ToLower(url) \in Seq(Tokens) /\ Len(ToLower(url)) = Len(url)
      BY <2>2, LowerAssumption DEF ToLower, Tokens
    <3>2. ToLower(url)[1] = "http" /\ ToLower(url)[2] = ":" /\ ToLower(url)[3] = "/" /\ ToLower(url)[4] = "/"
      BY <2>2, LowerAssumption DEF ToLower
    <3>3. StartsWith(ToLower(url), http)
      <4>1. Len(http) = 4 /\ http[1] = "http" /\ http[2] = ":" /\ http[3] = "/" /\ http[4] = "/"
        OBVIOUS
      <4>2. \A i \in 1 .. 4 : i = 1 \/ i = 2 \/ i = 3 \/ i = 4
        OBVIOUS
      <4> HIDE DEF http
      <4>3. \A i \in 1 .. Len(http) : http[i] = ToLower(url)[i]
        BY <3>2, <4>1, <4>2
      <4>4. Len(http) <= Len(ToLower(url))
        BY <2>2, <3>1, <4>1
      <4> QED
        BY <1>2, <3>1, <4>3, <4>4, BeginsWith, Zenon
    <3> QED
      BY <1>2, <3>3 DEF HasPrefix
  <2>4. NormalizeUrl(url) = url
    <3>1. NormalizeUrl(url) = <<"http">> \o Tail(url)
      BY <2>2, <2>3, LowerAssumption DEF NormalizeUrl
    <3> QED
      BY <2>2, <3>1
  <2>5. SubSeq(url, 3, Len(url)) \in Seq(Tokens)
    BY Parts, <2>2
  <2>6. to = AfterScheme("http", SubSeq(url, 3, Len(url)))
    BY <2>2, LowerAssumption DEF ParseUrl
  <2>7. /\ to.protocol = "http" /\ to.host \in Seq(Tokens)
        /\ to.port \in Seq(Tokens) /\ to.path \in Seq(Tokens)
    <3> HIDE DEF to
    <3> QED
      BY <1>1, <2>5, <2>6, ParsedTells
  <2> QED
    BY <1>3, <2>4, <2>7
<1>4. ASSUME HasPrefix(typed, PreservedPrefixes) PROVE Told
  <2>1. url = <<LowerOf[typed[1]]>> \o Tail(typed)
    BY <1>4 DEF NormalizeUrl
  <2>2. Len(typed) > 0
    <3>1. PICK p \in PreservedPrefixes : StartsWith(ToLower(typed), p)
      BY <1>4 DEF HasPrefix
    <3>2. Len(p) \in Nat /\ Len(p) > 0
      BY <3>1 DEF PreservedPrefixes
    <3>3. Len(p) <= Len(ToLower(typed))
      BY <3>1 DEF StartsWith, IsPrefix
    <3>4. Len(ToLower(typed)) = Len(typed)
      BY LowerAssumption DEF ToLower, Tokens
    <3> QED
      BY <3>2, <3>3, <3>4
  <2>3. /\ url \in Seq(Tokens) /\ Len(url) = Len(typed) /\ ToLower(url) = ToLower(typed)
        /\ <<LowerOf[url[1]]>> \o Tail(url) = url
        /\ to = ParseUrl(typed)
    BY <2>1, <2>2, Same
  <2> HIDE DEF url
  <2>4. HasPrefix(url, PreservedPrefixes)
    BY <1>4, <2>3, Zenon DEF HasPrefix
  <2>5. NormalizeUrl(url) = url
    BY <2>3, <2>4, Zenon DEF NormalizeUrl
  <2>6. /\ to = AfterScheme(LowerOf[url[1]], SubSeq(url, 3, Len(url))) /\ Len(url) >= 2
    <3>1. ~NoUrl.ok
      BY DEF NoUrl
    <3>2. ~(Len(url) < 2 \/ url[1] \notin Words \/ url[2] # ":")
      BY <1>1, <3>1, Zenon DEF ParseUrl
    <3>3. to = AfterScheme(LowerOf[url[1]], SubSeq(url, 3, Len(url)))
      BY <3>2, Zenon DEF ParseUrl
    <3> QED
      BY <2>3, <3>2, <3>3
  <2>7. SubSeq(url, 3, Len(url)) \in Seq(Tokens)
    BY Parts, <2>3
  <2>8. /\ to.host \in Seq(Tokens) /\ to.port \in Seq(Tokens) /\ to.path \in Seq(Tokens)
    <3> HIDE DEF to
    <3> QED
      BY <1>1, <2>6, <2>7, ParsedTells
  <2> QED
    BY <1>4, <2>3, <2>5, <2>8
<1>5. Told
  BY <1>3, <1>4
<1> HIDE DEF url
<1>6. SafeParseUrl(url) = to
  BY <1>1, Zenon DEF SafeParseUrl
<1>7. ExtractHostname(url) = to.host
  BY <1>1, <1>6, Zenon DEF ExtractHostname, HostOr
<1>8. StartsWith(ExtractHostnameWithPath(url), to.host)
  <2> DEFINE tail == IF to.port = <<>> THEN <<>> ELSE <<":">> \o to.port
  <2> HIDE DEF to
  <2>1. ExtractHostnameWithPath(url) = to.host \o tail \o to.path
    BY <1>1, <1>6, Zenon DEF ExtractHostnameWithPath, HostWithPathOr
  <2>2. tail \in Seq(Tokens)
    <3>1. <<":">> \in Seq(Tokens) /\ <<>> \in Seq(Tokens)
      BY LowerAssumption DEF Tokens
    <3> QED
      BY <1>5, <3>1
  <2> HIDE DEF tail
  <2>3. to.host \o tail \o to.path \in Seq(Tokens)
    BY <1>5, <2>2
  <2>4. StartsWith(to.host \o tail \o to.path, to.host)
    BY <1>5, <2>2, Beginning
  <2> QED
    BY <2>1, <2>4
<1> QED
  BY <1>1, <1>5, <1>7, <1>8

(***************************************************************************)
(* Splitting a text.                                                       *)
(***************************************************************************)
\* What holds of 0, and of n + 1 if of n, holds up to the end.
LEMMA Stepwise ==
    ASSUME NEW N \in Nat, NEW T, 0 \in T, \A n \in 0 .. N : n < N /\ n \in T => n + 1 \in T
    PROVE  \A n \in 0 .. N : n \in T
<1> DEFINE U == {n \in 0 .. N : n \notin T}
<1> SUFFICES ASSUME U # {} PROVE FALSE
  OBVIOUS
<1>1. U \in SUBSET Nat
  OBVIOUS
<1>2. PICK x \in U : \A y \in U : x <= y
  BY <1>1, LeastElement
<1>3. x # 0 /\ x \in 0 .. N /\ x \notin T
  BY <1>2
<1>4. x - 1 \in 0 .. N /\ x - 1 < N /\ (x - 1) + 1 = x /\ ~(x <= x - 1)
  BY <1>3
<1>5. x - 1 \in T
  BY <1>2, <1>4
<1> QED
  BY <1>3, <1>4, <1>5

\* What is numbered from 1 to n without repetition has n members.
LEMMA Numbered ==
    ASSUME NEW n \in Nat, NEW S, NEW f \in [1 .. n -> S],
           \A i, j \in 1 .. n : f[i] = f[j] => i = j,
           \A x \in S : \E i \in 1 .. n : f[i] = x
    PROVE  IsFiniteSet(S) /\ Cardinality(S) = n
<1>1. f \in Bijection(1 .. n, S)
  BY DEF Bijection, Injection, Surjection, IsInjective
<1>2. ExistsBijection(1 .. n, S)
  BY <1>1 DEF ExistsBijection
<1> QED
  BY <1>2, FS_CountingElements, FS_NatBijection

\* A sequence that increases is the one its members are put in.
LEMMA AscendingIs ==
    ASSUME NEW n \in Nat, NEW at \in [1 .. n -> Nat],
           \A i, j \in 1 .. n : i < j => at[i] < at[j]
    PROVE  Ascending({at[i] : i \in 1 .. n}) = at
<1> DEFINE S == {at[i] : i \in 1 .. n}
           Upto(x) == {j \in S : j <= x}
<1>1. \A i, j \in 1 .. n : (at[i] <= at[j] <=> i <= j) /\ (at[i] = at[j] => i = j)
  <2> TAKE i, j \in 1 .. n
  <2>1. /\ i < j => at[i] < at[j]
        /\ j < i => at[j] < at[i]
        /\ at[i] \in Nat /\ at[j] \in Nat
    OBVIOUS
  <2> QED
    BY <2>1
<1>2. Cardinality(S) = n
  <2>1. at \in [1 .. n -> S] /\ \A x \in S : \E i \in 1 .. n : at[i] = x
    OBVIOUS
  <2> HIDE DEF S
  <2> QED
    BY <1>1, <2>1, Numbered
<1>3. ASSUME NEW k \in 1 .. n PROVE Cardinality(Upto(at[k])) = k
  <2> DEFINE g == [i \in 1 .. k |-> at[i]]
             T == Upto(at[k])
  <2>1. g \in [1 .. k -> T]
    <3>1. ASSUME NEW i \in 1 .. k PROVE at[i] \in T
      BY <1>1
    <3> HIDE DEF T
    <3> QED
      BY <3>1
  <2>2. \A x \in T : \E i \in 1 .. k : g[i] = x
    <3> TAKE x \in T
    <3>1. PICK i \in 1 .. n : x = at[i]
      OBVIOUS
    <3>2. i <= k
      BY <1>1, <3>1
    <3> QED
      BY <3>1, <3>2
  <2>3. \A i, j \in 1 .. k : g[i] = g[j] => i = j
    BY <1>1
  <2> HIDE DEF g, T
  <2>4. k \in Nat
    OBVIOUS
  <2>5. Cardinality(T) = k
    BY <2>1, <2>2, <2>3, <2>4, Numbered
  <2> QED
    BY <2>5, Zenon DEF T
<1>4. ASSUME NEW k \in 1 .. n PROVE (CHOOSE i \in S : Cardinality(Upto(i)) = k) = at[k]
  <2>1. at[k] \in S /\ Cardinality(Upto(at[k])) = k
    BY <1>3
  <2>2. \A x \in S : Cardinality(Upto(x)) = k => x = at[k]
    <3> TAKE x \in S
    <3>1. PICK i \in 1 .. n : x = at[i]
      OBVIOUS
    <3>2. Cardinality(Upto(x)) = i
      BY <1>3, <3>1
    <3> QED
      BY <3>1, <3>2
  <2> HIDE DEF S, Upto
  <2> QED
    BY <2>1, <2>2
<1>5. Ascending(S) = [k \in 1 .. Cardinality(S) |-> CHOOSE i \in S : Cardinality(Upto(i)) = k]
  BY Zenon DEF Ascending
<1> HIDE DEF S, Upto
<1>6. Ascending(S) = [k \in 1 .. n |-> at[k]]
  BY <1>2, <1>4, <1>5
<1> QED
  BY <1>6 DEF S

\* The text has n separators; cut[k] is where the k-th is, and there is one more
\* cut before the text and one after it.
Cuts(t, c, n, cut) ==
    /\ cut \in [0 .. n + 1 -> Nat] /\ cut[0] = 0 /\ cut[n + 1] = Len(t) + 1
    /\ \A i, j \in 0 .. n + 1 : i < j => cut[i] < cut[j]
    /\ \A i \in 1 .. Len(t) : t[i] = c <=> \E k \in 1 .. n : cut[k] = i

\* The parts of a text between its cuts, which are numbered from 0 to n + 1.
CutAt(t, cut, n) == [k \in 1 .. n + 1 |-> SubSeq(t, cut[k - 1] + 1, cut[k] - 1)]

\* A text with separators at known places, cut[1] to cut[n], is split there.
LEMMA SplitAt ==
    ASSUME NEW S, NEW t \in Seq(S), NEW c, NEW n \in Nat, NEW cut, Cuts(t, c, n, cut)
    PROVE  Split(t, c) = CutAt(t, cut, n)
<1> USE DEF Cuts
<1> DEFINE at == [k \in 1 .. n |-> cut[k]]
           cuts == <<0>> \o at \o <<Len(t) + 1>>
<1>1. /\ at \in [1 .. n -> Nat] /\ \A i, j \in 1 .. n : i < j => at[i] < at[j]
      /\ \A k \in 1 .. n : at[k] \in 1 .. Len(t)
  <2>1. \A k \in 1 .. n : cut[k] \in 1 .. Len(t)
    <3> TAKE k \in 1 .. n
    <3>1. cut[0] < cut[k] /\ cut[k] < cut[n + 1] /\ cut[k] \in Nat
      OBVIOUS
    <3> QED
      BY <3>1
  <2> QED
    BY <2>1
<1>2. {i \in DOMAIN t : t[i] = c} = {at[i] : i \in 1 .. n}
  <2>1. DOMAIN t = 1 .. Len(t)
    OBVIOUS
  <2>2. \A i \in 1 .. Len(t) : t[i] = c <=> \E k \in 1 .. n : at[k] = i
    OBVIOUS
  <2> HIDE DEF at
  <2> QED
    BY <1>1, <2>1, <2>2
<1> HIDE DEF at
<1>3. Ascending({i \in DOMAIN t : t[i] = c}) = at
  BY <1>1, <1>2, AscendingIs
<1>4. Split(t, c) = Pieces(t, cuts)
  BY <1>3 DEF Split
<1>5. /\ Len(cuts) = n + 2
      /\ \A k \in 0 .. n + 1 : cuts[k + 1] = cut[k]
  <2>1. at \in Seq(Nat) /\ Len(at) = n
    BY <1>1
  <2>2. PICK l \in Nat : l = Len(t) + 1
    OBVIOUS
  <2> DEFINE front == <<0>> \o at
  <2>4. /\ front \in Seq(Nat) /\ Len(front) = n + 1 /\ front[1] = 0
        /\ \A k \in 1 .. n : front[k + 1] = at[k]
    <3>1. <<0>> \in Seq(Nat) /\ Len(<<0>>) = 1 /\ <<0>>[1] = 0
      OBVIOUS
    <3>2. /\ front \in Seq(Nat) /\ Len(front) = 1 + n
          /\ \A i \in 1 .. 1 + n : front[i] = IF i <= 1 THEN <<0>>[i] ELSE at[i - 1]
      BY <2>1, <3>1, ConcatProperties
    <3> HIDE DEF front
    <3>3. ASSUME NEW k \in 1 .. n PROVE front[k + 1] = at[k]
      <4>1. k + 1 \in 1 .. 1 + n /\ ~(k + 1 <= 1) /\ (k + 1) - 1 = k
        OBVIOUS
      <4> QED
        BY <3>2, <4>1
    <3>4. front[1] = 0
      BY <3>1, <3>2
    <3> QED
      BY <3>2, <3>3, <3>4
  <2> HIDE DEF front
  <2>5. /\ Len(front \o <<l>>) = n + 2 /\ (front \o <<l>>)[n + 2] = l
        /\ \A k \in 1 .. n + 1 : (front \o <<l>>)[k] = front[k]
    <3>1. <<l>> \in Seq(Nat) /\ Len(<<l>>) = 1 /\ <<l>>[1] = l
      OBVIOUS
    <3>2. /\ Len(front \o <<l>>) = (n + 1) + 1
          /\ \A i \in 1 .. (n + 1) + 1 :
                (front \o <<l>>)[i] = IF i <= n + 1 THEN front[i] ELSE <<l>>[i - (n + 1)]
      BY <2>4, <3>1, ConcatProperties
    <3>3. n + 2 \in 1 .. (n + 1) + 1 /\ ~(n + 2 <= n + 1) /\ (n + 2) - (n + 1) = 1
      OBVIOUS
    <3> QED
      BY <3>1, <3>2, <3>3
  <2>6. cuts = front \o <<l>>
    BY <2>2 DEF front
  <2> HIDE DEF cuts
  <2>7. cuts[1] = 0 /\ cuts[n + 2] = l /\ Len(cuts) = n + 2
    <3>1. 1 \in 1 .. n + 1
      OBVIOUS
    <3> QED
      BY <2>4, <2>5, <2>6, <3>1
  <2>8. ASSUME NEW k \in 1 .. n PROVE cuts[k + 1] = at[k]
    <3>1. k + 1 \in 1 .. n + 1
      OBVIOUS
    <3> QED
      BY <2>4, <2>5, <2>6, <3>1
  <2>3. \A k \in 0 .. n + 1 : k = 0 \/ k = n + 1 \/ k \in 1 .. n
    OBVIOUS
  <2>9. \A k \in 1 .. n : at[k] = cut[k]
    BY DEF at
  <2>10. ASSUME NEW k \in 0 .. n + 1 PROVE cuts[k + 1] = cut[k]
    <3>1. CASE k = 0
      BY <2>7, <3>1
    <3>2. CASE k = n + 1
      BY <2>2, <2>7, <3>2
    <3>3. CASE k \in 1 .. n
      BY <2>8, <2>9, <3>3
    <3> QED
      BY <2>3, <3>1, <3>2, <3>3
  <2> QED
    BY <2>7, <2>10
<1> HIDE DEF cuts
<1>6. Pieces(t, cuts) = [k \in 1 .. n + 1 |-> SubSeq(t, cuts[k] + 1, cuts[k + 1] - 1)]
  BY <1>5 DEF Pieces
<1>7. \A k \in 1 .. n + 1 : cuts[k] = cut[k - 1] /\ cuts[k + 1] = cut[k]
  <2> TAKE k \in 1 .. n + 1
  <2>1. k \in 0 .. n + 1 /\ k - 1 \in 0 .. n + 1 /\ (k - 1) + 1 = k
    OBVIOUS
  <2> QED
    BY <1>5, <2>1
<1> QED
  BY <1>4, <1>6, <1>7 DEF CutAt

\* A text has its separators in order.
LEMMA CutsOf ==
    ASSUME NEW S, NEW t \in Seq(S), NEW c
    PROVE  \E n \in Nat : \E cut : Cuts(t, c, n, cut)
<1>1. PICK N \in Nat : N = Len(t)
  OBVIOUS
<1> DEFINE CutsTo(n, cut, p) == /\ cut \in [0 .. n -> 0 .. p] /\ cut[0] = 0
                                /\ \A i, j \in 0 .. n : i < j => cut[i] < cut[j]
                                /\ \A i \in 1 .. p : t[i] = c <=> \E k \in 1 .. n : cut[k] = i
           T == {p \in 0 .. N : \E n \in Nat : \E cut : CutsTo(n, cut, p)}
<1>e. ASSUME NEW n \in Nat, NEW p \in Nat, NEW cut, CutsTo(n, cut, p), NEW to,
             to = [k \in 0 .. n + 1 |-> IF k <= n THEN cut[k] ELSE p + 1]
      PROVE  /\ to \in [0 .. n + 1 -> 0 .. p + 1] /\ to[0] = 0 /\ to[n + 1] = p + 1
             /\ \A k \in 0 .. n : to[k] = cut[k]
             /\ \A i, j \in 0 .. n + 1 : i < j => to[i] < to[j]
  <2>1. /\ to[0] = 0 /\ to[n + 1] = p + 1 /\ \A k \in 0 .. n : to[k] = cut[k] /\ cut[k] \in 0 .. p
    BY <1>e
  <2>2. to \in [0 .. n + 1 -> 0 .. p + 1]
    BY <1>e, <2>1
  <2>3. ASSUME NEW i \in 0 .. n + 1, NEW j \in 0 .. n + 1, i < j PROVE to[i] < to[j]
    <3>1. i \in 0 .. n
      BY <2>3
    <3>2. CASE j = n + 1
      BY <2>1, <3>1, <3>2
    <3>3. CASE j # n + 1
      <4>1. j \in 0 .. n
        BY <3>3
      <4> QED
        BY <1>e, <2>1, <2>3, <3>1, <4>1
    <3> QED
      BY <3>2, <3>3
  <2> QED
    BY <2>1, <2>2, <2>3
<1>2. 0 \in T
  <2> DEFINE cut == [k \in 0 .. 0 |-> 0]
  <2>1. CutsTo(0, cut, 0)
    OBVIOUS
  <2> HIDE DEF cut, CutsTo
  <2> QED
    BY <1>1, <2>1
<1>3. ASSUME NEW p \in 0 .. N, p < N, p \in T PROVE p + 1 \in T
  <2>n. PICK n \in Nat : \E cut : CutsTo(n, cut, p)
    BY <1>3
  <2>1. PICK cut : CutsTo(n, cut, p)
    BY <2>n
  <2>2. p + 1 \in 1 .. N /\ p + 1 \in 0 .. N /\ p \in Nat
    BY <1>3
  <2>3. \A i \in 1 .. p + 1 : i = p + 1 \/ i \in 1 .. p
    BY <2>2
  <2>4. CASE t[p + 1] = c
    <3>1. PICK to : to = [k \in 0 .. n + 1 |-> IF k <= n THEN cut[k] ELSE p + 1]
      OBVIOUS
    <3>2. /\ to \in [0 .. n + 1 -> 0 .. p + 1] /\ to[0] = 0 /\ to[n + 1] = p + 1
          /\ \A k \in 0 .. n : to[k] = cut[k]
          /\ \A i, j \in 0 .. n + 1 : i < j => to[i] < to[j]
      <4> HIDE DEF CutsTo
      <4>1. PICK u \in Nat : u = p
        BY <2>2
      <4> QED
        BY <1>e, <2>1, <3>1, <4>1, SMTT(60)
    <3>3. ASSUME NEW i \in 1 .. p + 1 PROVE t[i] = c <=> \E k \in 1 .. n + 1 : to[k] = i
      <4>1. CASE i = p + 1
        <5>1. n + 1 \in 1 .. n + 1
          OBVIOUS
        <5> QED
          BY <2>4, <3>2, <4>1, <5>1
      <4>2. CASE i \in 1 .. p
        <5>1. t[i] = c <=> \E k \in 1 .. n : cut[k] = i
          BY <2>1, <4>2
        <5>2. \A k \in 1 .. n : k \in 1 .. n + 1 /\ to[k] = cut[k]
          BY <3>2
        <5>3. \A k \in 1 .. n + 1 : k \in 1 .. n \/ k = n + 1
          OBVIOUS
        <5>4. p + 1 # i
          BY <2>2, <4>2
        <5> QED
          BY <3>2, <5>1, <5>2, <5>3, <5>4
      <4> QED
        BY <2>3, <4>1, <4>2
    <3>4. CutsTo(n + 1, to, p + 1)
      BY <3>2, <3>3
    <3> HIDE DEF CutsTo
    <3> QED
      BY <2>2, <3>4
  <2>5. CASE t[p + 1] # c
    <3>1. cut \in [0 .. n -> 0 .. p + 1] /\ \A k \in 1 .. n : cut[k] # p + 1
      BY <2>1, <2>2
    <3>2. ASSUME NEW i \in 1 .. p + 1 PROVE t[i] = c <=> \E k \in 1 .. n : cut[k] = i
      BY <2>1, <2>3, <2>5, <3>1
    <3>3. CutsTo(n, cut, p + 1)
      BY <2>1, <3>1, <3>2
    <3> HIDE DEF CutsTo
    <3> QED
      BY <2>2, <3>3
  <2> QED
    BY <2>4, <2>5
<1>4. N \in T
  <2> HIDE DEF T
  <2>1. \A n \in 0 .. N : n \in T
    BY <1>2, <1>3, Stepwise
  <2> QED
    BY <2>1
<1>n. PICK n \in Nat : \E cut : CutsTo(n, cut, N)
  BY <1>4
<1>5. PICK cut : CutsTo(n, cut, N)
  BY <1>n
<1>6. PICK to : to = [k \in 0 .. n + 1 |-> IF k <= n THEN cut[k] ELSE N + 1]
  OBVIOUS
<1>7. /\ to \in [0 .. n + 1 -> 0 .. N + 1] /\ to[0] = 0 /\ to[n + 1] = N + 1
      /\ \A k \in 0 .. n : to[k] = cut[k]
      /\ \A i, j \in 0 .. n + 1 : i < j => to[i] < to[j]
  <2> HIDE DEF CutsTo
  <2> QED
    BY <1>e, <1>5, <1>6, SMTT(40)
<1>8. \A i \in 1 .. N : t[i] = c <=> \E k \in 1 .. n : to[k] = i
  <2>1. \A k \in 1 .. n : k \in 0 .. n
    OBVIOUS
  <2> QED
    BY <1>5, <1>7, <2>1
<1>9. to \in [0 .. n + 1 -> Nat]
  BY <1>7
<1>10. Cuts(t, c, n, to)
  BY <1>1, <1>7, <1>8, <1>9 DEF Cuts
<1> QED
  BY <1>10

\* The piece is what stands in the text between cuts k - 1 and k.
IsPiece(S, t, cut, k, piece) ==
    /\ piece \in Seq(S) /\ Len(piece) \in Nat
    /\ cut[k - 1] \in Nat /\ cut[k] \in Nat /\ Len(piece) = cut[k] - 1 - cut[k - 1]
    /\ \A j \in 1 .. Len(piece) : cut[k - 1] + j \in 1 .. Len(t) /\ piece[j] = t[cut[k - 1] + j]

LEMMA PiecesOf ==
    ASSUME NEW S, NEW t \in Seq(S), NEW c, NEW n \in Nat, NEW cut, Cuts(t, c, n, cut),
           NEW k \in 1 .. n + 1, NEW piece, piece = CutAt(t, cut, n)[k]
    PROVE  IsPiece(S, t, cut, k, piece)
<1> USE DEF Cuts
<1>1. PICK N \in Nat : N = Len(t)
  OBVIOUS
<1>2. PICK a \in Nat, b \in Nat : a = cut[k - 1] /\ b = cut[k]
  OBVIOUS
<1>3. a < b /\ b <= N + 1
  <2>1. k - 1 \in 0 .. n + 1 /\ k \in 0 .. n + 1 /\ n + 1 \in 0 .. n + 1 /\ k - 1 < k
    OBVIOUS
  <2>2. k = n + 1 \/ cut[k] < cut[n + 1]
    BY <2>1
  <2> QED
    BY <1>1, <1>2, <2>1, <2>2
<1>4. CutAt(t, cut, n)[k] = SubSeq(t, a + 1, b - 1)
  BY <1>2 DEF CutAt
<1>5. PICK w \in Nat : w = b - 1 - a /\ b - 1 = a + w /\ a + w <= N
  BY <1>1, <1>3
<1>6. \A x \in a + 1 .. a + w : x \in 1 .. N /\ t[x] \in S
  <2>1. \A x \in a + 1 .. a + w : x \in 1 .. N
    BY <1>5
  <2> QED
    BY <1>1, <2>1, ElementOfSeq
<1>7. /\ SubSeq(t, a + 1, a + w) \in Seq(S)
      /\ Len(SubSeq(t, a + 1, a + w)) = IF a + 1 <= a + w THEN (a + w) - (a + 1) + 1 ELSE 0
      /\ \A j \in 1 .. (a + w) - (a + 1) + 1 : SubSeq(t, a + 1, a + w)[j] = t[(a + 1) + j - 1]
  BY <1>6, SubSeqProperties
<1>8. /\ (a + w) - (a + 1) + 1 = w /\ (IF a + 1 <= a + w THEN (a + w) - (a + 1) + 1 ELSE 0) = w
      /\ \A j \in 1 .. w : (a + 1) + j - 1 = a + j /\ a + j \in a + 1 .. a + w
  BY <1>5
<1>9. CutAt(t, cut, n)[k] = SubSeq(t, a + 1, a + w)
  BY <1>4, <1>5
<1>10. /\ piece \in Seq(S) /\ Len(piece) = w
       /\ \A j \in 1 .. w : piece[j] = t[a + j] /\ a + j \in 1 .. N
  BY <1>6, <1>7, <1>8, <1>9
<1> QED
  BY <1>1, <1>2, <1>5, <1>10 DEF IsPiece

\* Lines none of which is blank all count.
LEMMA NoneBlank ==
    ASSUME NEW n \in Nat, NEW S, NEW lines \in [1 .. n -> S], \A i \in 1 .. n : lines[i] # <<>>
    PROVE  NotBlank(lines) = lines
<1> DEFINE at == [i \in 1 .. n |-> i]
<1>1. {i \in DOMAIN lines : lines[i] # <<>>} = {at[i] : i \in 1 .. n}
  OBVIOUS
<1>2. Ascending({i \in DOMAIN lines : lines[i] # <<>>}) = at
  BY <1>1, AscendingIs
<1> QED
  BY <1>2 DEF NotBlank, Keep

(***************************************************************************)
(* Wildcard patterns.                                                      *)
(***************************************************************************)
\* The recursion over the pattern has a solution.
LEMMA ConsumedIs ==
    ASSUME NEW str, NEW pattern, Len(pattern) \in Nat
    PROVE  /\ Consumed(str, pattern)[0] = {0}
           /\ \A k \in 1 .. Len(pattern) :
                 Consumed(str, pattern)[k] = MatchToken(Consumed(str, pattern)[k - 1], str, pattern[k])
<1> DEFINE M(s, k) == MatchToken(s, str, pattern[k])
           Solves(f, n) == f = [k \in 0 .. n |-> IF k = 0 THEN {0} ELSE M(f[k - 1], k)]
           T == {n \in 0 .. Len(pattern) : \E f : Solves(f, n)}
<1>1. PICK N \in Nat : N = Len(pattern)
  OBVIOUS
<1> HIDE DEF M
<1>2. 0 \in T
  <2> DEFINE f == [k \in 0 .. 0 |-> {0}]
  <2>1. Solves(f, 0)
    <3>1. \A k \in 0 .. 0 : k = 0
      OBVIOUS
    <3> QED
      BY <3>1
  <2> HIDE DEF f, Solves
  <2>2. \E h : Solves(h, 0)
    BY <2>1
  <2> QED
    BY <1>1, <2>2
<1>3. ASSUME NEW n \in 0 .. N, n < N, n \in T PROVE n + 1 \in T
  <2>1. PICK f : Solves(f, n)
    BY <1>3
  <2> DEFINE g == [k \in 0 .. n + 1 |-> IF k <= n THEN f[k] ELSE M(f[n], n + 1)]
  <2>2. ASSUME NEW k \in 0 .. n + 1 PROVE g[k] = IF k = 0 THEN {0} ELSE M(g[k - 1], k)
    <3>1. CASE k = n + 1
      <4>1. g[k] = M(f[n], k) /\ g[k - 1] = f[n] /\ k # 0
        BY <3>1
      <4> QED
        BY <4>1
    <3>2. CASE k # n + 1
      <4>1. k \in 0 .. n /\ g[k] = f[k]
        BY <3>2
      <4>2. k # 0 => g[k - 1] = f[k - 1]
        BY <4>1
      <4>3. f[k] = IF k = 0 THEN {0} ELSE M(f[k - 1], k)
        BY <2>1, <4>1
      <4> HIDE DEF g
      <4> QED
        BY <4>1, <4>2, <4>3
    <3> QED
      BY <3>1, <3>2
  <2>3. Solves(g, n + 1)
    <3>1. g = [k \in 0 .. n + 1 |-> g[k]]
      OBVIOUS
    <3> HIDE DEF g
    <3> QED
      BY <2>2, <3>1
  <2>4. n + 1 \in 0 .. Len(pattern)
    BY <1>1, <1>3
  <2> QED
    BY <2>3, <2>4
<1>4. N \in T
  <2> HIDE DEF T
  <2>1. \A n \in 0 .. N : n < N /\ n \in T => n + 1 \in T
    BY <1>3
  <2>2. \A n \in 0 .. N : n \in T
    BY <1>1, <1>2, <2>1, Stepwise
  <2> QED
    BY <1>1, <2>2
<1>5. Consumed(str, pattern) = CHOOSE f : Solves(f, N)
  BY <1>1, Zenon DEF Consumed, M
<1>6. Solves(Consumed(str, pattern), N)
  <2>1. \E f : Solves(f, N)
    BY <1>4
  <2> HIDE DEF Solves
  <2> QED
    BY <1>5, <2>1
<1>7. /\ Consumed(str, pattern)[0] = {0}
      /\ \A k \in 1 .. N : Consumed(str, pattern)[k] = M(Consumed(str, pattern)[k - 1], k)
  <2> DEFINE C == Consumed(str, pattern)
  <2>1. C = [k \in 0 .. N |-> IF k = 0 THEN {0} ELSE M(C[k - 1], k)]
    BY <1>6
  <2> HIDE DEF C
  <2>2. ASSUME NEW k \in 0 .. N PROVE C[k] = IF k = 0 THEN {0} ELSE M(C[k - 1], k)
    BY <2>1, Zenon
  <2>3. 0 \in 0 .. N /\ \A k \in 1 .. N : k \in 0 .. N /\ k # 0
    BY <1>1
  <2>4. C[0] = {0} /\ \A k \in 1 .. N : C[k] = M(C[k - 1], k)
    BY <2>2, <2>3
  <2> QED
    BY <2>4 DEF C
<1> QED
  BY <1>1, <1>7 DEF M

\* A token takes the match from i to j.
Advances(str, token, i, j) ==
    IF token = "*" THEN i <= j ELSE j = i + 1 /\ LowerOf[str[j]] = LowerOf[token]

LEMMA TokenAdvances ==
    ASSUME NEW S, NEW str \in Seq(S), NEW token, NEW at \in SUBSET (0 .. Len(str))
    PROVE  MatchToken(at, str, token) = {j \in 0 .. Len(str) : \E i \in at : Advances(str, token, i, j)}
<1>1. PICK l \in Nat : l = Len(str)
  OBVIOUS
<1>2. CASE token = "*"
  BY <1>2 DEF MatchToken, Advances
<1>3. CASE token # "*"
  <2> DEFINE fits == {i \in at : i < Len(str) /\ LowerOf[str[i + 1]] = LowerOf[token]}
  <2>1. MatchToken(at, str, token) = {i + 1 : i \in fits}
    BY <1>3 DEF MatchToken
  <2>2. ASSUME NEW i \in fits
        PROVE  i + 1 \in 0 .. l /\ i \in at /\ Advances(str, token, i, i + 1)
    BY <1>1, <1>3 DEF Advances
  <2>3. ASSUME NEW j \in 0 .. l, NEW i \in at, Advances(str, token, i, j)
        PROVE  j = i + 1 /\ i \in fits
    BY <1>1, <1>3, <2>3 DEF Advances
  <2> HIDE DEF fits
  <2>4. ASSUME NEW j \in MatchToken(at, str, token)
        PROVE  j \in 0 .. l /\ \E i \in at : Advances(str, token, i, j)
    <3>1. PICK i \in fits : j = i + 1
      BY <2>1
    <3> QED
      BY <2>2, <3>1
  <2>5. ASSUME NEW j \in 0 .. l, NEW i \in at, Advances(str, token, i, j)
        PROVE  j \in MatchToken(at, str, token)
    BY <2>1, <2>3, <2>5
  <2> QED
    BY <1>1, <2>4, <2>5
<1> QED
  BY <1>2, <1>3

LEMMA ConsumedSteps ==
    ASSUME NEW S, NEW str \in Seq(S), NEW pattern \in Seq(S)
    PROVE  /\ Consumed(str, pattern)[0] = {0}
           /\ \A k \in 1 .. Len(pattern) :
                 Consumed(str, pattern)[k] =
                    {j \in 0 .. Len(str) :
                        \E i \in Consumed(str, pattern)[k - 1] : Advances(str, pattern[k], i, j)}
<1>1. PICK N \in Nat : N = Len(pattern)
  OBVIOUS
<1>2. PICK L \in Nat : L = Len(str)
  OBVIOUS
<1>3. PICK C : C = Consumed(str, pattern)
  OBVIOUS
<1>4. C[0] = {0} /\ \A k \in 1 .. N : C[k] = MatchToken(C[k - 1], str, pattern[k])
  <2>1. Len(pattern) \in Nat
    BY <1>1
  <2>2. C[0] = {0}
    BY <1>3, <2>1, ConsumedIs
  <2>3. ASSUME NEW k \in 1 .. Len(pattern) PROVE C[k] = MatchToken(C[k - 1], str, pattern[k])
    BY <1>3, <2>1, ConsumedIs
  <2> QED
    BY <1>1, <2>2, <2>3
<1> DEFINE T == {n \in 0 .. N : C[n] \subseteq 0 .. L}
<1>5. 0 \in T
  BY <1>4
<1>6. ASSUME NEW n \in 0 .. N, n < N, n \in T PROVE n + 1 \in T
  <2>1. n + 1 \in 1 .. N /\ n + 1 \in 0 .. N /\ (n + 1) - 1 = n
    BY <1>6
  <2>2. C[n + 1] = MatchToken(C[n], str, pattern[n + 1])
    BY <1>4, <2>1
  <2>3. C[n] \in SUBSET (0 .. Len(str))
    BY <1>2, <1>6
  <2> QED
    BY <1>2, <2>1, <2>2, <2>3, TokenAdvances
<1>7. \A n \in 0 .. N : n \in T
  <2> HIDE DEF T
  <2> QED
    BY <1>5, <1>6, Stepwise
<1>8. ASSUME NEW k \in 1 .. N
      PROVE  C[k] = {j \in 0 .. Len(str) : \E i \in C[k - 1] : Advances(str, pattern[k], i, j)}
  <2>1. k - 1 \in 0 .. N
    OBVIOUS
  <2>2. C[k - 1] \in SUBSET (0 .. Len(str))
    BY <1>2, <1>7, <2>1
  <2> QED
    BY <1>4, <2>2, TokenAdvances
<1> QED
  BY <1>1, <1>3, <1>4, <1>8

\* The first n tokens lead to l token by token: pos[k] is reached after the k-th.
Leads(str, pattern, n, l, pos) ==
    /\ pos \in [0 .. n -> 0 .. Len(str)] /\ pos[0] = 0 /\ pos[n] = l
    /\ \A k \in 1 .. n : Advances(str, pattern[k], pos[k - 1], pos[k])

\* What the pattern consumes, it consumes token by token.
LEMMA Trace ==
    ASSUME NEW S, NEW str \in Seq(S), NEW pattern \in Seq(S),
           NEW q \in 0 .. Len(pattern), NEW j \in Consumed(str, pattern)[q]
    PROVE  \E pos : Leads(str, pattern, q, j, pos)
<1>1. PICK N \in Nat : N = Len(pattern)
  OBVIOUS
<1>2. PICK L \in Nat : L = Len(str)
  OBVIOUS
<1>3. PICK C : C = Consumed(str, pattern)
  OBVIOUS
<1>4. /\ C[0] = {0}
      /\ \A k \in 1 .. N :
            C[k] = {l \in 0 .. L : \E i \in C[k - 1] : Advances(str, pattern[k], i, l)}
  BY <1>1, <1>2, <1>3, ConsumedSteps
<1> DEFINE Goes(pos, n, l) == /\ pos \in [0 .. n -> 0 .. L] /\ pos[0] = 0 /\ pos[n] = l
                              /\ \A k \in 1 .. n : Advances(str, pattern[k], pos[k - 1], pos[k])
           T == {n \in 0 .. N : \A l \in C[n] : \E pos : Goes(pos, n, l)}
<1>5. 0 \in T
  <2> DEFINE pos == [k \in 0 .. 0 |-> 0]
  <2>1. Goes(pos, 0, 0)
    BY <1>2
  <2> HIDE DEF pos, Goes
  <2> QED
    BY <1>1, <1>4, <2>1
<1>6. ASSUME NEW n \in 0 .. N, n < N, n \in T PROVE n + 1 \in T
  <2>1. n + 1 \in 1 .. N /\ n + 1 \in 0 .. N /\ (n + 1) - 1 = n
    BY <1>6
  <2>2. ASSUME NEW l \in C[n + 1] PROVE \E pos : Goes(pos, n + 1, l)
    <3>1. l \in 0 .. L /\ \E i \in C[n] : Advances(str, pattern[n + 1], i, l)
      BY <1>4, <2>1
    <3>2. PICK i \in C[n] : Advances(str, pattern[n + 1], i, l)
      BY <3>1
    <3>3. PICK pos : Goes(pos, n, i)
      BY <1>6
    <3> DEFINE to == [k \in 0 .. n + 1 |-> IF k <= n THEN pos[k] ELSE l]
    <3>4. to \in [0 .. n + 1 -> 0 .. L] /\ to[0] = 0 /\ to[n + 1] = l /\ to[n] = i
      BY <3>1, <3>3
    <3>5. ASSUME NEW k \in 1 .. n + 1 PROVE Advances(str, pattern[k], to[k - 1], to[k])
      <4>1. CASE k = n + 1
        <5>1. to[k - 1] = i /\ to[k] = l
          BY <3>4, <4>1
        <5> QED
          BY <3>2, <4>1, <5>1
      <4>2. CASE k # n + 1
        <5>1. k \in 1 .. n /\ to[k - 1] = pos[k - 1] /\ to[k] = pos[k]
          BY <4>2
        <5> QED
          BY <3>3, <5>1
      <4> QED
        BY <4>1, <4>2
    <3> HIDE DEF to
    <3>6. Goes(to, n + 1, l)
      BY <3>4, <3>5
    <3> QED
      BY <3>6
  <2> QED
    BY <2>1, <2>2
<1>7. \A n \in 0 .. N : n \in T
  <2> HIDE DEF T
  <2> QED
    BY <1>5, <1>6, Stepwise
<1>8. PICK pos : Goes(pos, q, j)
  <2> HIDE DEF Goes
  <2> QED
    BY <1>1, <1>3, <1>7
<1>9. Leads(str, pattern, q, j, pos)
  BY <1>2, <1>8 DEF Leads
<1> QED
  BY <1>9

\* The piece stands in the string after i, but for the case of its letters.
Stands(piece, str, i) == \A j \in 1 .. Len(piece) : LowerOf[str[i + j]] = LowerOf[piece[j]]

LEMMA OccursIs ==
    ASSUME NEW S, NEW str \in Seq(S), NEW piece \in Seq(S), NEW i \in 0 .. Len(str),
           i + Len(piece) <= Len(str)
    PROVE  Occurs(piece, str, i) <=> Stands(piece, str, i)
<1>1. PICK L \in Nat : L = Len(str)
  OBVIOUS
<1>2. PICK w \in Nat : w = Len(piece)
  OBVIOUS
<1>3. PICK found : found = SubSeq(str, i + 1, i + w)
  OBVIOUS
<1>4. /\ found \in Seq(S) /\ Len(found) = w
      /\ \A j \in 1 .. w : found[j] = str[i + j]
  <2>1. \A x \in i + 1 .. i + w : str[x] \in S
    <3>1. \A x \in i + 1 .. i + w : x \in 1 .. Len(str)
      BY <1>1, <1>2
    <3> QED
      BY <3>1, ElementOfSeq
  <2>2. /\ SubSeq(str, i + 1, i + w) \in Seq(S)
        /\ Len(SubSeq(str, i + 1, i + w)) = IF i + 1 <= i + w THEN (i + w) - (i + 1) + 1 ELSE 0
        /\ \A j \in 1 .. (i + w) - (i + 1) + 1 : SubSeq(str, i + 1, i + w)[j] = str[(i + 1) + j - 1]
    <3>1. PICK m \in Nat : m = i
      BY <1>1
    <3>2. \A x \in m + 1 .. m + w : str[x] \in S
      BY <2>1, <3>1
    <3>3. /\ SubSeq(str, m + 1, m + w) \in Seq(S)
          /\ Len(SubSeq(str, m + 1, m + w)) = IF m + 1 <= m + w THEN (m + w) - (m + 1) + 1 ELSE 0
          /\ \A j \in 1 .. (m + w) - (m + 1) + 1 : SubSeq(str, m + 1, m + w)[j] = str[(m + 1) + j - 1]
      BY <3>2, SubSeqProperties
    <3> QED
      BY <3>1, <3>3, Zenon
  <2>3. /\ (i + w) - (i + 1) + 1 = w /\ (IF i + 1 <= i + w THEN (i + w) - (i + 1) + 1 ELSE 0) = w
        /\ \A j \in 1 .. w : (i + 1) + j - 1 = i + j
    BY <1>1
  <2> QED
    BY <1>3, <2>2, <2>3
<1>5. DOMAIN found = 1 .. w /\ DOMAIN piece = 1 .. w
  BY <1>2, <1>4
<1>6. /\ ToLower(found) = [j \in 1 .. w |-> LowerOf[found[j]]]
      /\ ToLower(piece) = [j \in 1 .. w |-> LowerOf[piece[j]]]
  BY <1>5, Zenon DEF ToLower
<1>7. ToLower(found) = ToLower(piece) <=> \A j \in 1 .. w : LowerOf[found[j]] = LowerOf[piece[j]]
  BY <1>6
<1>8. Occurs(piece, str, i) <=> ToLower(found) = ToLower(piece)
  BY <1>2, <1>3 DEF Occurs
<1> QED
  BY <1>2, <1>4, <1>7, <1>8 DEF Stands

\* What the regular expression made of a pattern matches is what the text between
\* the stars says: MatchesWildcard means WildcardMeansFor, for every string and
\* every pattern.
THEOREM WildcardsMean ==
    ASSUME NEW S, NEW str \in Seq(S), NEW pattern \in Seq(S)
    PROVE  WildcardMeansFor(str, pattern)
<1>1. PICK N \in Nat, L \in Nat : N = Len(pattern) /\ L = Len(str)
  OBVIOUS
<1>n. PICK m \in Nat : \E cut : Cuts(pattern, "*", m, cut)
  <2>1. PICK star : star = "*"
    OBVIOUS
  <2>2. \E m \in Nat : \E cut : Cuts(pattern, star, m, cut)
    BY CutsOf
  <2> QED
    BY <2>1, <2>2, Zenon
<1>c. PICK cut : Cuts(pattern, "*", m, cut)
  BY <1>n
<1>2. /\ cut \in [0 .. m + 1 -> Nat] /\ cut[0] = 0 /\ cut[m + 1] = Len(pattern) + 1
      /\ \A i, j \in 0 .. m + 1 : i < j => cut[i] < cut[j]
      /\ \A i \in 1 .. Len(pattern) : pattern[i] = "*" <=> \E k \in 1 .. m : cut[k] = i
  BY <1>c DEF Cuts
<1>3. PICK pieces : pieces = Split(pattern, "*")
  OBVIOUS
<1>4. pieces = CutAt(pattern, cut, m) /\ Len(pieces) = m + 1
  <2>1. PICK star : star = "*"
    OBVIOUS
  <2>2. Cuts(pattern, star, m, cut)
    BY <1>c, <2>1
  <2>3. Split(pattern, star) = CutAt(pattern, cut, m)
    BY <2>2, SplitAt
  <2>4. Len(CutAt(pattern, cut, m)) = m + 1
    BY DEF CutAt
  <2> QED
    BY <1>3, <2>1, <2>3, <2>4
<1>5. PICK C : C = Consumed(str, pattern)
  OBVIOUS
<1>6. /\ C[0] = {0}
      /\ \A k \in 1 .. N :
            C[k] = {j \in 0 .. L : \E i \in C[k - 1] : Advances(str, pattern[k], i, j)}
  <2>1. C[0] = {0}
    BY <1>5, ConsumedSteps
  <2>2. ASSUME NEW k \in 1 .. Len(pattern)
        PROVE  C[k] = {j \in 0 .. Len(str) : \E i \in C[k - 1] : Advances(str, pattern[k], i, j)}
    BY <1>5, ConsumedSteps
  <2> QED
    BY <1>1, <2>1, <2>2
\* The k-th piece has length w[k] and begins after the token cut[k - 1].
<1>p. ASSUME NEW k \in 1 .. m + 1, NEW piece, piece = pieces[k]
      PROVE  /\ piece \in Seq(S) /\ Len(piece) \in Nat
             /\ cut[k - 1] \in Nat /\ cut[k] \in Nat /\ Len(piece) = cut[k] - 1 - cut[k - 1]
             /\ \A j \in 1 .. Len(piece) : cut[k - 1] + j \in 1 .. N /\ piece[j] = pattern[cut[k - 1] + j]
  <2>1. PICK star : star = "*"
    OBVIOUS
  <2>2. Cuts(pattern, star, m, cut) /\ piece = CutAt(pattern, cut, m)[k]
    BY <1>c, <1>4, <1>p, <2>1
  <2>3. IsPiece(S, pattern, cut, k, piece)
    BY <2>2, PiecesOf
  <2> QED
    BY <1>1, <2>3 DEF IsPiece
<1>7. PICK w \in [1 .. m + 1 -> Nat] : w = [k \in 1 .. m + 1 |-> Len(pieces[k])]
  <2>1. \A k \in 1 .. m + 1 : Len(pieces[k]) \in Nat
    BY <1>p
  <2> QED
    BY <2>1
<1>8. ASSUME NEW k \in 1 .. m + 1
      PROVE  /\ pieces[k] \in Seq(S) /\ Len(pieces[k]) = w[k] /\ w[k] \in Nat
             /\ cut[k - 1] \in Nat /\ cut[k] \in Nat /\ cut[k - 1] + w[k] = cut[k] - 1
             /\ cut[k - 1] + w[k] <= N
             /\ \A j \in 1 .. w[k] : /\ cut[k - 1] + j \in 1 .. N /\ pieces[k][j] = pattern[cut[k - 1] + j]
                                     /\ pattern[cut[k - 1] + j] # "*"
  <2>0. PICK piece : piece = pieces[k]
    OBVIOUS
  <2>1. /\ piece \in Seq(S) /\ Len(piece) = w[k] /\ w[k] \in Nat
        /\ cut[k - 1] \in Nat /\ cut[k] \in Nat /\ w[k] = cut[k] - 1 - cut[k - 1]
        /\ \A j \in 1 .. w[k] : cut[k - 1] + j \in 1 .. N /\ piece[j] = pattern[cut[k - 1] + j]
    <3>1. w[k] = Len(piece)
      BY <1>7, <2>0
    <3> QED
      BY <1>p, <2>0, <3>1
  <2>2. PICK a \in Nat, b \in Nat, l \in Nat : a = cut[k - 1] /\ b = cut[k] /\ l = w[k]
    BY <2>1
  <2>3. b <= N + 1
    <3>1. k \in 0 .. m + 1 /\ m + 1 \in 0 .. m + 1 /\ (k = m + 1 \/ k < m + 1)
      OBVIOUS
    <3>2. k = m + 1 \/ cut[k] < cut[m + 1]
      BY <1>2, <3>1
    <3> QED
      BY <1>1, <1>2, <2>2, <3>2
  <2>4. a + l = b - 1 /\ a + l <= N
    <3>1. l = b - 1 - a
      BY <2>1, <2>2
    <3> QED
      BY <2>3, <3>1
  <2>5. ASSUME NEW j \in 1 .. l PROVE pattern[a + j] # "*"
    <3>1. a + j \in 1 .. N /\ a < a + j /\ a + j < b
      BY <2>4
    <3>2. ASSUME NEW q \in 1 .. m, cut[q] = a + j PROVE FALSE
      <4>1. q <= k - 1 \/ q >= k
        OBVIOUS
      <4>2. CASE q <= k - 1
        <5>1. q \in 0 .. m + 1 /\ k - 1 \in 0 .. m + 1 /\ (q = k - 1 \/ q < k - 1)
          BY <4>2
        <5>2. q = k - 1 \/ cut[q] < cut[k - 1]
          BY <1>2, <5>1
        <5> QED
          BY <2>2, <3>1, <3>2, <5>2
      <4>3. CASE q >= k
        <5>1. q \in 0 .. m + 1 /\ k \in 0 .. m + 1 /\ (q = k \/ k < q)
          BY <4>3
        <5>2. q = k \/ cut[k] < cut[q]
          BY <1>2, <5>1
        <5> QED
          BY <2>2, <3>1, <3>2, <5>2, SMTT(40)
      <4> QED
        BY <4>1, <4>2, <4>3
    <3> QED
      BY <1>1, <1>2, <3>1, <3>2
  <2> QED
    BY <2>0, <2>1, <2>2, <2>4, <2>5
<1>9. ASSUME NEW k \in 1 .. m
      PROVE  /\ k \in 1 .. m + 1 /\ k + 1 \in 1 .. m + 1 /\ (k + 1) - 1 = k
             /\ cut[k] \in 1 .. N /\ pattern[cut[k]] = "*"
  <2>1. k \in 1 .. m + 1 /\ k + 1 \in 1 .. m + 1 /\ (k + 1) - 1 = k
    OBVIOUS
  <2>2. k \in 0 .. m + 1 /\ 0 \in 0 .. m + 1 /\ m + 1 \in 0 .. m + 1 /\ 0 < k /\ k < m + 1
    OBVIOUS
  <2>3. cut[k] \in Nat /\ cut[0] < cut[k] /\ cut[k] < cut[m + 1]
    BY <1>2, <2>2
  <2>4. cut[k] \in 1 .. N
    BY <1>1, <1>2, <2>3
  <2> QED
    BY <1>1, <1>2, <2>1, <2>4
<1>10. cut[m] + w[m + 1] = N
  <2>1. m + 1 \in 1 .. m + 1 /\ (m + 1) - 1 = m
    OBVIOUS
  <2>2. cut[m] \in Nat /\ w[m + 1] \in Nat /\ cut[m] + w[m + 1] = cut[m + 1] - 1
    BY <1>8, <2>1
  <2> QED
    BY <1>1, <1>2, <2>2
<1> DEFINE Fits(start, k) == \A j \in 1 .. w[k] : LowerOf[str[start[k] + j]] = LowerOf[pattern[cut[k - 1] + j]]
           Places(start) == /\ \A k \in 1 .. m + 1 : start[k] + w[k] <= L /\ Fits(start, k)
                            /\ \A k \in 1 .. m : start[k] + w[k] <= start[k + 1]
                            /\ start[1] = 0 /\ start[m + 1] + w[m + 1] = L
<1>11. ASSUME NEW start \in [1 .. m + 1 -> 0 .. L]
       PROVE  Places(start) <=>
                 /\ \A k \in 1 .. m + 1 : start[k] + Len(pieces[k]) <= Len(str) /\ Occurs(pieces[k], str, start[k])
                 /\ \A k \in 1 .. (m + 1) - 1 : start[k] + Len(pieces[k]) <= start[k + 1]
                 /\ start[1] = 0 /\ start[m + 1] + Len(pieces[m + 1]) = Len(str)
  <2>1. ASSUME NEW k \in 1 .. m + 1, start[k] + w[k] <= L PROVE Occurs(pieces[k], str, start[k]) <=> Fits(start, k)
    <3>1. /\ pieces[k] \in Seq(S) /\ start[k] \in 0 .. Len(str) /\ Len(pieces[k]) = w[k]
          /\ start[k] + Len(pieces[k]) <= Len(str)
      BY <1>1, <1>8, <2>1
    <3>2. PICK piece \in Seq(S), i \in 0 .. Len(str) : piece = pieces[k] /\ i = start[k]
      BY <3>1
    <3>3. Occurs(piece, str, i) <=> Stands(piece, str, i)
      BY <3>1, <3>2, OccursIs
    <3>4. Len(piece) = w[k] /\ \A j \in 1 .. w[k] : piece[j] = pattern[cut[k - 1] + j]
      BY <1>8, <3>2
    <3> QED
      BY <3>2, <3>3, <3>4 DEF Stands
  <2>2. (m + 1) - 1 = m /\ m + 1 \in 1 .. m + 1 /\ \A k \in 1 .. m : k \in 1 .. m + 1
    OBVIOUS
  <2>3. \A k \in 1 .. m + 1 : Len(pieces[k]) = w[k]
    BY <1>8
  <2> HIDE DEF Fits
  <2> QED
    BY <1>1, <2>1, <2>2, <2>3
<1>12. ASSUME NEW start \in [1 .. m + 1 -> 0 .. L], Places(start) PROVE L \in C[N]
  <2>1. ASSUME NEW k \in 1 .. m + 1, start[k] \in C[cut[k - 1]]
        PROVE  start[k] + w[k] \in C[cut[k - 1] + w[k]]
    <3>a. PICK a \in Nat, l \in Nat : a = cut[k - 1] /\ l = w[k]
      BY <1>8
    <3>x. PICK x \in 0 .. L : x = start[k]
      OBVIOUS
    <3>0. x + l <= L /\ x \in C[a]
      BY <1>12, <2>1, <3>a, <3>x
    <3>f. \A j \in 1 .. l : /\ a + j \in 1 .. N /\ pattern[a + j] # "*"
                           /\ LowerOf[str[x + j]] = LowerOf[pattern[a + j]]
      BY <1>8, <1>12, <3>a, <3>x
    <3> DEFINE T == {j \in 0 .. l : x + j \in C[a + j]}
    <3>1. 0 \in T
      BY <3>0
    <3>2. ASSUME NEW j \in 0 .. l, j < l, j \in T PROVE j + 1 \in T
      <4>1. j + 1 \in 1 .. l /\ j + 1 \in 0 .. l
        BY <3>2
      <4>2. (a + (j + 1)) - 1 = a + j /\ x + (j + 1) = (x + j) + 1
        OBVIOUS
      <4>3. x + (j + 1) \in 0 .. L
        BY <3>0, <4>1
      <4>4. x + j \in C[a + j]
        BY <3>2
      <4>5. Advances(str, pattern[a + (j + 1)], x + j, x + (j + 1))
        BY <3>f, <4>1, <4>2 DEF Advances
      <4>6. PICK q \in 1 .. N : q = a + (j + 1) /\ q - 1 = a + j
        BY <3>f, <4>1, <4>2
      <4>7. x + (j + 1) \in C[q]
        BY <1>6, <4>3, <4>4, <4>5, <4>6
      <4> QED
        BY <4>1, <4>6, <4>7
    <3>3. \A j \in 0 .. l : j \in T
      <4> HIDE DEF T
      <4> QED
        BY <3>1, <3>2, Stepwise
    <3>4. x + l \in C[a + l]
      BY <3>3, SMTT(40)
    <3> QED
      BY <3>a, <3>x, <3>4
  <2> DEFINE U == {k \in 0 .. m : start[k + 1] \in C[cut[k]]}
  <2>2. 0 \in U
    BY <1>2, <1>6, <1>12
  <2>3. ASSUME NEW k \in 0 .. m, k < m, k \in U PROVE k + 1 \in U
    <3>1. PICK i \in 1 .. m : i = k + 1 /\ i - 1 = k
      BY <2>3
    <3>2. start[i] + w[i] \in C[cut[i - 1] + w[i]]
      <4>1. i \in 1 .. m + 1 /\ start[i] \in C[cut[i - 1]]
        BY <2>3, <3>1
      <4> QED
        BY <2>1, <4>1
    <3>3. /\ cut[i] \in 1 .. N /\ pattern[cut[i]] = "*" /\ i + 1 \in 1 .. m + 1
          /\ cut[i - 1] + w[i] = cut[i] - 1
      BY <1>8, <1>9
    <3>4. start[i] + w[i] <= start[i + 1] /\ start[i + 1] \in 0 .. L
      BY <1>12, <3>3
    <3>5. start[i] + w[i] \in C[cut[i] - 1]
      BY <3>2, <3>3
    <3>6. Advances(str, pattern[cut[i]], start[i] + w[i], start[i + 1])
      BY <3>3, <3>4 DEF Advances
    <3>7. start[i + 1] \in C[cut[i]]
      BY <1>6, <3>3, <3>4, <3>5, <3>6
    <3> QED
      BY <2>3, <3>1, <3>7
  <2>4. \A k \in 0 .. m : k \in U
    <3> HIDE DEF U
    <3> QED
      BY <2>2, <2>3, Stepwise
  <2>5. start[m + 1] \in C[cut[m]]
    BY <2>4
  <2>6. m + 1 \in 1 .. m + 1 /\ (m + 1) - 1 = m
    OBVIOUS
  <2> QED
    BY <1>10, <1>12, <2>1, <2>5, <2>6
<1>13. ASSUME L \in C[N] PROVE \E start \in [1 .. m + 1 -> 0 .. L] : Places(start)
  <2>1. PICK pos \in [0 .. N -> 0 .. L] :
            /\ pos[0] = 0 /\ pos[N] = L
            /\ \A k \in 1 .. N : Advances(str, pattern[k], pos[k - 1], pos[k])
    <3>1. N \in 0 .. Len(pattern) /\ L \in Consumed(str, pattern)[N]
      BY <1>1, <1>5, <1>13
    <3>2. \E pos : Leads(str, pattern, N, L, pos)
      BY <3>1, Trace
    <3> QED
      BY <1>1, <3>2 DEF Leads
  <2> DEFINE start == [k \in 1 .. m + 1 |-> pos[cut[k - 1]]]
  <2>2. ASSUME NEW k \in 1 .. m + 1
        PROVE  /\ start[k] = pos[cut[k - 1]] /\ start[k] \in 0 .. L
               /\ \A j \in 0 .. w[k] : pos[cut[k - 1] + j] = start[k] + j
               /\ Fits(start, k)
    <3>a. PICK a \in Nat, l \in Nat : a = cut[k - 1] /\ l = w[k]
      BY <1>8
    <3>0. a = cut[k - 1] /\ l = w[k] /\ a + l <= N
      BY <1>8, <3>a
    <3>1. a \in 0 .. N
      BY <3>0
    <3>2. PICK x \in 0 .. L : x = start[k] /\ x = pos[a]
      BY <3>0, <3>1
    <3> HIDE DEF start
    <3>3. ASSUME NEW j \in 1 .. l
          PROVE  pos[a + j] = pos[a + (j - 1)] + 1 /\ LowerOf[str[pos[a + j]]] = LowerOf[pattern[a + j]]
      <4>1. a + j \in 1 .. N /\ pattern[a + j] # "*" /\ (a + j) - 1 = a + (j - 1)
        BY <1>8, <3>0
      <4>2. Advances(str, pattern[a + j], pos[a + (j - 1)], pos[a + j])
        BY <2>1, <4>1
      <4> QED
        BY <4>1, <4>2 DEF Advances
    <3> DEFINE T == {j \in 0 .. l : pos[a + j] = x + j}
    <3>4. 0 \in T
      BY <3>2
    <3>5. ASSUME NEW j \in 0 .. l, j < l, j \in T PROVE j + 1 \in T
      <4>1. j + 1 \in 1 .. l /\ (j + 1) - 1 = j /\ j + 1 \in 0 .. l
        BY <3>5
      <4>2. pos[a + (j + 1)] = pos[a + j] + 1
        BY <3>3, <4>1
      <4>3. pos[a + j] = x + j
        BY <3>5
      <4>4. (x + j) + 1 = x + (j + 1)
        OBVIOUS
      <4> QED
        BY <4>1, <4>2, <4>3, <4>4
    <3>6. \A j \in 0 .. l : j \in T
      <4> HIDE DEF T
      <4> QED
        BY <3>4, <3>5, Stepwise
    <3>7. \A j \in 0 .. l : pos[a + j] = x + j
      BY <3>6
    <3>8. ASSUME NEW j \in 1 .. l PROVE LowerOf[str[x + j]] = LowerOf[pattern[a + j]]
      <4>1. j \in 0 .. l
        OBVIOUS
      <4>2. pos[a + j] = x + j
        BY <3>7, <4>1
      <4>3. LowerOf[str[pos[a + j]]] = LowerOf[pattern[a + j]]
        BY <3>3
      <4> QED
        BY <4>2, <4>3, Zenon
    <3> QED
      BY <3>0, <3>2, <3>7, <3>8
  <2>3. start \in [1 .. m + 1 -> 0 .. L]
    <3>1. \A k \in 1 .. m + 1 : start[k] \in 0 .. L
      BY <2>2
    <3> QED
      BY <2>2
  <2> HIDE DEF start, Fits
  <2>4. ASSUME NEW k \in 1 .. m + 1
        PROVE  start[k] + w[k] <= L /\ pos[cut[k] - 1] = start[k] + w[k]
    <3>0. PICK a \in Nat, l \in Nat : a = cut[k - 1] /\ l = w[k]
      BY <1>8
    <3>1. w[k] \in 0 .. w[k] /\ cut[k - 1] + w[k] = cut[k] - 1 /\ cut[k - 1] + w[k] \in 0 .. N
      BY <1>8, <3>0, SMTT(40)
    <3>2. pos[cut[k - 1] + w[k]] = start[k] + w[k] /\ pos[cut[k - 1] + w[k]] \in 0 .. L
      BY <2>2, <3>1
    <3> QED
      BY <3>1, <3>2
  <2>5. ASSUME NEW k \in 1 .. m PROVE start[k] + w[k] <= start[k + 1]
    <3>1. k \in 1 .. m + 1 /\ k + 1 \in 1 .. m + 1 /\ (k + 1) - 1 = k /\ cut[k] \in 1 .. N /\ pattern[cut[k]] = "*"
      BY <1>9
    <3>2. Advances(str, pattern[cut[k]], pos[cut[k] - 1], pos[cut[k]])
      BY <2>1, <3>1
    <3>3. pos[cut[k]] = start[k + 1]
      BY <2>2, <3>1
    <3> QED
      BY <2>4, <3>1, <3>2, <3>3 DEF Advances
  <2>6. start[1] = 0
    <3>1. 1 \in 1 .. m + 1 /\ 1 - 1 = 0
      OBVIOUS
    <3> QED
      BY <1>2, <2>1, <2>2, <3>1
  <2>7. start[m + 1] + w[m + 1] = L
    <3>1. m + 1 \in 1 .. m + 1 /\ cut[m + 1] - 1 = N
      BY <1>1, <1>2
    <3> QED
      BY <2>1, <2>4, <3>1
  <2>8. Places(start)
    BY <2>2, <2>4, <2>5, <2>6, <2>7
  <2> HIDE DEF Places
  <2> QED
    BY <2>3, <2>8
<1> HIDE DEF Places
<1>14. L \in C[N] <=> \E start \in [1 .. m + 1 -> 0 .. L] : Places(start)
  BY <1>12, <1>13
<1>15. MatchesWildcard(str, pattern) <=> L \in C[N]
  BY <1>1, <1>5 DEF MatchesWildcard
<1> QED
  BY <1>1, <1>3, <1>4, <1>11, <1>14, <1>15, Zenon DEF WildcardMeansFor

(***************************************************************************)
(* JSONL framing.                                                          *)
(***************************************************************************)
\* What the reader has made text of, and how many frames it has delivered.
Seen == arrived - Len(held)
Done == Len(messages)

FramingTypes ==
    /\ decoder \in {"chunk", "stream"}
    /\ written \in Seq([text : Frames, end : Nat])
    /\ stream \in Seq(Byte \cup {"n"})
    /\ arrived \in 0 .. Len(stream) /\ boundaries \subseteq 1 .. arrived
    /\ buffer \in Seq(Byte) /\ messages \in Seq(Seq(Byte))

\* The stream is the frames written, each with its newline.
LaidOut ==
    /\ End(Len(written)) = Len(stream)
    /\ \A i, j \in 0 .. Len(written) : i < j => End(i) < End(j)
    /\ \A k \in 1 .. Len(written) :
          /\ End(k) = End(k - 1) + Len(written[k].text) + 1
          /\ stream[End(k)] = "n"
          /\ \A j \in 1 .. Len(written[k].text) : stream[End(k - 1) + j] = written[k].text[j]

\* Every chunk left its boundary; a half at its end is held by a stream decoder.
CutsKnown ==
    /\ arrived > 0 => arrived \in boundaries
    /\ held = IF decoder = "stream" /\ arrived > 0 /\ stream[arrived] = "E1" THEN <<"E1">> ELSE <<>>

\* The frames delivered are read out of the stream, and so is the buffer, from
\* the last newline seen.
ReadSoFar ==
    /\ Done <= Len(written) /\ End(Done) <= Seen
    /\ Done < Len(written) => Seen < End(Done + 1)
    /\ \A k \in 1 .. Done : /\ Len(messages[k]) = Len(written[k].text)
                            /\ \A j \in 1 .. Len(messages[k]) : messages[k][j] = Reading(End(k - 1) + j)
    /\ Len(buffer) = Seen - End(Done)
    /\ \A j \in 1 .. Len(buffer) : buffer[j] = Reading(End(Done) + j)

FramingInv == FramingTypes /\ LaidOut /\ CutsKnown /\ ReadSoFar

\* At most one byte is held.
LEMMA HeldIs ==
    ASSUME CutsKnown
    PROVE  \/ held = <<>> /\ Len(held) = 0 /\ ~(decoder = "stream" /\ arrived > 0 /\ stream[arrived] = "E1")
           \/ held = <<"E1">> /\ Len(held) = 1 /\ decoder = "stream" /\ arrived > 0 /\ stream[arrived] = "E1"
<1>1. CASE decoder = "stream" /\ arrived > 0 /\ stream[arrived] = "E1"
  <2>1. held = <<"E1">>
    BY <1>1 DEF CutsKnown
  <2> QED
    BY <1>1, <2>1
<1>2. CASE ~(decoder = "stream" /\ arrived > 0 /\ stream[arrived] = "E1")
  <2>1. held = <<>>
    BY <1>2 DEF CutsKnown
  <2> QED
    BY <1>2, <2>1
<1> QED
  BY <1>1, <1>2

LEMMA FramingStarts == FramingInit => FramingInv
<1> SUFFICES ASSUME FramingInit PROVE FramingInv
  OBVIOUS
<1>1. /\ written = <<>> /\ stream = <<>> /\ arrived = 0 /\ boundaries = {} /\ held = <<>>
      /\ buffer = <<>> /\ messages = <<>> /\ decoder \in {"chunk", "stream"}
      /\ Len(written) = 0 /\ Len(stream) = 0 /\ Len(messages) = 0 /\ Len(buffer) = 0 /\ Len(held) = 0
  BY DEF FramingInit
<1>2. FramingTypes
  BY <1>1 DEF FramingTypes
<1>3. End(0) = 0
  BY DEF End
<1> QED
  BY <1>1, <1>2, <1>3 DEF FramingInv, LaidOut, CutsKnown, ReadSoFar, Seen, Done

\* The ends of the frames, and the frames themselves.
LEMMA FrameFacts ==
    ASSUME FramingTypes
    PROVE  /\ Len(written) \in Nat /\ End(0) = 0 /\ End(0) \in Nat
           /\ \A k \in 1 .. Len(written) :
                 /\ End(k) = written[k].end /\ End(k) \in Nat /\ written[k].text \in Frames
                 /\ written[k].text \in Seq(Byte) /\ Len(written[k].text) \in Nat \ {0}
           /\ Len(stream) \in Nat /\ arrived \in Nat /\ Len(messages) \in Nat /\ Len(buffer) \in Nat
<1>1. /\ Len(written) \in Nat /\ Len(stream) \in Nat /\ Len(messages) \in Nat /\ Len(buffer) \in Nat
      /\ \A k \in 1 .. Len(written) : written[k] \in [text : Frames, end : Nat]
      /\ arrived \in Nat
  <2>1. Len(stream) \in Nat /\ Len(messages) \in Nat /\ Len(buffer) \in Nat
    BY LenProperties DEF FramingTypes
  <2>2. Len(written) \in Nat /\ \A k \in 1 .. Len(written) : written[k] \in [text : Frames, end : Nat]
    BY LenProperties, ElementOfSeq DEF FramingTypes
  <2> QED
    BY <2>1, <2>2 DEF FramingTypes
<1>2. \A f \in Frames : f \in Seq(Byte) /\ Len(f) \in Nat \ {0}
  BY FramesAssumption, EmptySeq
<1> QED
  BY <1>1, <1>2 DEF End

\* Every position of the stream lies in one frame or is its newline.
LEMMA PlaceOf ==
    ASSUME FramingTypes, LaidOut, NEW p \in 1 .. Len(stream)
    PROVE  \E k \in 1 .. Len(written) : End(k - 1) < p /\ p <= End(k)
<1> DEFINE T == {k \in 1 .. Len(written) : p <= End(k)}
<1>1. T \in SUBSET Nat
  OBVIOUS
<1>2. T # {}
  <2>1. Len(written) # 0
    BY FrameFacts DEF LaidOut
  <2>2. Len(written) \in T
    BY <2>1, FrameFacts DEF LaidOut
  <2> QED
    BY <2>2
<1>3. PICK k \in T : \A m \in T : k <= m
  BY <1>1, <1>2, LeastElement
<1>4. End(k - 1) < p
  <2>1. CASE k = 1
    BY <2>1, FrameFacts
  <2>2. CASE k # 1
    <3>1. k - 1 \in 1 .. Len(written) /\ k - 1 \notin T
      BY <1>3, <2>2, FrameFacts
    <3>2. End(k - 1) \in Nat
      BY <3>1, FrameFacts
    <3> QED
      BY <3>1, <3>2
  <2> QED
    BY <2>1, <2>2
<1> QED
  BY <1>3, <1>4

\* What stands where in the stream.
LEMMA Contents ==
    ASSUME FramingTypes, LaidOut, NEW k \in 1 .. Len(written), NEW p \in Nat,
           End(k - 1) < p, p <= End(k)
    PROVE  /\ p = End(k) => stream[p] = "n"
           /\ p # End(k) => /\ p - End(k - 1) \in 1 .. Len(written[k].text)
                            /\ stream[p] = written[k].text[p - End(k - 1)]
                            /\ stream[p] \in Byte /\ stream[p] # "n"
<1>1. /\ End(k) = End(k - 1) + Len(written[k].text) + 1
      /\ stream[End(k)] = "n"
      /\ \A j \in 1 .. Len(written[k].text) : stream[End(k - 1) + j] = written[k].text[j]
  BY DEF LaidOut
<1>2. End(k - 1) \in Nat /\ End(k) \in Nat /\ written[k].text \in Seq(Byte)
  <2>1. k = 1 \/ k - 1 \in 1 .. Len(written)
    BY FrameFacts
  <2> QED
    BY <2>1, FrameFacts
<1>3. ASSUME p # End(k)
      PROVE  /\ p - End(k - 1) \in 1 .. Len(written[k].text)
             /\ stream[p] = written[k].text[p - End(k - 1)]
             /\ stream[p] \in Byte /\ stream[p] # "n"
  <2> DEFINE j == p - End(k - 1)
  <2>1. j \in 1 .. Len(written[k].text) /\ p = End(k - 1) + j
    BY <1>1, <1>2, <1>3
  <2>2. stream[p] = written[k].text[j]
    BY <1>1, <2>1
  <2>3. written[k].text[j] \in Byte
    BY <1>2, <2>1
  <2>4. "n" \notin Byte
    BY FramesAssumption DEF Byte
  <2> QED
    BY <2>1, <2>2, <2>3, <2>4
<1> QED
  BY <1>1, <1>3

\* The halves of a character stand side by side in the stream.
LEMMA Halves ==
    ASSUME FramingTypes, LaidOut, NEW p \in 1 .. Len(stream)
    PROVE  /\ stream[p] = "E1" => p < Len(stream) /\ stream[p + 1] = "E2"
           /\ stream[p] = "E2" => p > 1 /\ stream[p - 1] = "E1"
<1>1. PICK k \in 1 .. Len(written) : End(k - 1) < p /\ p <= End(k)
  BY PlaceOf
<1> DEFINE f == written[k].text
           j == p - End(k - 1)
<1>2. /\ End(k - 1) \in Nat /\ End(k) \in Nat /\ f \in Frames /\ f \in Seq(Byte) /\ Len(f) \in Nat
      /\ End(k) = End(k - 1) + Len(f) + 1
  <2>1. k = 1 \/ k - 1 \in 1 .. Len(written)
    BY FrameFacts
  <2> QED
    BY <2>1, FrameFacts DEF LaidOut
<1>3. ASSUME stream[p] \in {"E1", "E2"}
      PROVE  j \in 1 .. Len(f) /\ stream[p] = f[j]
  BY <1>1, <1>3, Contents
<1>4. /\ \A i \in 1 .. Len(f) : f[i] = "E1" => i < Len(f) /\ f[i + 1] = "E2"
      /\ \A i \in 1 .. Len(f) : f[i] = "E2" => i > 1 /\ f[i - 1] = "E1"
  <2>1. DOMAIN f = 1 .. Len(f)
    BY <1>2
  <2> HIDE DEF f
  <2> QED
    BY <1>2, <2>1, FramesAssumption
<1>5. \A i \in 1 .. Len(f) : stream[End(k - 1) + i] = f[i]
  BY DEF LaidOut
<1>6. End(k) <= Len(stream)
  <2>1. k = Len(written) \/ End(k) < End(Len(written))
    BY FrameFacts DEF LaidOut
  <2> QED
    BY <1>2, <2>1, FrameFacts DEF LaidOut
<1> HIDE DEF f
<1>7. ASSUME stream[p] = "E1" PROVE p < Len(stream) /\ stream[p + 1] = "E2"
  <2>1. j \in 1 .. Len(f) /\ f[j] = "E1"
    BY <1>3, <1>7
  <2>2. j < Len(f) /\ f[j + 1] = "E2"
    BY <1>4, <2>1
  <2>3. j + 1 \in 1 .. Len(f) /\ p + 1 = End(k - 1) + (j + 1)
    BY <1>2, <2>1, <2>2, SMTT(40)
  <2>4. stream[p + 1] = f[j + 1]
    BY <1>5, <2>3
  <2> QED
    BY <1>2, <1>6, <2>2, <2>4, FrameFacts
<1>8. ASSUME stream[p] = "E2" PROVE p > 1 /\ stream[p - 1] = "E1"
  <2>1. j \in 1 .. Len(f) /\ f[j] = "E2"
    BY <1>3, <1>8
  <2>2. j > 1 /\ f[j - 1] = "E1"
    BY <1>4, <2>1
  <2>3. j - 1 \in 1 .. Len(f) /\ p - 1 = End(k - 1) + (j - 1)
    <3>1. p \in Nat /\ j \in Nat /\ j > 1 /\ j <= Len(f) /\ p = End(k - 1) + j
      BY <1>2, <2>1, <2>2, FrameFacts
    <3> HIDE DEF j
    <3> QED
      BY <1>2, <3>1
  <2>4. stream[p - 1] = f[j - 1]
    BY <1>5, <2>3
  <2> QED
    BY <1>2, <2>2, <2>4
<1> QED
  BY <1>7, <1>8

\* A frame written leaves the stream as it was, and adds to it.
LEMMA WriteStep == ASSUME FramingInv, NEW frame \in Frames, Write(frame) PROVE FramingInv'
<1> DEFINE f == ToJSONLFrame(frame)
<1> USE DEF FramingInv
<1>n. PICK n \in Nat : n = Len(written)
  BY FrameFacts
<1>d. PICK d \in Nat : d = Done
  BY FrameFacts DEF Done
<1>1. frame \in Seq(Byte) /\ Len(frame) \in Nat
  BY FramesAssumption
<1>2. /\ f \in Seq(Byte \cup {"n"}) /\ Len(f) = Len(frame) + 1 /\ f[Len(f)] = "n"
      /\ \A j \in 1 .. Len(frame) : f[j] = frame[j]
  <2>1. frame \in Seq(Byte \cup {"n"})
    BY <1>1, SeqMonotonic
  <2> QED
    BY <1>1, <2>1 DEF ToJSONLFrame
<1>3. n \in Nat /\ Len(stream) \in Nat
  BY FrameFacts
<1> HIDE DEF f
<1>4. /\ stream' \in Seq(Byte \cup {"n"}) /\ Len(stream') = Len(stream) + Len(f)
      /\ \A p \in 1 .. Len(stream) : stream'[p] = stream[p]
      /\ \A j \in 1 .. Len(f) : stream'[Len(stream) + j] = f[j]
  <2>1. stream' = stream \o f /\ stream \in Seq(Byte \cup {"n"})
    BY DEF Write, f, FramingTypes
  <2>2. /\ stream' \in Seq(Byte \cup {"n"}) /\ Len(stream') = Len(stream) + Len(f)
        /\ \A i \in 1 .. Len(stream) + Len(f) :
              stream'[i] = IF i <= Len(stream) THEN stream[i] ELSE f[i - Len(stream)]
    BY <1>2, <2>1, ConcatProperties
  <2>3. Len(f) \in Nat
    BY <1>1, <1>2
  <2>4. \A j \in 1 .. Len(f) : /\ Len(stream) + j \in 1 .. Len(stream) + Len(f)
                              /\ ~(Len(stream) + j <= Len(stream)) /\ (Len(stream) + j) - Len(stream) = j
    BY <1>3, <2>3
  <2> QED
    BY <1>3, <2>2, <2>3, <2>4
<1>5. /\ written' \in Seq([text : Frames, end : Nat]) /\ Len(written') = n + 1
      /\ \A k \in 1 .. n : written'[k] = written[k]
      /\ written'[n + 1].text = frame /\ written'[n + 1].end = Len(stream')
  <2> DEFINE e == [text |-> frame, end |-> Len(stream')]
  <2>1. e \in [text : Frames, end : Nat] /\ e.text = frame /\ e.end = Len(stream')
    BY <1>2, <1>3, <1>4
  <2>2. written' = Append(written, e)
    BY DEF Write
  <2> HIDE DEF e
  <2>3. written \in Seq([text : Frames, end : Nat])
    BY DEF FramingTypes
  <2> QED
    BY <1>n, <2>1, <2>2, <2>3
<1>6. UNCHANGED <<decoder, arrived, boundaries, held, buffer, messages>>
  BY DEF Write
<1>7. FramingTypes'
  BY <1>3, <1>4, <1>5, <1>6 DEF FramingTypes
<1>8. /\ \A k \in 0 .. n : End(k)' = End(k) /\ End(k) \in Nat /\ End(k) <= Len(stream)
      /\ End(n + 1)' = Len(stream)  + Len(frame) + 1
  <2>1. \A k \in 0 .. n : End(k) \in Nat
    BY FrameFacts, <1>n
  <2>2. \A k \in 0 .. n : k = n \/ End(k) < End(n)
    BY <1>n DEF LaidOut
  <2>3. End(n) = Len(stream)
    BY <1>n DEF LaidOut
  <2>4. \A k \in 0 .. n : End(k) <= Len(stream)
    BY <1>3, <2>1, <2>2, <2>3
  <2>5. \A k \in 0 .. n : End(k)' = End(k)
    BY <1>3, <1>5 DEF End
  <2>6. End(n + 1)' = Len(stream)  + Len(frame) + 1
    BY <1>1, <1>2, <1>3, <1>4, <1>5 DEF End
  <2> QED
    BY <2>1, <2>4, <2>5, <2>6
<1>9. LaidOut'
  <2>1. End(Len(written))' = Len(stream)'
    BY <1>1, <1>2, <1>3, <1>4, <1>5, <1>8
  <2>2. \A i, j \in 0 .. n + 1 : i < j => End(i)' < End(j)'
    <3> TAKE i, j \in 0 .. n + 1
    <3>1. CASE j = n + 1
      BY <1>1, <1>3, <1>8, <3>1
    <3>2. CASE j # n + 1
      <4>1. i < j => i \in 0 .. n /\ j \in 0 .. n
        BY <3>2
      <4>2. i < j => End(i) < End(j)
        BY <1>n, <4>1 DEF LaidOut
      <4> QED
        BY <1>8, <4>1, <4>2
    <3> QED
      BY <3>1, <3>2
  <2>3. ASSUME NEW k \in 1 .. n + 1
        PROVE  /\ End(k)' = End(k - 1)' + Len(written'[k].text) + 1
               /\ stream'[End(k)'] = "n"
               /\ \A j \in 1 .. Len(written'[k].text) : stream'[End(k - 1)' + j] = written'[k].text[j]
    <3>1. CASE k = n + 1
      <4>1. End(k - 1)' = Len(stream) /\ End(k)' = Len(stream) + Len(frame) + 1 /\ written'[k].text = frame
        BY <1>n, <1>5, <1>8, <3>1 DEF LaidOut
      <4>2. stream'[Len(stream) + (Len(frame) + 1)] = "n"
        BY <1>1, <1>2, <1>4
      <4>3. \A j \in 1 .. Len(frame) : stream'[Len(stream) + j] = frame[j]
        BY <1>1, <1>2, <1>4
      <4>4. PICK l \in Nat, w \in Nat : l = Len(stream) /\ w = Len(frame)
        BY <1>1
      <4>5. End(k)' = End(k - 1)' + Len(written'[k].text) + 1
        BY <4>1, <4>4
      <4>6. stream'[End(k)'] = "n"
        <5>1. End(k)' = l + (w + 1)
          BY <4>1, <4>4
        <5> QED
          BY <4>2, <4>4, <5>1
      <4>7. \A j \in 1 .. Len(written'[k].text) : stream'[End(k - 1)' + j] = written'[k].text[j]
        BY <4>1, <4>3
      <4> QED
        BY <4>5, <4>6, <4>7
    <3>2. CASE k # n + 1
      <4>1. k \in 1 .. n /\ k - 1 \in 0 .. n /\ k \in 0 .. n
        BY <1>3, <3>2
      <4>2. /\ End(k) = End(k - 1) + Len(written[k].text) + 1
            /\ stream[End(k)] = "n"
            /\ \A j \in 1 .. Len(written[k].text) : stream[End(k - 1) + j] = written[k].text[j]
        BY <1>n, <4>1 DEF LaidOut
      <4>3. written'[k] = written[k] /\ End(k)' = End(k) /\ End(k - 1)' = End(k - 1)
        BY <1>5, <1>8, <4>1
      <4>4. Len(written[k].text) \in Nat /\ End(k - 1) \in Nat /\ End(k) \in Nat /\ End(k) <= Len(stream)
        BY <1>n, <1>8, <4>1, FrameFacts
      <4>5. End(k) \in 1 .. Len(stream) /\ \A j \in 1 .. Len(written[k].text) : End(k - 1) + j \in 1 .. Len(stream)
        BY <1>3, <4>2, <4>4
      <4> QED
        BY <1>4, <4>2, <4>3, <4>5
    <3> QED
      BY <3>1, <3>2
  <2> QED
    BY <1>5, <2>1, <2>2, <2>3 DEF LaidOut
<1>10. CutsKnown'
  BY <1>4, <1>6 DEF CutsKnown, FramingTypes
<1>11. \A p \in 1 .. Len(stream) : Reading(p)' = Reading(p)
  BY <1>4, <1>6 DEF Reading, Torn
<1>12. ReadSoFar'
  <2>1. Done' = d /\ Seen' = Seen /\ d <= n /\ Seen \in Nat /\ Seen <= Len(stream)
    <3>1. arrived \in 0 .. Len(stream) /\ d <= n
      BY <1>n, <1>d DEF FramingTypes, ReadSoFar
    <3>2. Len(held) = 0 \/ (Len(held) = 1 /\ arrived > 0)
      BY HeldIs
    <3>3. Done' = d
      BY <1>d, <1>6 DEF Done
    <3>4. Seen' = Seen
      BY <1>6 DEF Seen
    <3>5. arrived \in Nat /\ arrived <= Len(stream)
      BY <1>3, <3>1
    <3>6. Seen = arrived \/ (Seen = arrived - 1 /\ arrived > 0)
      <4>1. PICK h \in {0, 1} : h = Len(held) /\ (h = 1 => arrived > 0)
        BY <3>2
      <4> QED
        BY <3>5, <4>1 DEF Seen
    <3> QED
      BY <1>3, <3>1, <3>3, <3>4, <3>5, <3>6
  <2>2. /\ End(d) <= Seen /\ Len(buffer) = Seen - End(d)
        /\ \A j \in 1 .. Len(buffer) : buffer[j] = Reading(End(d) + j)
        /\ d < n => Seen < End(d + 1)
    BY <1>n, <1>d DEF ReadSoFar
  <2>3. Done' <= Len(written') /\ End(d)' <= Seen'
    BY <1>3, <1>5, <1>8, <2>1, <2>2
  <2>4. d < n + 1 => Seen' < End(d + 1)'
    <3>1. CASE d = n
      BY <1>1, <1>3, <1>8, <2>1, <3>1
    <3>2. CASE d # n
      <4>1. d < n /\ d + 1 \in 0 .. n
        BY <2>1, <3>2
      <4> QED
        BY <1>8, <2>1, <2>2, <4>1
    <3> QED
      BY <3>1, <3>2
  <2>5. ASSUME NEW k \in 1 .. d
        PROVE  /\ Len(messages'[k]) = Len(written'[k].text)
               /\ \A j \in 1 .. Len(messages'[k]) : messages'[k][j] = Reading(End(k - 1) + j)'
    <3>1. k \in 1 .. n /\ k - 1 \in 0 .. n /\ k \in 0 .. n
      BY <2>1
    <3>2. /\ written'[k] = written[k] /\ messages' = messages /\ End(k - 1)' = End(k - 1)
          /\ Len(messages[k]) = Len(written[k].text) /\ Len(written[k].text) \in Nat
          /\ End(k) = End(k - 1) + Len(written[k].text) + 1 /\ End(k) <= Len(stream) /\ End(k - 1) \in Nat
      BY <1>n, <1>d, <1>5, <1>6, <1>8, <3>1, FrameFacts DEF ReadSoFar, LaidOut
    <3>3. ASSUME NEW j \in 1 .. Len(messages[k]) PROVE messages'[k][j] = Reading(End(k - 1) + j)'
      <4>1. PICK p \in 1 .. Len(stream) : p = End(k - 1) + j
        BY <1>3, <3>2
      <4>2. messages[k][j] = Reading(p)
        BY <1>d, <4>1 DEF ReadSoFar
      <4>3. Reading(p)' = Reading(p)
        BY <1>11
      <4>4. p = (End(k - 1) + j)'
        BY <3>2, <4>1
      <4>5. Reading(End(k - 1) + j)' = Reading(p)'
        BY <4>4 DEF Reading, Torn
      <4> QED
        BY <3>2, <4>2, <4>3, <4>5
    <3> QED
      BY <3>2, <3>3
  <2>6. Len(buffer') = Seen' - End(d)'
    BY <1>6, <1>8, <2>1, <2>2
  <2>7. ASSUME NEW j \in 1 .. Len(buffer') PROVE buffer'[j] = Reading(End(d) + j)'
    <3>1. End(d) \in Nat /\ End(d)' = End(d)
      BY <1>8, <2>1
    <3>2. PICK p \in 1 .. Len(stream) : p = End(d) + j
      BY <1>3, <1>6, <2>1, <2>2, <3>1
    <3>3. Reading(p)' = Reading(p)
      BY <1>11
    <3>4. p = (End(d) + j)'
      BY <3>1, <3>2
    <3>5. Reading(End(d) + j)' = Reading(p)'
      BY <3>4 DEF Reading, Torn
    <3> QED
      BY <1>6, <2>2, <3>2, <3>3, <3>5
  <2>8. Len(written') = n + 1 /\ End(Done)' = End(d)' /\ End(Done + 1)' = End(d + 1)'
    BY <1>5, <2>1 DEF End
  <2>9. \A j \in 1 .. Len(buffer') : Reading(End(Done) + j)' = Reading(End(d) + j)'
    BY <2>8 DEF Reading, Torn
  <2> QED
    BY <2>1, <2>3, <2>4, <2>5, <2>6, <2>7, <2>8, <2>9 DEF ReadSoFar
<1> QED
  BY <1>7, <1>9, <1>10, <1>12

\* A chunk is made text of byte by byte, up to a half it may end with.
LEMMA DecodeTells ==
    ASSUME FramingInv, NEW n \in 1 .. Len(stream) - arrived, OnData(n),
           NEW text, text = Decode(SubSeq(stream, arrived + 1, arrived')).text
    PROVE  /\ text \in Seq(Byte \cup {"n"}) /\ CutsKnown'
           /\ Seen \in Nat /\ Seen' \in Nat /\ Seen <= Seen' /\ Seen' <= Len(stream)
           /\ Len(text) = Seen' - Seen
           /\ \A p \in Seen + 1 .. Seen' : text[p - Seen] = Reading(p)'
<1> USE DEF FramingInv
<1>1. /\ arrived \in Nat /\ Len(stream) \in Nat /\ arrived' = arrived + n /\ arrived' \in 1 .. Len(stream)
      /\ boundaries' = boundaries \cup {arrived'} /\ boundaries \subseteq 1 .. arrived
      /\ stream \in Seq(Byte \cup {"n"}) /\ decoder \in {"chunk", "stream"}
      /\ decoder' = decoder /\ stream' = stream
  BY FrameFacts DEF OnData, FramingTypes
<1>2. PICK a \in 1 .. Len(stream) : a = arrived'
  BY <1>1
<1>3. /\ \/ held = <<>> /\ Len(held) = 0 /\ ~(decoder = "stream" /\ arrived > 0 /\ stream[arrived] = "E1")
         \/ held = <<"E1">> /\ Len(held) = 1 /\ decoder = "stream" /\ arrived > 0 /\ stream[arrived] = "E1"
      /\ held \in Seq(Byte \cup {"n"})
  <2>1. "E1" \in Byte \cup {"n"}
    BY DEF Byte
  <2>2. <<>> \in Seq(Byte \cup {"n"}) /\ <<"E1">> \in Seq(Byte \cup {"n"})
    BY <2>1
  <2> QED
    BY <2>2, HeldIs
<1>4. PICK h \in {0, 1} : h = Len(held) /\ (h = 1 => arrived > 0)
  BY <1>3
<1>5. PICK s \in Nat : s = Seen /\ s = arrived - h
  <2>1. Seen = arrived - h
    BY <1>4 DEF Seen
  <2>2. arrived - h \in Nat
    <3>1. h = 0 \/ (h = 1 /\ arrived > 0)
      BY <1>4
    <3> QED
      BY <1>1, <3>1
  <2> QED
    BY <2>1, <2>2
<1> DEFINE chunk == SubSeq(stream, arrived + 1, a)
           bytes == held \o chunk
<1>6. /\ chunk \in Seq(Byte \cup {"n"}) /\ Len(chunk) = n
      /\ \A i \in 1 .. n : chunk[i] = stream[arrived + i]
  BY <1>1, <1>2
<1>7. /\ bytes \in Seq(Byte \cup {"n"}) /\ Len(bytes) = a - s /\ Len(bytes) > 0
      /\ \A j \in 1 .. a - s : bytes[j] = stream[s + j]
  <2> HIDE DEF chunk
  <2>1. /\ bytes \in Seq(Byte \cup {"n"}) /\ Len(bytes) = h + n
        /\ \A j \in 1 .. h + n : bytes[j] = IF j <= h THEN held[j] ELSE chunk[j - h]
    <3>1. /\ bytes \in Seq(Byte \cup {"n"}) /\ Len(bytes) = Len(held) + Len(chunk)
          /\ \A j \in 1 .. Len(held) + Len(chunk) : bytes[j] = IF j <= Len(held) THEN held[j] ELSE chunk[j - Len(held)]
      BY <1>3, <1>6, ConcatProperties, ZenonT(40)
    <3> HIDE DEF bytes
    <3> QED
      BY <1>4, <1>6, <3>1
  <2>2. a - s = h + n
    BY <1>1, <1>2, <1>4, <1>5
  <2>3. ASSUME NEW j \in 1 .. h + n PROVE bytes[j] = stream[s + j]
    <3>1. CASE j <= h
      <4>1. h = 1 /\ j = 1 /\ held = <<"E1">> /\ stream[arrived] = "E1" /\ s + j = arrived
        BY <1>1, <1>3, <1>4, <1>5, <3>1
      <4> QED
        BY <2>1, <3>1, <4>1
    <3>2. CASE ~(j <= h)
      <4>1. j - h \in 1 .. n /\ arrived + (j - h) = s + j
        BY <1>1, <1>4, <1>5, <3>2
      <4> QED
        BY <1>6, <2>1, <3>2, <4>1
    <3> QED
      BY <3>1, <3>2
  <2> HIDE DEF bytes
  <2> QED
    BY <1>4, <2>1, <2>2, <2>3
<1> HIDE DEF bytes
<1>8. PICK u \in {0, 1} : u = Unfinished(bytes) /\ (u = 1 <=> decoder = "stream" /\ stream[a] = "E1")
  <2>1. Last(bytes) = stream[a]
    <3>1. a - s \in 1 .. a - s /\ s + (a - s) = a
      BY <1>5, <1>7
    <3> QED
      BY <1>7, <3>1 DEF Last
  <2> QED
    BY <2>1 DEF Unfinished
<1> DEFINE m == (a - s) - u
           first == SubSeq(bytes, 1, m)
           rest == SubSeq(bytes, m + 1, Len(bytes))
<1>9. m \in Nat /\ m <= a - s /\ s + m = a - u
  BY <1>5, <1>7, <1>8
<1>10. text = ChunkToString(first) /\ held' = rest
  <2>1. Decode(chunk) = [text |-> ChunkToString(first), rest |-> rest]
    BY <1>7, <1>8, Zenon DEF Decode, bytes
  <2>2. text = Decode(chunk).text /\ held' = Decode(chunk).rest
    BY <1>2 DEF OnData
  <2> QED
    BY <2>1, <2>2
<1>11. /\ first \in Seq(Byte \cup {"n"}) /\ Len(first) = m /\ DOMAIN first = 1 .. m
       /\ \A j \in 1 .. m : first[j] = stream[s + j]
  <2> HIDE DEF m
  <2>1. /\ first \in Seq(Byte \cup {"n"}) /\ Len(first) = m
        /\ \A j \in 1 .. m : first[j] = bytes[j]
    BY <1>7, <1>9
  <2> QED
    BY <1>7, <1>9, <2>1
<1>12. held' = IF decoder = "stream" /\ stream[a] = "E1" THEN <<"E1">> ELSE <<>>
  <2>1. CASE u = 0
    <3>1. rest = <<>>
      BY <1>7, <1>9, <2>1, SubSeqEmpty
    <3> HIDE DEF rest
    <3> QED
      BY <1>8, <1>10, <2>1, <3>1
  <2>2. CASE u = 1
    <3>1. rest \in Seq(Byte \cup {"n"}) /\ Len(rest) = 1 /\ rest[1] = bytes[m + 1]
      <4>1. PICK l \in Nat : l = Len(bytes) /\ l = m + 1
        BY <1>7, <1>9, <2>2
      <4>2. \A i \in m + 1 .. l : bytes[i] \in Byte \cup {"n"}
        <5>1. \A i \in m + 1 .. l : i \in 1 .. Len(bytes)
          BY <1>9, <4>1
        <5> QED
          BY <1>7, <5>1
      <4> HIDE DEF m
      <4>3. /\ SubSeq(bytes, m + 1, l) \in Seq(Byte \cup {"n"})
            /\ Len(SubSeq(bytes, m + 1, l)) = IF m + 1 <= l THEN l - (m + 1) + 1 ELSE 0
            /\ \A j \in 1 .. l - (m + 1) + 1 : SubSeq(bytes, m + 1, l)[j] = bytes[(m + 1) + j - 1]
        BY <1>9, <4>1, <4>2, SubSeqProperties
      <4>4. l - (m + 1) + 1 = 1 /\ (m + 1) + 1 - 1 = m + 1 /\ m + 1 <= l
        BY <1>9, <4>1
      <4>5. rest = SubSeq(bytes, m + 1, l)
        BY <4>1
      <4> HIDE DEF rest
      <4>6. rest \in Seq(Byte \cup {"n"}) /\ Len(rest) = l - (m + 1) + 1
        BY <4>3, <4>4, <4>5
      <4>7. 1 \in 1 .. l - (m + 1) + 1
        BY <4>4
      <4>8. SubSeq(bytes, m + 1, l)[1] = bytes[(m + 1) + 1 - 1]
        BY <4>3, <4>7
      <4> QED
        BY <4>4, <4>5, <4>6, <4>8
    <3>2. bytes[m + 1] = "E1"
      BY <1>7, <1>8, <1>9, <2>2
    <3>3. rest = <<"E1">>
      <4> HIDE DEF rest
      <4> QED
        BY <3>1, <3>2
    <3> QED
      BY <1>8, <1>10, <2>2, <3>3
  <2> QED
    BY <2>1, <2>2
<1>13. CutsKnown'
  BY <1>1, <1>2, <1>12 DEF CutsKnown
<1>14. Seen' = s + m
  <2>1. Len(held') = u
    <3>1. Len(<<>>) = 0 /\ Len(<<"E1">>) = 1
      OBVIOUS
    <3> QED
      BY <1>8, <1>12, <3>1
  <2> QED
    BY <1>2, <1>8, <1>9, <2>1 DEF Seen
<1> HIDE DEF m, first, rest, chunk
<1>15. ASSUME NEW j \in 1 .. m
       PROVE  /\ first[j] = stream[s + j] /\ s + j \in 1 .. Len(stream) /\ s + j <= a
              /\ Alone(first, j) <=> decoder = "chunk" /\ Torn(s + j)'
  <2>0. s + j \in 1 .. Len(stream) /\ s + j <= a /\ a <= Len(stream)
    BY <1>1, <1>2, <1>5, <1>8, <1>9
  <2> DEFINE p == s + j
  <2>1. /\ stream[p] = "E1" => p < Len(stream) /\ stream[p + 1] = "E2"
        /\ stream[p] = "E2" => p > 1 /\ stream[p - 1] = "E1"
    BY <2>0, Halves
  <2>2. first[j] = stream[p]
    BY <1>11
  <2>3. j < m => first[j + 1] = stream[p + 1]
    BY <1>9, <1>11
  <2>4. j > 1 => first[j - 1] = stream[p - 1]
    <3>1. j > 1 => j - 1 \in 1 .. m /\ s + (j - 1) = p - 1
      BY <1>9, <1>5
    <3> QED
      BY <1>11, <3>1
  <2>5. ASSUME stream[p] = "E1"
        PROVE  ~(j < m /\ first[j + 1] = "E2") <=> decoder = "chunk" /\ p \in boundaries'
    <3>1. j < m => first[j + 1] = "E2"
      BY <2>1, <2>3, <2>5
    <3>2. p \in boundaries' <=> p = a \/ (p <= arrived /\ p \in boundaries)
      BY <1>1, <1>2
    <3>3. CASE decoder = "chunk"
      <4>1. u = 0 /\ h = 0 /\ s = arrived /\ m = a - s
        BY <1>1, <1>3, <1>4, <1>5, <1>8, <3>3 DEF m
      <4>2. ~(p <= arrived)
        BY <4>1, <1>1
      <4>3. p = a <=> ~(j < m)
        BY <4>1, <1>5, <1>9, <2>0
      <4> QED
        BY <3>1, <3>2, <3>3, <4>2, <4>3
    <3>4. CASE decoder = "stream"
      <4>1. j < m
        <5> SUFFICES ASSUME j = m PROVE FALSE
          BY <1>9
        <5>1. CASE u = 0
          <6>1. p = a
            BY <1>5, <1>9, <5>1
          <6> QED
            BY <1>8, <2>5, <3>4, <5>1, <6>1
        <5>2. CASE u = 1
          <6>1. p + 1 = a
            BY <1>5, <1>9, <5>2
          <6>2. stream[p + 1] = "E2" /\ stream[a] = "E1"
            BY <1>8, <2>1, <2>5, <5>2
          <6> QED
            BY <6>1, <6>2
        <5> QED
          BY <5>1, <5>2
      <4> QED
        BY <3>1, <3>4, <4>1
    <3> QED
      BY <1>1, <3>3, <3>4
  <2>6. ASSUME stream[p] = "E2"
        PROVE  ~(j > 1 /\ first[j - 1] = "E1") <=> decoder = "chunk" /\ p - 1 \in boundaries'
    <3>1. j > 1 => first[j - 1] = "E1"
      BY <2>1, <2>4, <2>6
    <3>2. p > 1 /\ stream[p - 1] = "E1"
      BY <2>1, <2>6
    <3>3. CASE decoder = "chunk"
      <4>1. u = 0 /\ h = 0 /\ s = arrived
        BY <1>1, <1>3, <1>4, <1>5, <1>8, <3>3
      <4>2. j = 1 => p - 1 = arrived /\ arrived > 0
        BY <1>1, <3>2, <4>1
      <4>3. j = 1 => p - 1 \in boundaries'
        BY <1>1, <4>2 DEF CutsKnown
      <4>4. j > 1 => p - 1 # a /\ p - 1 > arrived
        BY <1>1, <1>5, <2>0, <4>1
      <4>5. j > 1 => p - 1 \notin boundaries'
        BY <1>1, <1>2, <4>4
      <4> QED
        BY <3>1, <3>3, <4>3, <4>5
    <3>4. CASE decoder = "stream"
      <4>1. j > 1
        <5> SUFFICES ASSUME j = 1 PROVE FALSE
          OBVIOUS
        <5>1. p - 1 = s
          BY <1>5
        <5>2. CASE h = 0
          BY <1>1, <1>3, <1>4, <1>5, <3>2, <3>4, <5>1, <5>2
        <5>3. CASE h = 1
          <6>1. p = arrived
            BY <1>1, <1>5, <5>1, <5>3
          <6> QED
            BY <1>3, <1>4, <2>6, <5>3, <6>1
        <5> QED
          BY <5>2, <5>3
      <4> QED
        BY <3>1, <3>4, <4>1
    <3> QED
      BY <1>1, <3>3, <3>4
  <2>7. Torn(s + j)' <=> \/ stream[p] = "E1" /\ p \in boundaries'
                         \/ stream[p] = "E2" /\ p - 1 \in boundaries'
    <3>1. s + j = (s + j)'
      OBVIOUS
    <3> QED
      BY <1>1 DEF Torn
  <2>8. Alone(first, j) <=> \/ stream[p] = "E1" /\ ~(j < m /\ first[j + 1] = "E2")
                            \/ stream[p] = "E2" /\ ~(j > 1 /\ first[j - 1] = "E1")
    BY <1>11, <2>2 DEF Alone
  <2> HIDE DEF p
  <2>9. Alone(first, j) <=> decoder = "chunk" /\ Torn(s + j)'
    BY <2>5, <2>6, <2>7, <2>8
  <2> QED
    BY <2>0, <2>2, <2>9 DEF p
<1>16. text = [j \in 1 .. m |-> IF Alone(first, j) THEN "?" ELSE first[j]]
  BY <1>10, <1>11 DEF ChunkToString
<1>17. text \in Seq(Byte \cup {"n"}) /\ Len(text) = m
  <2>1. \A j \in 1 .. m : (IF Alone(first, j) THEN "?" ELSE first[j]) \in Byte \cup {"n"}
    BY <1>11 DEF Byte
  <2> QED
    BY <1>9, <1>16, <2>1
<1>18. ASSUME NEW p \in s + 1 .. s + m PROVE text[p - s] = Reading(p)'
  <2>1. PICK j \in 1 .. m : p = s + j /\ p - s = j
    BY <1>5, <1>9
  <2>2. Alone(first, j) <=> decoder = "chunk" /\ Torn(p)'
    <3>1. Torn(s + j)' <=> Torn(p)'
      BY <2>1 DEF Torn
    <3> QED
      BY <1>15, <3>1
  <2>3. text[j] = IF Alone(first, j) THEN "?" ELSE stream[p]
    BY <1>11, <1>16, <2>1
  <2>4. Reading(p)' = IF decoder = "chunk" /\ Torn(p)' THEN "?" ELSE stream[p]
    BY <1>1 DEF Reading
  <2> QED
    BY <2>1, <2>2, <2>3, <2>4
<1>19. Seen \in Nat /\ Seen' \in Nat /\ Seen <= Seen' /\ Seen' <= Len(stream)
  BY <1>1, <1>2, <1>5, <1>8, <1>9, <1>14
<1>20. Len(text) = Seen' - Seen /\ \A p \in Seen + 1 .. Seen' : text[p - Seen] = Reading(p)'
  <2>1. Seen = s /\ Seen' = s + m /\ (s + m) - s = m
    BY <1>5, <1>9, <1>14
  <2>2. \A p \in s + 1 .. s + m : text[p - s] = Reading(p)'
    BY <1>18
  <2> QED
    BY <1>17, <2>1, <2>2
<1> QED
  BY <1>13, <1>17, <1>19, <1>20

\* A chunk delivers the frames whose newlines it brings, and the rest is kept.
LEMMA OnDataStep ==
    ASSUME FramingInv, NEW n \in 1 .. Len(stream) - arrived, OnData(n) PROVE FramingInv'
<1> USE DEF FramingInv
<1>1. PICK N \in Nat, d \in Nat : N = Len(written) /\ d = Done
  BY FrameFacts DEF Done
<1> DEFINE text == Decode(SubSeq(stream, arrived + 1, arrived')).text
<1>2. /\ text \in Seq(Byte \cup {"n"}) /\ CutsKnown'
      /\ Seen \in Nat /\ Seen' \in Nat /\ Seen <= Seen' /\ Seen' <= Len(stream)
      /\ Len(text) = Seen' - Seen
      /\ \A p \in Seen + 1 .. Seen' : text[p - Seen] = Reading(p)'
  BY DecodeTells
<1>3. TakeText(text) /\ written' = written /\ stream' = stream /\ decoder' = decoder
  BY DEF OnData
<1> HIDE DEF text
<1>4. PICK s \in Nat, z \in Nat : s = Seen /\ z = Seen' /\ s <= z /\ z <= Len(stream)
  BY <1>2
<1>5. /\ \A k \in 0 .. N : End(k) \in Nat /\ End(k)' = End(k) /\ End(k) <= Len(stream)
      /\ \A i, j \in 0 .. N : i < j => End(i) < End(j)
      /\ \A k \in 1 .. N : /\ End(k) = End(k - 1) + Len(written[k].text) + 1
                           /\ Len(written[k].text) \in Nat \ {0}
      /\ End(N) = Len(stream) /\ Len(stream) \in Nat
  <2>1. /\ \A k \in 0 .. N : End(k) \in Nat /\ End(k)' = End(k)
        /\ Len(stream) \in Nat
    BY <1>1, <1>3, FrameFacts DEF End
  <2>2. /\ \A i, j \in 0 .. N : i < j => End(i) < End(j)
        /\ \A k \in 1 .. N : End(k) = End(k - 1) + Len(written[k].text) + 1
        /\ End(N) = Len(stream)
    BY <1>1 DEF LaidOut
  <2>3. \A k \in 0 .. N : k = N \/ End(k) < End(N)
    BY <2>2
  <2> QED
    BY <1>1, <2>1, <2>2, <2>3, FrameFacts
<1>6. /\ d <= N /\ End(d) <= s /\ Len(buffer) = s - End(d)
      /\ d < N => s < End(d + 1)
      /\ \A j \in 1 .. Len(buffer) : buffer[j] = Reading(End(d) + j)
      /\ \A k \in 1 .. d : /\ Len(messages[k]) = Len(written[k].text)
                           /\ \A j \in 1 .. Len(messages[k]) : messages[k][j] = Reading(End(k - 1) + j)
  BY <1>1, <1>4 DEF ReadSoFar
\* What was read before the chunk reads as it did.
<1>7. /\ \A p \in 1 .. s : Reading(p)' = Reading(p)
      /\ \A p \in 1 .. z : /\ Reading(p)' \in Byte \cup {"n"}
                           /\ Reading(p)' = "n" <=> stream[p] = "n"
  <2>1. /\ boundaries' = boundaries \cup {arrived + n} /\ arrived \in Nat /\ s <= arrived
        /\ arrived > 0 => arrived \in boundaries
        /\ boundaries \subseteq 1 .. arrived /\ decoder \in {"chunk", "stream"}
    <3>1. arrived \in Nat /\ boundaries' = boundaries \cup {arrived + n}
      BY FrameFacts DEF OnData
    <3>2. PICK h \in {0, 1} : h = Len(held)
      BY HeldIs
    <3>3. s <= arrived
      BY <1>4, <3>1, <3>2 DEF Seen
    <3> QED
      BY <3>1, <3>3 DEF CutsKnown, FramingTypes
  <2>2. ASSUME NEW p \in 1 .. s PROVE Reading(p)' = Reading(p)
    <3>1. p \in boundaries' <=> p \in boundaries
      <4>1. p # arrived + n
        BY <2>1
      <4> QED
        BY <2>1, <4>1
    <3>2. p - 1 \in boundaries' <=> p - 1 \in boundaries
      <4>1. p - 1 # arrived + n
        BY <2>1
      <4> QED
        BY <2>1, <4>1
    <3> QED
      BY <1>3, <3>1, <3>2 DEF Reading, Torn
  <2>3. ASSUME NEW p \in 1 .. z
        PROVE  Reading(p)' \in Byte \cup {"n"} /\ (Reading(p)' = "n" <=> stream[p] = "n")
    <3>1. stream[p] \in Byte \cup {"n"}
      BY <1>4, <1>5 DEF FramingTypes
    <3>2. Torn(p)' => stream[p] \in {"E1", "E2"}
      BY <1>3 DEF Torn
    <3>3. Reading(p)' = IF decoder = "chunk" /\ Torn(p)' THEN "?" ELSE stream[p]
      BY <1>3 DEF Reading
    <3>4. "?" \in Byte
      BY DEF Byte
    <3> QED
      BY <3>1, <3>2, <3>3, <3>4
  <2> QED
    BY <2>2, <2>3
<1> DEFINE line == buffer \o text
<1>8. PICK e \in Nat : e = End(d) /\ e <= s
  BY <1>5, <1>6
<1>9. /\ line \in Seq(Byte \cup {"n"}) /\ Len(line) = z - e
      /\ \A i \in 1 .. z - e : line[i] = Reading(e + i)'
  <2>1. buffer \in Seq(Byte \cup {"n"})
    BY SeqMonotonic DEF FramingTypes
  <2>2. /\ line \in Seq(Byte \cup {"n"}) /\ Len(line) = Len(buffer) + Len(text)
        /\ \A i \in 1 .. Len(buffer) + Len(text) :
              line[i] = IF i <= Len(buffer) THEN buffer[i] ELSE text[i - Len(buffer)]
    BY <1>2, <2>1, ConcatProperties
  <2> HIDE DEF line
  <2>3. Len(buffer) = s - e /\ Len(text) = z - s /\ Len(buffer) + Len(text) = z - e
    BY <1>2, <1>4, <1>6, <1>8
  <2>4. ASSUME NEW i \in 1 .. z - e PROVE line[i] = Reading(e + i)'
    <3>1. PICK p \in 1 .. z : p = e + i
      BY <1>8
    <3>2. CASE i <= Len(buffer)
      <4>1. p \in 1 .. s /\ i \in 1 .. Len(buffer)
        BY <1>8, <2>3, <3>1, <3>2
      <4>2. buffer[i] = Reading(p)
        BY <1>6, <1>8, <3>1, <4>1
      <4>3. Reading(p)' = Reading(p)
        BY <1>7, <4>1
      <4> QED
        BY <2>2, <2>3, <3>1, <3>2, <4>2, <4>3
    <3>3. CASE ~(i <= Len(buffer))
      <4>1. p \in s + 1 .. z /\ p - s = i - Len(buffer)
        <5>1. PICK b \in Nat : b = Len(buffer) /\ b = s - e
          BY <1>8, <2>3
        <5>2. p \in s + 1 .. z /\ p - s = i - b
          BY <1>4, <1>8, <3>1, <3>3, <5>1
        <5> QED
          BY <5>1, <5>2
      <4>2. text[p - s] = Reading(p)'
        BY <1>2, <1>4, <4>1
      <4> QED
        BY <2>2, <2>3, <3>1, <3>3, <4>1, <4>2
    <3> QED
      BY <3>2, <3>3
  <2> QED
    BY <2>2, <2>3, <2>4
<1> HIDE DEF line
\* The frames that end within what has been seen.
<1>10. PICK m \in Nat : /\ d + m <= N /\ End(d + m) <= z
                        /\ d + m < N => z < End(d + m + 1)
  <2> DEFINE T == {k \in Nat : d + k > N \/ (d + k <= N /\ z < End(d + k))}
  <2>1. T \in SUBSET Nat /\ T # {}
    <3>1. N + 1 \in T
      BY <1>1
    <3> QED
      BY <3>1
  <2>2. PICK k \in T : \A i \in T : k <= i
    BY <2>1, LeastElement
  <2>3. k # 0
    BY <1>4, <1>5, <1>6
  <2>4. k - 1 \in Nat /\ k - 1 \notin T
    <3>1. k \in Nat
      BY <2>1, <2>2
    <3> HIDE DEF T
    <3> QED
      BY <2>2, <2>3, <3>1
  <2>5. d + (k - 1) \in 0 .. N /\ End(d + (k - 1)) <= z
    BY <1>4, <1>5, <2>4
  <2>6. d + (k - 1) + 1 = d + k
    OBVIOUS
  <2> QED
    BY <2>2, <2>4, <2>5, <2>6
<1> DEFINE to(k) == End(d + k) - e
<1>11. /\ to(0) = 0
       /\ \A k \in 0 .. m : d + k \in 0 .. N /\ to(k) \in Nat /\ End(d + k) = e + to(k) /\ to(k) <= z - e
       /\ \A i, j \in 0 .. m : i < j => to(i) < to(j)
       /\ \A k \in 1 .. m : to(k) = to(k - 1) + Len(written[d + k].text) + 1
  <2>1. \A k \in 0 .. m : d + k \in 0 .. N
    BY <1>10
  <2>2. \A i, j \in 0 .. m : i < j => End(d + i) < End(d + j)
    <3> TAKE i, j \in 0 .. m
    <3>1. d + i \in 0 .. N /\ d + j \in 0 .. N /\ (i < j => d + i < d + j)
      BY <2>1
    <3> QED
      BY <1>5, <3>1
  <2>3. to(0) = 0
    BY <1>5, <1>6, <1>8
  <2>4. \A k \in 0 .. m : End(d + k) \in Nat /\ e <= End(d + k) /\ End(d + k) <= z
    <3> TAKE k \in 0 .. m
    <3>1. k = 0 \/ End(d + 0) < End(d + k)
      BY <2>2
    <3>2. k = m \/ End(d + k) < End(d + m)
      BY <2>2
    <3>3. End(d + k) \in Nat /\ End(d + m) \in Nat /\ End(d + 0) = e
      <4>1. d + k \in 0 .. N /\ d + m \in 0 .. N /\ d + 0 = d
        BY <2>1
      <4> QED
        BY <1>5, <1>8, <4>1
    <3> QED
      BY <1>10, <3>1, <3>2, <3>3
  <2>5. ASSUME NEW k \in 1 .. m PROVE to(k) = to(k - 1) + Len(written[d + k].text) + 1
    <3>1. PICK i \in 0 .. m : i = k - 1
      OBVIOUS
    <3>2. PICK q \in 1 .. N : q = d + k /\ q - 1 = d + i
      BY <1>10, <3>1
    <3>3. PICK w \in Nat : w = Len(written[q].text) /\ End(q) = End(q - 1) + w + 1
      BY <1>5
    <3>4. PICK x \in Nat, y \in Nat : x = End(q - 1) /\ y = End(q)
      <4>1. q \in 0 .. N /\ q - 1 \in 0 .. N
        OBVIOUS
      <4> QED
        BY <1>5, <4>1
    <3>5. End(d + k) - e = (End(d + i) - e) + w + 1
      <4>0. y = x + w + 1
        BY <3>3, <3>4
      <4>1. y - e = (x - e) + w + 1
        BY <4>0
      <4> QED
        BY <3>2, <3>4, <4>1
    <3>6. to(k - 1) = End(d + i) - e
      BY <3>1
    <3> QED
      BY <3>2, <3>3, <3>5, <3>6
  <2>6. \A i, j \in 0 .. m : i < j => to(i) < to(j)
    <3> TAKE i, j \in 0 .. m
    <3>1. End(d + i) \in Nat /\ End(d + j) \in Nat /\ (i < j => End(d + i) < End(d + j))
      BY <2>2, <2>4
    <3> QED
      BY <1>8, <3>1
  <2>7. \A k \in 0 .. m : to(k) \in Nat /\ End(d + k) = e + to(k) /\ to(k) <= z - e
    <3> TAKE k \in 0 .. m
    <3>1. End(d + k) \in Nat /\ e <= End(d + k) /\ End(d + k) <= z
      BY <2>4
    <3> QED
      BY <1>8, <3>1
  <2> HIDE DEF to
  <2> QED
    BY <2>1, <2>3, <2>5, <2>6, <2>7
\* The newlines of the line are their ends.
<1>12. \A i \in 1 .. Len(line) : line[i] = "n" <=> \E k \in 1 .. m : to(k) = i
  <2> TAKE i \in 1 .. Len(line)
  <2>1. PICK p \in 1 .. z : p = e + i
    BY <1>8, <1>9
  <2>2. p \in 1 .. Len(stream)
    BY <1>4, <1>5
  <2>3. line[i] = "n" <=> stream[p] = "n"
    <3>1. line[i] = Reading(p)'
      BY <1>9, <2>1
    <3> QED
      BY <1>7, <3>1
  <2>4. ASSUME stream[p] = "n" PROVE \E k \in 1 .. m : to(k) = i
    <3>1. PICK q \in 1 .. Len(written) : End(q - 1) < p /\ p <= End(q)
      BY <2>2, PlaceOf
    <3>2. p = End(q)
      BY <2>4, <3>1, Contents
    <3>3. q \in 0 .. N
      BY <1>1, <3>1
    <3>4. q > d
      <4>1. q = d \/ q > d \/ (q < d /\ End(q) < End(d))
        BY <1>5, <1>6, <3>3
      <4>2. End(q) > End(d)
        BY <1>8, <2>1, <3>2
      <4> QED
        BY <1>5, <1>6, <3>3, <4>1, <4>2
    <3>5. q <= d + m
      <4> SUFFICES ASSUME q > d + m PROVE FALSE
        BY <3>3
      <4>1. d + m + 1 \in 0 .. N /\ d + m < N /\ q >= d + m + 1
        BY <3>3
      <4>2. End(d + m + 1) <= End(q)
        <5>1. q = d + m + 1 \/ End(d + m + 1) < End(q)
          BY <1>5, <3>3, <4>1
        <5> QED
          BY <1>5, <3>3, <4>1, <5>1
      <4>3. End(q) <= z /\ z < End(d + m + 1) /\ End(q) \in Nat /\ End(d + m + 1) \in Nat
        BY <1>5, <1>10, <3>2, <3>3, <4>1
      <4> QED
        BY <4>2, <4>3
    <3>6. PICK k \in 1 .. m : q = d + k
      <4>1. q - d \in 1 .. m /\ q = d + (q - d)
        BY <3>3, <3>4, <3>5
      <4> QED
        BY <4>1
    <3>7. to(k) = i
      BY <1>8, <2>1, <3>2, <3>6
    <3> QED
      BY <3>7
  <2>5. ASSUME NEW k \in 1 .. m, to(k) = i PROVE stream[p] = "n"
    <3>1. d + k \in 1 .. N /\ End(d + k) = p
      <4>1. k \in 0 .. m /\ End(d + k) = e + to(k)
        BY <1>11
      <4>2. d + k \in 1 .. N
        BY <1>10
      <4> QED
        BY <2>1, <2>5, <4>1, <4>2
    <3>2. stream[End(d + k)] = "n"
      BY <1>1, <3>1 DEF LaidOut
    <3> QED
      BY <3>1, <3>2
  <2> HIDE DEF to
  <2> QED
    BY <2>3, <2>4, <2>5
<1> HIDE DEF to
<1> DEFINE lines == Split(line, "n")
           brought == [k \in 1 .. m |-> SubSeq(line, to(k - 1) + 1, to(k) - 1)]
<1>13. /\ DOMAIN lines = 1 .. m + 1 /\ Len(lines) = m + 1
       /\ \A k \in 1 .. m : lines[k] = SubSeq(line, to(k - 1) + 1, to(k) - 1)
       /\ lines[m + 1] = SubSeq(line, to(m) + 1, Len(line))
  <2> DEFINE cut == [k \in 0 .. m + 1 |-> IF k = m + 1 THEN Len(line) + 1 ELSE to(k)]
  <2>0. Len(line) \in Nat /\ Len(line) = z - e
    BY <1>9
  <2>1. \A k \in 0 .. m : cut[k] = to(k) /\ to(k) \in Nat /\ to(k) <= Len(line)
    <3> TAKE k \in 0 .. m
    <3>1. k \in 0 .. m + 1 /\ k # m + 1
      OBVIOUS
    <3> QED
      BY <1>11, <2>0, <3>1
  <2>2. cut[m + 1] = Len(line) + 1 /\ cut \in [0 .. m + 1 -> Nat] /\ cut[0] = 0
    BY <1>11, <2>0, <2>1
  <2> HIDE DEF cut
  <2>3. \A i, j \in 0 .. m + 1 : i < j => cut[i] < cut[j]
    <3> TAKE i, j \in 0 .. m + 1
    <3>1. CASE j = m + 1
      <4>1. i < j => i \in 0 .. m
        BY <3>1
      <4> QED
        BY <2>0, <2>1, <2>2, <3>1, <4>1
    <3>2. CASE j # m + 1
      <4>1. i < j => i \in 0 .. m /\ j \in 0 .. m
        BY <3>2
      <4> QED
        BY <1>11, <2>1, <4>1
    <3> QED
      BY <3>1, <3>2
  <2>4. \A i \in 1 .. Len(line) : line[i] = "n" <=> \E k \in 1 .. m : cut[k] = i
    <3>1. \A k \in 1 .. m : cut[k] = to(k)
      BY <2>1
    <3> QED
      BY <1>12, <3>1
  <2>5. line \in Seq(Byte \cup {"n"}) /\ m \in Nat
    BY <1>9
  <2>6. /\ DOMAIN lines = 1 .. m + 1 /\ Len(lines) = m + 1
        /\ \A k \in 1 .. m + 1 : lines[k] = SubSeq(line, cut[k - 1] + 1, cut[k] - 1)
    <3>0. PICK S : S = Byte \cup {"n"}
      OBVIOUS
    <3>1. PICK t \in Seq(S) : t = line
      BY <2>5, <3>0
    <3>2. PICK f \in [0 .. m + 1 -> Nat] : f = cut
      BY <2>2
    <3>3. PICK sep : sep = "n"
      OBVIOUS
    <3>4. Cuts(t, sep, m, f)
      BY <2>2, <2>3, <2>4, <3>1, <3>2, <3>3 DEF Cuts
    <3>5. Split(t, sep) = CutAt(t, f, m)
      BY <3>4, SplitAt
    <3>6. lines = CutAt(line, cut, m)
      BY <3>1, <3>2, <3>3, <3>5
    <3> HIDE DEF lines
    <3>7. lines = [k \in 1 .. m + 1 |-> SubSeq(line, cut[k - 1] + 1, cut[k] - 1)]
      BY <3>6 DEF CutAt
    <3>8. DOMAIN lines = 1 .. m + 1
      BY <3>7
    <3>9. Len(lines) = m + 1
      BY <3>7
    <3>10. \A k \in 1 .. m + 1 : lines[k] = SubSeq(line, cut[k - 1] + 1, cut[k] - 1)
      BY <3>7, Zenon
    <3> QED
      BY <3>8, <3>9, <3>10
  <2> HIDE DEF lines
  <2>7. ASSUME NEW k \in 1 .. m PROVE lines[k] = SubSeq(line, to(k - 1) + 1, to(k) - 1)
    <3>1. k - 1 \in 0 .. m /\ k \in 0 .. m /\ k \in 1 .. m + 1
      OBVIOUS
    <3> QED
      BY <2>1, <2>6, <3>1
  <2>8. lines[m + 1] = SubSeq(line, to(m) + 1, Len(line))
    <3>1. (m + 1) - 1 = m /\ m \in 0 .. m /\ m + 1 \in 1 .. m + 1 /\ (Len(line) + 1) - 1 = Len(line)
      BY <2>0
    <3> QED
      BY <2>1, <2>2, <2>6, <3>1
  <2> QED
    BY <2>6, <2>7, <2>8
<1>14. Front(lines) = brought /\ Last(lines) = SubSeq(line, to(m) + 1, Len(line))
  <2>1. Len(lines) - 1 = m
    BY <1>13
  <2>2. Front(lines) = [k \in 1 .. m |-> lines[k]]
    BY <2>1 DEF Front
  <2> HIDE DEF lines
  <2> QED
    BY <1>13, <2>2 DEF Last
<1>15. ASSUME NEW k \in 1 .. m
       PROVE  /\ brought[k] \in Seq(Byte) /\ brought[k] # <<>>
              /\ Len(brought[k]) = Len(written[d + k].text)
              /\ \A j \in 1 .. Len(brought[k]) : brought[k][j] = Reading(End(d + k - 1) + j)'
  <2>1. PICK w \in Nat \ {0}, x \in Nat, y \in Nat :
            /\ w = Len(written[d + k].text) /\ x = to(k - 1) /\ y = to(k)
            /\ y = x + w + 1 /\ y <= z - e /\ \A i \in x + 1 .. y - 1 : i - x \in 1 .. w
    <3>1. d + k \in 1 .. N /\ k - 1 \in 0 .. m /\ k \in 0 .. m
      BY <1>10
    <3>2. to(k) = to(k - 1) + Len(written[d + k].text) + 1 /\ to(k - 1) \in Nat /\ to(k) \in Nat /\ to(k) <= z - e
      BY <1>11, <3>1
    <3>3. Len(written[d + k].text) \in Nat \ {0}
      BY <1>5, <3>1
    <3> QED
      BY <3>2, <3>3, SMTT(40)
  <2>2. brought[k] = SubSeq(line, x + 1, y - 1)
    BY <2>1
  <2>3. ASSUME NEW j \in 1 .. w PROVE line[x + j] \in Byte /\ line[x + j] = Reading(e + (x + j))'
    <3>1. PICK i \in 1 .. z - e : i = x + j
      BY <2>1
    <3>2. line[i] \in Byte \cup {"n"} /\ line[i] = Reading(e + i)' /\ i \in 1 .. Len(line)
      BY <1>9
    <3>3. ASSUME NEW q \in 1 .. m, to(q) = i PROVE FALSE
      <4>1. q = k - 1 \/ q = k \/ to(q) < to(k - 1) \/ to(k) < to(q)
        BY <1>11
      <4>2. y = x + w + 1
        BY <2>1
      <4>3. x < i /\ i < y
        BY <3>1, <4>2
      <4>4. i = x \/ i = y \/ i < x \/ y < i
        BY <2>1, <3>3, <4>1
      <4> QED
        BY <4>3, <4>4
    <3>4. line[i] # "n"
      BY <1>12, <3>2, <3>3
    <3> QED
      BY <3>1, <3>2, <3>4
  <2>4. \A i \in x + 1 .. y - 1 : line[i] \in Byte
    <3> TAKE i \in x + 1 .. y - 1
    <3>1. i - x \in 1 .. w /\ x + (i - x) = i
      BY <2>1
    <3> QED
      BY <2>3, <3>1
  <2>5. /\ brought[k] \in Seq(Byte) /\ Len(brought[k]) = w
        /\ \A j \in 1 .. w : brought[k][j] = line[x + j]
    <3>1. /\ SubSeq(line, x + 1, y - 1) \in Seq(Byte)
          /\ Len(SubSeq(line, x + 1, y - 1)) = IF x + 1 <= y - 1 THEN (y - 1) - (x + 1) + 1 ELSE 0
          /\ \A j \in 1 .. (y - 1) - (x + 1) + 1 : SubSeq(line, x + 1, y - 1)[j] = line[(x + 1) + j - 1]
      BY <2>4, SubSeqProperties
    <3>2. x + 1 <= y - 1 /\ (y - 1) - (x + 1) + 1 = w /\ \A j \in 1 .. w : (x + 1) + j - 1 = x + j
      <4>1. y = x + w + 1
        BY <2>1
      <4> QED
        BY <4>1
    <3> HIDE DEF brought
    <3> QED
      BY <2>2, <3>1, <3>2
  <2> HIDE DEF brought
  <2>6. ASSUME NEW j \in 1 .. w PROVE brought[k][j] = Reading(End(d + k - 1) + j)'
    <3>1. PICK p \in Nat : p = e + (x + j)
      OBVIOUS
    <3>2. p = (End(d + k - 1) + j)'
      <4>1. k - 1 \in 0 .. m /\ d + (k - 1) = d + k - 1 /\ d + (k - 1) \in 0 .. N
        BY <1>10
      <4>2. End(d + (k - 1)) = e + x /\ End(d + (k - 1))' = End(d + (k - 1))
        BY <1>5, <1>11, <2>1, <4>1
      <4> QED
        BY <3>1, <4>1, <4>2
    <3>3. Reading(p)' = Reading(End(d + k - 1) + j)'
      BY <3>2 DEF Reading, Torn
    <3>4. Reading(e + (x + j))' = Reading(p)'
      BY <3>1
    <3> QED
      BY <2>3, <2>5, <3>3, <3>4
  <2>7. brought[k] # <<>>
    BY <2>5, EmptySeq
  <2> QED
    BY <2>1, <2>5, <2>6, <2>7
<1> HIDE DEF lines
<1>16. messages' = messages \o brought /\ buffer' = SubSeq(line, to(m) + 1, Len(line))
  <2>1. NotBlank(brought) = brought
    <3>1. brought \in [1 .. m -> Seq(Byte)]
      BY <1>15
    <3>2. \A k \in 1 .. m : brought[k] # <<>>
      BY <1>15
    <3> HIDE DEF brought
    <3> QED
      BY <3>1, <3>2, NoneBlank
  <2> QED
    BY <1>3, <1>14, <2>1 DEF TakeText, lines, line
<1>17. /\ messages' \in Seq(Seq(Byte)) /\ Len(messages') = d + m
       /\ \A k \in 1 .. d : messages'[k] = messages[k]
       /\ \A k \in 1 .. m : messages'[d + k] = brought[k]
  <2>1. brought \in Seq(Seq(Byte)) /\ Len(brought) = m
    BY <1>15
  <2>2. messages \in Seq(Seq(Byte)) /\ Len(messages) = d
    BY <1>1 DEF FramingTypes, Done
  <2> HIDE DEF brought
  <2>3. /\ messages \o brought \in Seq(Seq(Byte)) /\ Len(messages \o brought) = d + m
        /\ \A i \in 1 .. d + m : (messages \o brought)[i] = IF i <= d THEN messages[i] ELSE brought[i - d]
    BY <2>1, <2>2, ConcatProperties
  <2>4. \A k \in 1 .. d : k \in 1 .. d + m
    OBVIOUS
  <2>5. \A k \in 1 .. m : d + k \in 1 .. d + m /\ ~(d + k <= d) /\ (d + k) - d = k
    OBVIOUS
  <2> QED
    BY <1>16, <2>3, <2>4, <2>5, SMTT(40)
<1> HIDE DEF brought
<1>18. /\ buffer' \in Seq(Byte) /\ Len(buffer') = z - End(d + m)
       /\ \A j \in 1 .. Len(buffer') : buffer'[j] = Reading(End(d + m) + j)'
  <2>1. PICK x \in Nat : x = to(m) /\ x <= z - e /\ End(d + m) = e + x /\ d + m \in 0 .. N
    <3>1. m \in 0 .. m
      OBVIOUS
    <3> QED
      BY <1>11, <3>1
  <2>2. ASSUME NEW i \in x + 1 .. z - e PROVE line[i] \in Byte
    <3>1. i \in 1 .. Len(line) /\ line[i] \in Byte \cup {"n"}
      BY <1>9
    <3>2. ASSUME NEW q \in 1 .. m, to(q) = i PROVE FALSE
      <4>1. q = m \/ to(q) < to(m)
        BY <1>11
      <4> QED
        BY <2>1, <3>2, <4>1
    <3> QED
      BY <1>12, <3>1, <3>2
  <2>3. PICK l \in Nat : l = z - e
    BY <1>4, <1>8
  <2>4. /\ SubSeq(line, x + 1, l) \in Seq(Byte)
        /\ Len(SubSeq(line, x + 1, l)) = IF x + 1 <= l THEN l - (x + 1) + 1 ELSE 0
        /\ \A j \in 1 .. l - (x + 1) + 1 : SubSeq(line, x + 1, l)[j] = line[(x + 1) + j - 1]
    BY <2>2, <2>3, SubSeqProperties
  <2>5. buffer' = SubSeq(line, x + 1, l)
    BY <1>9, <1>16, <2>1, <2>3
  <2>6. l - (x + 1) + 1 = l - x /\ (IF x + 1 <= l THEN l - (x + 1) + 1 ELSE 0) = l - x
    BY <2>1, <2>3
  <2>7. /\ buffer' \in Seq(Byte) /\ Len(buffer') = l - x
        /\ \A j \in 1 .. l - x : buffer'[j] = line[(x + 1) + j - 1]
    BY <2>4, <2>5, <2>6
  <2>8. ASSUME NEW j \in 1 .. l - x PROVE buffer'[j] = Reading(End(d + m) + j)'
    <3>1. PICK i \in 1 .. z - e : i = x + j /\ (x + 1) + j - 1 = i
      <4>1. x + j \in 1 .. l /\ (x + 1) + j - 1 = x + j
        OBVIOUS
      <4> QED
        BY <2>3, <4>1
    <3>2. PICK p \in Nat : p = e + i
      OBVIOUS
    <3>3. End(d + m)' = End(d + m)
      BY <1>5, <2>1
    <3>4. p = (End(d + m) + j)'
      BY <2>1, <3>1, <3>2, <3>3
    <3>5. Reading(p)' = Reading(End(d + m) + j)'
      BY <3>4 DEF Reading, Torn
    <3>6. line[i] = Reading(p)'
      BY <1>9, <3>2
    <3> QED
      BY <2>7, <3>1, <3>5, <3>6
  <2>9. l - x = z - End(d + m)
    BY <1>4, <1>8, <2>1, <2>3
  <2> QED
    BY <2>7, <2>8, <2>9
<1>19. FramingTypes'
  <2>1. arrived' \in 0 .. Len(stream') /\ boundaries' \subseteq 1 .. arrived'
    BY <1>3, FrameFacts DEF OnData, FramingTypes
  <2> QED
    BY <1>3, <1>17, <1>18, <2>1 DEF FramingTypes
<1>20. LaidOut'
  BY <1>3 DEF LaidOut, End
<1>21. ReadSoFar'
  <2>1. Done' = d + m /\ Seen' = z /\ Len(written') = N
    BY <1>1, <1>3, <1>4, <1>17 DEF Done
  <2>2. d + m <= N /\ End(d + m)' <= z /\ (d + m < N => z < End(d + m + 1)')
    <3>1. d + m \in 0 .. N /\ (d + m < N => d + m + 1 \in 0 .. N)
      BY <1>10
    <3> QED
      BY <1>5, <1>10, <3>1
  <2>3. ASSUME NEW k \in 1 .. d + m
        PROVE  /\ Len(messages'[k]) = Len(written'[k].text)
               /\ \A j \in 1 .. Len(messages'[k]) : messages'[k][j] = Reading(End(k - 1) + j)'
    <3>1. CASE k <= d
      <4>1. k \in 1 .. d /\ k \in 1 .. N /\ k - 1 \in 0 .. N /\ k \in 0 .. N /\ d \in 0 .. N
        BY <1>6, <3>1
      <4>2. messages'[k] = messages[k] /\ Len(messages[k]) = Len(written[k].text)
        BY <1>6, <1>17, <4>1
      <4>3. ASSUME NEW j \in 1 .. Len(messages[k]) PROVE messages[k][j] = Reading(End(k - 1) + j)'
        <5>1. PICK w \in Nat : w = Len(messages[k]) /\ End(k) = End(k - 1) + w + 1
          BY <1>5, <4>1, <4>2
        <5>2. End(k) <= End(d)
          <6>1. k = d \/ End(k) < End(d)
            BY <1>5, <4>1
          <6> QED
            BY <1>5, <4>1, <6>1
        <5>3. PICK p \in 1 .. s : p = End(k - 1) + j
          <6>1. End(k - 1) \in Nat /\ End(k) \in Nat /\ End(d) \in Nat /\ End(d) <= s /\ j \in 1 .. w
            BY <1>5, <1>6, <4>1, <5>1
          <6> QED
            BY <5>1, <5>2, <6>1
        <5>4. messages[k][j] = Reading(p)
          BY <1>6, <4>1, <5>3
        <5>5. Reading(p)' = Reading(p)
          BY <1>7
        <5>6. p = (End(k - 1) + j)'
          BY <1>5, <4>1, <5>3
        <5>7. Reading(End(k - 1) + j)' = Reading(p)'
          BY <5>6 DEF Reading, Torn
        <5> QED
          BY <5>4, <5>5, <5>7
      <4> QED
        BY <1>3, <4>2, <4>3
    <3>2. CASE ~(k <= d)
      <4>1. PICK i \in 1 .. m : k = d + i
        BY <3>2
      <4>2. messages'[k] = brought[i]
        BY <1>17, <4>1
      <4> QED
        BY <1>3, <1>15, <4>1, <4>2
    <3> QED
      BY <3>1, <3>2
  <2>4. End(d + m)' = End(d + m)
    BY <1>5, <1>10
  <2>5. End(Done)' = End(d + m)' /\ End(Done + 1)' = End(d + m + 1)'
    BY <2>1 DEF End
  <2>6. \A j \in 1 .. Len(buffer') : Reading(End(Done) + j)' = Reading(End(d + m) + j)'
    BY <2>5 DEF Reading, Torn
  <2> QED
    BY <1>18, <2>1, <2>2, <2>3, <2>4, <2>5, <2>6 DEF ReadSoFar
<1> QED
  BY <1>2, <1>19, <1>20, <1>21

LEMMA FramingStep == FramingInv /\ [FramingNext]_framingVars => FramingInv'
<1> SUFFICES ASSUME FramingInv, [FramingNext]_framingVars PROVE FramingInv'
  OBVIOUS
<1>1. ASSUME NEW frame \in Frames, Write(frame) PROVE FramingInv'
  BY <1>1, WriteStep
<1>2. ASSUME NEW n \in 1 .. Len(stream) - arrived, OnData(n) PROVE FramingInv'
  BY <1>2, OnDataStep
<1>3. CASE UNCHANGED framingVars
  BY <1>3, SMTT(40) DEF framingVars, FramingInv, FramingTypes, LaidOut, CutsKnown, ReadSoFar, Seen, Done, End, Reading, Torn
<1> QED
  BY <1>1, <1>2, <1>3 DEF FramingNext

\* The frames that have arrived whole are the first Done ones.
LEMMA WholeFrames ==
    ASSUME FramingInv
    PROVE  Len(messages) = Cardinality({k \in DOMAIN written : written[k].end <= arrived})
<1>1. PICK d \in Nat, N \in Nat : d = Done /\ N = Len(written) /\ d <= N
  BY FrameFacts DEF FramingInv, ReadSoFar, Done
<1>2. PICK a \in Nat, z \in Nat : a = arrived /\ z = Seen /\ z <= a /\ a <= z + 1
                                 /\ (a = z + 1 => stream[a] = "E1")
  <2>1. PICK a \in Nat : a = arrived
    BY FrameFacts DEF FramingInv
  <2>2. PICK h \in 0 .. 1 : h = Len(held) /\ h <= a /\ (h = 1 => stream[a] = "E1")
    BY <2>1, HeldIs DEF FramingInv
  <2>3. PICK z \in Nat : z = a - h
    BY <2>2
  <2>4. z = Seen
    BY <2>1, <2>2, <2>3 DEF Seen
  <2>5. z <= a /\ a <= z + 1 /\ (a = z + 1 => h = 1)
    BY <2>2, <2>3
  <2> QED
    BY <2>1, <2>2, <2>4, <2>5
<1>3. /\ \A k \in 1 .. N : End(k) = written[k].end /\ End(k) \in Nat /\ stream[End(k)] = "n"
      /\ \A i, j \in 1 .. N : i < j => End(i) < End(j)
      /\ d > 0 => End(d) <= z
      /\ d < N => z < End(d + 1)
  <2>1. \A k \in 1 .. N : End(k) = written[k].end /\ End(k) \in Nat
    BY <1>1, FrameFacts DEF FramingInv
  <2>2. /\ \A k \in 1 .. N : stream[End(k)] = "n"
        /\ \A i, j \in 0 .. N : i < j => End(i) < End(j)
    BY <1>1 DEF FramingInv, LaidOut
  <2>3. End(d) <= z /\ (d < N => z < End(d + 1))
    BY <1>1, <1>2 DEF FramingInv, ReadSoFar
  <2> QED
    BY <2>1, <2>2, <2>3
<1>4. ASSUME NEW k \in 1 .. N PROVE End(k) <= a <=> k <= d
  <2>1. CASE k <= d
    <3>1. k = d \/ End(k) < End(d)
      BY <1>1, <1>3, <2>1
    <3>2. d \in 1 .. N /\ End(d) \in Nat /\ End(k) \in Nat /\ End(d) <= z
      BY <1>1, <1>3, <2>1
    <3> QED
      BY <1>2, <2>1, <3>1, <3>2
  <2>2. CASE k > d
    <3>1. d < N /\ d + 1 \in 1 .. N
      BY <1>1, <2>2
    <3>2. k = d + 1 \/ End(d + 1) < End(k)
      BY <1>3, <2>2, <3>1
    <3>3. z < End(k) /\ End(k) \in Nat /\ End(k) # a
      <4>1. End(d + 1) \in Nat /\ End(k) \in Nat /\ z < End(d + 1)
        BY <1>3, <3>1
      <4>2. z < End(k)
        BY <1>2, <3>2, <4>1
      <4>3. End(k) = a => a = z + 1
        BY <1>2, <4>2
      <4>4. stream[End(k)] = "n"
        BY <1>3
      <4>5. End(k) # a
        BY <1>2, <4>3, <4>4
      <4> QED
        BY <4>1, <4>2, <4>5
    <3> QED
      BY <1>2, <2>2, <3>3
  <2> QED
    BY <1>1, <2>1, <2>2
<1>5. {k \in DOMAIN written : written[k].end <= arrived} = 1 .. d
  <2>1. DOMAIN written = 1 .. N
    BY <1>1 DEF FramingInv, FramingTypes
  <2>2. \A k \in 1 .. N : written[k].end <= arrived <=> k <= d
    BY <1>2, <1>3, <1>4
  <2> QED
    BY <1>1, <2>1, <2>2
<1>6. Cardinality(1 .. d) = d
  BY FS_Interval
<1> QED
  BY <1>1, <1>5, <1>6 DEF Done

\* The inductive invariant of a stream of frames holds in every reachable state:
\* what is buffered, held back and parsed is what has arrived, cut at the newlines.
THEOREM FramingInvHolds == FramingSpec => []FramingInv
<1> QED
  BY FramingStarts, FramingStep, PTL DEF FramingSpec

\* However the stream is cut into chunks, what has been parsed is what was written:
\* every message whose newline has arrived, in order, and with the stateful decoder
\* the very same bytes; nothing is left over at the end.
THEOREM FramesAreReassembled == FramingSpec => []FramesReassembled
<1>1. FramingInv => FramesReassembled
  <2> SUFFICES ASSUME FramingInv PROVE FramesReassembled
    OBVIOUS
  <2>1. PICK N \in Nat, d \in Nat : N = Len(written) /\ d = Len(messages) /\ d <= N
    BY FrameFacts DEF FramingInv, ReadSoFar, Done
  <2>2. DOMAIN messages = 1 .. d /\ \A k \in 1 .. d : messages[k] \in Seq(Byte)
    BY <2>1 DEF FramingInv, FramingTypes
  <2>3. ASSUME NEW k \in 1 .. d
        PROVE  /\ messages[k] = [j \in DOMAIN written[k].text |-> Reading(End(k - 1) + j)]
               /\ decoder = "stream" => messages[k] = written[k].text
    <3>1. k \in 1 .. N /\ written[k].text \in Seq(Byte)
      BY <2>1, FrameFacts DEF FramingInv
    <3>2. PICK w \in Nat : w = Len(written[k].text)
      BY <2>1, <3>1, FrameFacts DEF FramingInv
    <3>3. /\ Len(messages[k]) = w /\ DOMAIN messages[k] = 1 .. w /\ DOMAIN written[k].text = 1 .. w
          /\ \A j \in 1 .. w : messages[k][j] = Reading(End(k - 1) + j)
      BY <2>1, <2>2, <3>1, <3>2 DEF FramingInv, ReadSoFar, Done
    <3>4. messages[k] = [j \in 1 .. w |-> messages[k][j]]
      BY <2>2, <3>3
    <3>5. messages[k] = [j \in DOMAIN written[k].text |-> Reading(End(k - 1) + j)]
      BY <3>3, <3>4
    <3>6. ASSUME decoder = "stream" PROVE messages[k] = written[k].text
      <4>1. \A j \in 1 .. w : messages[k][j] = stream[End(k - 1) + j]
        BY <3>3, <3>6 DEF Reading
      <4>2. \A j \in 1 .. w : stream[End(k - 1) + j] = written[k].text[j]
        BY <2>1, <3>1, <3>2 DEF FramingInv, LaidOut
      <4>3. \A j \in 1 .. w : messages[k][j] = written[k].text[j]
        BY <4>1, <4>2
      <4> QED
        BY <2>2, <3>1, <3>2, <3>3, <4>3, SeqEqual
    <3> QED
      BY <3>5, <3>6
  <2>4. ASSUME arrived = Len(stream) PROVE buffer = <<>> /\ held = <<>>
    <3>1. PICK a \in Nat : a = arrived /\ a = Len(stream)
      BY <2>4, FrameFacts DEF FramingInv
    <3>2. /\ End(N) = a /\ End(0) = 0
          /\ \A i, j \in 0 .. N : i < j => End(i) < End(j)
          /\ \A k \in 1 .. N : stream[End(k)] = "n"
      BY <2>1, <3>1, FrameFacts DEF FramingInv, LaidOut
    <3>3. a > 0 => stream[a] = "n"
      BY <3>2
    <3>4. held = <<>> /\ Len(held) = 0
      <4>1. ~(decoder = "stream" /\ arrived > 0 /\ stream[arrived] = "E1")
        BY <3>1, <3>3
      <4> QED
        BY <4>1, HeldIs DEF FramingInv
    <3>5. Seen = a
      BY <3>1, <3>4 DEF Seen
    <3>6. d = N
      <4> SUFFICES ASSUME d < N PROVE FALSE
        BY <2>1
      <4>1. a < End(d + 1)
        BY <2>1, <3>5 DEF FramingInv, ReadSoFar, Done
      <4>2. d + 1 = N \/ End(d + 1) < End(N)
        BY <3>2
      <4>3. d + 1 \in 1 .. N /\ End(d + 1) \in Nat
        BY <2>1, FrameFacts DEF FramingInv
      <4> QED
        BY <3>2, <4>1, <4>2, <4>3
    <3>7. Len(buffer) = 0
      <4>1. Len(buffer) = Seen - End(Done)
        BY DEF FramingInv, ReadSoFar
      <4>2. End(Done) = a
        BY <2>1, <3>2, <3>6 DEF Done
      <4> QED
        BY <3>5, <4>1, <4>2
    <3>8. buffer = <<>>
      BY <3>7, EmptySeq DEF FramingInv, FramingTypes
    <3> QED
      BY <3>4, <3>8
  <2> QED
    BY <2>1, <2>2, <2>3, <2>4, WholeFrames DEF FramesReassembled
<1> QED
  BY <1>1, FramingInvHolds, PTL


(***************************************************************************)
(* Some elements of a sequence, and sequences one after the other.         *)
(***************************************************************************)
\* at numbers the members of S from the least to the greatest.
Orders(n, at, S) ==
    /\ n \in Nat /\ at \in [1 .. n -> S]
    /\ \A i, j \in 1 .. n : i < j => at[i] < at[j]
    /\ \A x \in S : \E k \in 1 .. n : at[k] = x

LEMMA AscendingOrders ==
    ASSUME NEW N \in Nat, NEW S \in SUBSET (1 .. N)
    PROVE  \E n : Orders(n, Ascending(S), S)
<1> DEFINE t == [i \in 1 .. N |-> IF i \in S THEN 1 ELSE 0]
<1>1. t \in Seq({0, 1}) /\ Len(t) = N /\ \A i \in 1 .. N : t[i] = 1 <=> i \in S
  OBVIOUS
<1> HIDE DEF t
<1>2. PICK n \in Nat : \E cut : Cuts(t, 1, n, cut)
  BY <1>1, CutsOf
<1>3. PICK cut : Cuts(t, 1, n, cut)
  BY <1>2
<1>4. /\ cut \in [0 .. n + 1 -> Nat] /\ cut[0] = 0 /\ cut[n + 1] = N + 1
      /\ \A i, j \in 0 .. n + 1 : i < j => cut[i] < cut[j]
      /\ \A i \in 1 .. N : i \in S <=> \E k \in 1 .. n : cut[k] = i
  BY <1>1, <1>3 DEF Cuts
<1> DEFINE at == [k \in 1 .. n |-> cut[k]]
<1>5. \A k \in 1 .. n : at[k] = cut[k] /\ at[k] \in S
  <2> TAKE k \in 1 .. n
  <2>1. k \in 0 .. n + 1 /\ 0 \in 0 .. n + 1 /\ n + 1 \in 0 .. n + 1 /\ 0 < k /\ k < n + 1
    OBVIOUS
  <2>2. cut[0] < cut[k] /\ cut[k] < cut[n + 1] /\ cut[k] \in Nat
    BY <1>4, <2>1
  <2>3. cut[k] \in 1 .. N
    BY <1>4, <2>2
  <2> QED
    BY <1>4, <2>3
<1>6. \A i, j \in 1 .. n : i < j => at[i] < at[j]
  BY <1>4, <1>5
<1>7. \A x \in S : \E k \in 1 .. n : at[k] = x
  BY <1>4, <1>5
<1>8. at \in [1 .. n -> S] /\ at \in [1 .. n -> Nat]
  <2>1. S \subseteq Nat
    OBVIOUS
  <2>2. \A k \in 1 .. n : at[k] \in S
    BY <1>5
  <2>3. \A k \in 1 .. n : at[k] \in Nat
    BY <2>1, <2>2
  <2> QED
    BY <2>2, <2>3
<1> HIDE DEF at
<1>9. S = {at[k] : k \in 1 .. n}
  BY <1>7, <1>8
<1>10. Ascending(S) = at
  BY <1>6, <1>8, <1>9, AscendingIs
<1>11. Orders(n, Ascending(S), S)
  BY <1>6, <1>7, <1>8, <1>10 DEF Orders
<1> QED
  BY <1>11

\* Keep holds the elements at the positions given, and no others.
LEMMA KeepIs ==
    ASSUME NEW X, NEW s \in Seq(X), NEW S \in SUBSET (DOMAIN s)
    PROVE  /\ Keep(s, S) \in Seq(X)
           /\ ToSet(Keep(s, S)) = {s[i] : i \in S}
<1>1. PICK N \in Nat : N = Len(s) /\ DOMAIN s = 1 .. N
  OBVIOUS
<1>2. PICK n : Orders(n, Ascending(S), S)
  BY <1>1, AscendingOrders
<1>3. PICK at : at = Ascending(S)
  OBVIOUS
<1>4. /\ n \in Nat /\ at \in [1 .. n -> S]
      /\ \A x \in S : \E k \in 1 .. n : at[k] = x
  BY <1>2, <1>3 DEF Orders
<1>5. Keep(s, S) = [k \in 1 .. n |-> s[at[k]]]
  BY <1>3, <1>4 DEF Keep
<1>6. \A k \in 1 .. n : at[k] \in S /\ s[at[k]] \in X
  BY <1>1, <1>4
<1>7. Keep(s, S) \in Seq(X) /\ DOMAIN Keep(s, S) = 1 .. n
  BY <1>4, <1>5, <1>6
<1>8. ToSet(Keep(s, S)) = {s[at[k]] : k \in 1 .. n}
  BY <1>5, <1>7 DEF ToSet
<1>9. {s[at[k]] : k \in 1 .. n} = {s[i] : i \in S}
  BY <1>4, <1>6
<1> QED
  BY <1>7, <1>8, <1>9

\* Keeping everything.
LEMMA KeepAll ==
    ASSUME NEW X, NEW s \in Seq(X)
    PROVE  Keep(s, DOMAIN s) = s
<1>1. PICK n \in Nat : n = Len(s) /\ DOMAIN s = 1 .. n
  OBVIOUS
<1> DEFINE at == [i \in 1 .. n |-> i]
<1>2. DOMAIN s = {at[i] : i \in 1 .. n}
  BY <1>1
<1>3. Ascending(DOMAIN s) = at
  BY <1>2, AscendingIs
<1>4. s = [i \in 1 .. n |-> s[i]]
  BY <1>1
<1> QED
  BY <1>3, <1>4 DEF Keep

\* No element is there twice.
Distinct(s) == \A i, j \in DOMAIN s : s[i] = s[j] => i = j

\* Sequences that share nothing, each without repetition.
Apart(seqs) ==
    /\ \A i \in 1 .. Len(seqs) : Distinct(seqs[i])
    /\ \A i, j \in 1 .. Len(seqs) : ToSet(seqs[i]) \cap ToSet(seqs[j]) # {} => i = j

LEMMA ConcatDistinct ==
    ASSUME NEW X, NEW a \in Seq(X), NEW b \in Seq(X), Distinct(a), Distinct(b),
           ToSet(a) \cap ToSet(b) = {}
    PROVE  Distinct(a \o b)
<1>1. PICK m \in Nat, n \in Nat : m = Len(a) /\ n = Len(b) /\ DOMAIN a = 1 .. m /\ DOMAIN b = 1 .. n
  OBVIOUS
<1>2. /\ DOMAIN (a \o b) = 1 .. m + n
      /\ \A i \in 1 .. m + n : (a \o b)[i] = IF i <= m THEN a[i] ELSE b[i - m]
  BY <1>1, ConcatProperties
<1>3. ASSUME NEW i \in 1 .. m + n, NEW j \in 1 .. m + n, (a \o b)[i] = (a \o b)[j] PROVE i = j
  <2>1. \A k \in 1 .. m : a[k] \in ToSet(a)
    BY <1>1 DEF ToSet
  <2>2. \A k \in 1 .. n : b[k] \in ToSet(b)
    BY <1>1 DEF ToSet
  <2>3. \A k \in 1 .. m + n : k \in 1 .. m \/ (~(k <= m) /\ k - m \in 1 .. n)
    OBVIOUS
  <2>4. CASE i <= m /\ j <= m
    <3>1. i \in 1 .. m /\ j \in 1 .. m /\ a[i] = a[j]
      BY <1>2, <1>3, <2>4
    <3> QED
      BY <1>1, <3>1 DEF Distinct
  <2>5. CASE ~(i <= m) /\ ~(j <= m)
    <3>1. i - m \in 1 .. n /\ j - m \in 1 .. n /\ b[i - m] = b[j - m]
      BY <1>2, <1>3, <2>5
    <3>2. i - m = j - m
      BY <1>1, <3>1 DEF Distinct
    <3> QED
      BY <3>2
  <2>6. CASE i <= m /\ ~(j <= m)
    <3>1. i \in 1 .. m /\ j - m \in 1 .. n /\ a[i] = b[j - m]
      BY <1>2, <1>3, <2>6
    <3> QED
      BY <2>1, <2>2, <3>1
  <2>7. CASE ~(i <= m) /\ j <= m
    <3>1. j \in 1 .. m /\ i - m \in 1 .. n /\ a[j] = b[i - m]
      BY <1>2, <1>3, <2>7
    <3> QED
      BY <2>1, <2>2, <3>1
  <2> QED
    BY <2>4, <2>5, <2>6, <2>7
<1> QED
  BY <1>2, <1>3 DEF Distinct

\* One sequence after the other, from the first.
LEMMA FlattenSteps ==
    ASSUME NEW seqs, NEW N \in Nat \ {0}, N = Len(seqs)
    PROVE  \E f : /\ FlattenSeq(seqs) = f[N]
                  /\ \A k \in 1 .. N : f[k] = IF k = 1 THEN seqs[k] ELSE f[k - 1] \o seqs[k]
<1> DEFINE Solves(f, n) == f = [k \in 1 .. n |-> IF k = 1 THEN seqs[k] ELSE f[k - 1] \o seqs[k]]
           T == {n \in 0 .. N : \E f : Solves(f, n)}
<1>1. 0 \in T
  <2>1. Solves(<<>>, 0)
    OBVIOUS
  <2> HIDE DEF Solves
  <2> QED
    BY <2>1
<1>2. ASSUME NEW n \in 0 .. N, n < N, n \in T PROVE n + 1 \in T
  <2>1. PICK f : Solves(f, n)
    BY <1>2
  <2> DEFINE g == [k \in 1 .. n + 1 |-> IF k <= n THEN f[k] ELSE IF n = 0 THEN seqs[1] ELSE f[n] \o seqs[n + 1]]
  <2>2. ASSUME NEW k \in 1 .. n + 1 PROVE g[k] = IF k = 1 THEN seqs[k] ELSE g[k - 1] \o seqs[k]
    <3>1. CASE k = n + 1
      <4>1. CASE n = 0
        BY <3>1, <4>1
      <4>2. CASE n # 0
        <5>0. k - 1 = n /\ k - 1 \in 1 .. n + 1 /\ k - 1 <= n /\ ~(k <= n) /\ k # 1
          BY <3>1, <4>2
        <5>1. g[k] = f[n] \o seqs[k] /\ g[k - 1] = f[n] /\ k # 1
          BY <3>1, <4>2, <5>0
        <5> QED
          BY <5>1
      <4> QED
        BY <4>1, <4>2
    <3>2. CASE k # n + 1
      <4>1. k \in 1 .. n /\ g[k] = f[k]
        BY <3>2
      <4>2. k # 1 => g[k - 1] = f[k - 1]
        BY <4>1
      <4>3. f[k] = IF k = 1 THEN seqs[k] ELSE f[k - 1] \o seqs[k]
        BY <2>1, <4>1
      <4> HIDE DEF g
      <4> QED
        BY <4>1, <4>2, <4>3
    <3> QED
      BY <3>1, <3>2
  <2>3. Solves(g, n + 1)
    <3>1. g = [k \in 1 .. n + 1 |-> g[k]]
      OBVIOUS
    <3> HIDE DEF g
    <3> QED
      BY <2>2, <3>1
  <2>4. n + 1 \in 0 .. N
    BY <1>2
  <2> HIDE DEF Solves, g
  <2> QED
    BY <2>3, <2>4
<1>3. N \in T
  <2> HIDE DEF T
  <2>1. \A n \in 0 .. N : n \in T
    BY <1>1, <1>2, Stepwise
  <2> QED
    BY <2>1
<1>4. PICK f : f = CHOOSE h : Solves(h, N)
  OBVIOUS
<1>5. Solves(f, N)
  <2>1. \E h : Solves(h, N)
    BY <1>3
  <2> HIDE DEF Solves
  <2> QED
    BY <1>4, <2>1
<1>6. FlattenSeq(seqs) = f[N]
  BY <1>4, Zenon DEF FlattenSeq
<1>7. ASSUME NEW k \in 1 .. N PROVE f[k] = IF k = 1 THEN seqs[k] ELSE f[k - 1] \o seqs[k]
  BY <1>5, Zenon
<1> HIDE DEF Solves
<1> QED
  BY <1>6, <1>7

\* What is in the sequences is in the one they make, and nothing else.
LEMMA FlattenIs ==
    ASSUME NEW X, NEW seqs \in Seq(Seq(X))
    PROVE  /\ FlattenSeq(seqs) \in Seq(X)
           /\ \A x : x \in ToSet(FlattenSeq(seqs)) <=> \E i \in 1 .. Len(seqs) : x \in ToSet(seqs[i])
           /\ Apart(seqs) => Distinct(FlattenSeq(seqs))
<1>1. PICK N \in Nat : N = Len(seqs)
  OBVIOUS
<1>2. CASE N = 0
  <2>1. FlattenSeq(seqs) = <<>>
    BY <1>1, <1>2, EmptySeq DEF FlattenSeq
  <2>2. ToSet(<<>>) = {} /\ Distinct(<<>>)
    BY DEF ToSet, Distinct
  <2> QED
    BY <1>1, <1>2, <2>1, <2>2
<1>3. CASE N # 0
  <2>5. PICK f : /\ FlattenSeq(seqs) = f[N]
                 /\ \A k \in 1 .. N : f[k] = IF k = 1 THEN seqs[k] ELSE f[k - 1] \o seqs[k]
    <3>1. PICK M \in Nat \ {0} : M = N
      BY <1>3
    <3> QED
      BY <1>1, <3>1, FlattenSteps
  <2>6. FlattenSeq(seqs) = f[N]
    BY <2>5
  <2>7. ASSUME NEW k \in 1 .. N PROVE f[k] = IF k = 1 THEN seqs[k] ELSE f[k - 1] \o seqs[k]
    BY <2>5
  <2>8. \A k \in 1 .. N : seqs[k] \in Seq(X)
    BY <1>1
  <2> DEFINE SoFar(k) == /\ f[k] \in Seq(X)
                         /\ \A x : x \in ToSet(f[k]) <=> \E i \in 1 .. k : x \in ToSet(seqs[i])
                         /\ Apart(seqs) => Distinct(f[k])
             U == {k \in 0 .. N : k = 0 \/ SoFar(k)}
  <2>9. 0 \in U
    OBVIOUS
  <2>10. ASSUME NEW k \in 0 .. N, k < N, k \in U PROVE k + 1 \in U
    <3>1. k + 1 \in 1 .. N /\ k + 1 \in 0 .. N /\ (k + 1) - 1 = k
      <4> HIDE DEF SoFar, U
      <4> QED
        BY <2>10
    <3>2. CASE k = 0
      <4>1. f[1] = seqs[1] /\ seqs[1] \in Seq(X) /\ \A i \in 1 .. 1 : i = 1
        BY <2>7, <2>8, <3>1, <3>2
      <4>2. Apart(seqs) => Distinct(f[1])
        <5>1. 1 \in 1 .. Len(seqs)
          BY <1>1, <2>10, <3>2
        <5> QED
          BY <4>1, <5>1 DEF Apart
      <4>3. SoFar(1)
        BY <4>1, <4>2
      <4> QED
        BY <3>1, <3>2, <4>3
    <3>3. CASE k # 0
      <4>1. f[k + 1] = f[k] \o seqs[k + 1] /\ seqs[k + 1] \in Seq(X)
        <5>1. k + 1 # 1
          BY <3>3
        <5>2. PICK q \in 1 .. N : q = k + 1 /\ q - 1 = k /\ q # 1
          BY <3>1, <5>1
        <5>3. f[q] = f[q - 1] \o seqs[q]
          BY <2>7, <5>2
        <5> QED
          BY <2>8, <5>2, <5>3
      <4>2. SoFar(k)
        BY <2>10, <3>3
      <4>3. f[k + 1] \in Seq(X)
        BY <4>1, <4>2
      <4>4. \A x : x \in ToSet(f[k + 1]) <=> x \in ToSet(f[k]) \/ x \in ToSet(seqs[k + 1])
        <5>1. PICK a \in Seq(X), b \in Seq(X) : a = f[k] /\ b = seqs[k + 1]
          BY <4>1, <4>2
        <5>2. PICK m \in Nat, n \in Nat : m = Len(a) /\ n = Len(b)
          OBVIOUS
        <5>3. /\ a \o b \in Seq(X) /\ Len(a \o b) = m + n
              /\ \A i \in 1 .. m + n : (a \o b)[i] = IF i <= m THEN a[i] ELSE b[i - m]
          BY <5>2, ConcatProperties
        <5>4. DOMAIN a = 1 .. m /\ DOMAIN b = 1 .. n /\ DOMAIN (a \o b) = 1 .. m + n
          BY <5>2, <5>3
        <5>5. ASSUME NEW i \in 1 .. m + n PROVE (a \o b)[i] \in ToSet(a) \cup ToSet(b)
          <6>1. i \in 1 .. m \/ (~(i <= m) /\ i - m \in 1 .. n)
            OBVIOUS
          <6>2. \A j \in 1 .. m : a[j] \in ToSet(a)
            BY <5>4 DEF ToSet
          <6>3. \A j \in 1 .. n : b[j] \in ToSet(b)
            BY <5>4 DEF ToSet
          <6>4. CASE i \in 1 .. m
            <7>1. i <= m /\ (a \o b)[i] = a[i]
              BY <5>3, <6>4
            <7> QED
              BY <6>2, <6>4, <7>1
          <6>5. CASE ~(i <= m) /\ i - m \in 1 .. n
            <7>1. (a \o b)[i] = b[i - m]
              BY <5>3, <6>5
            <7> QED
              BY <6>3, <6>5, <7>1
          <6> QED
            BY <6>1, <6>4, <6>5
        <5>6. ASSUME NEW i \in 1 .. m PROVE a[i] \in ToSet(a \o b)
          <6>1. i \in 1 .. m + n /\ i <= m
            OBVIOUS
          <6> QED
            BY <5>3, <5>4, <6>1 DEF ToSet
        <5>7. ASSUME NEW i \in 1 .. n PROVE b[i] \in ToSet(a \o b)
          <6>1. m + i \in 1 .. m + n /\ ~(m + i <= m) /\ (m + i) - m = i
            OBVIOUS
          <6>2. (a \o b)[m + i] = b[i]
            BY <5>3, <6>1
          <6> QED
            BY <5>4, <6>1, <6>2 DEF ToSet
        <5>8. ToSet(a \o b) = ToSet(a) \cup ToSet(b)
          <6>1. ToSet(a \o b) = {(a \o b)[i] : i \in 1 .. m + n}
            BY <5>4 DEF ToSet
          <6>2. ToSet(a) = {a[i] : i \in 1 .. m} /\ ToSet(b) = {b[i] : i \in 1 .. n}
            BY <5>4 DEF ToSet
          <6> QED
            BY <5>5, <5>6, <5>7, <6>1, <6>2
        <5> QED
          BY <4>1, <5>1, <5>8
      <4>5. \A i \in 1 .. k + 1 : i \in 1 .. k \/ i = k + 1
        OBVIOUS
      <4>6. \A i \in 1 .. k : i \in 1 .. k + 1
        OBVIOUS
      <4>7. k + 1 \in 1 .. k + 1
        OBVIOUS
      <4>9. ASSUME Apart(seqs) PROVE Distinct(f[k + 1])
        <5>1. k + 1 \in 1 .. Len(seqs) /\ \A i \in 1 .. k : i \in 1 .. Len(seqs) /\ i # k + 1
          BY <1>1, <3>1
        <5>2. Distinct(f[k]) /\ Distinct(seqs[k + 1])
          BY <4>2, <4>9, <5>1 DEF Apart
        <5>3. ToSet(f[k]) \cap ToSet(seqs[k + 1]) = {}
          <6>1. ASSUME NEW x, x \in ToSet(f[k]), x \in ToSet(seqs[k + 1]) PROVE FALSE
            <7>1. PICK i \in 1 .. k : x \in ToSet(seqs[i])
              BY <4>2, <6>1
            <7>2. PICK q \in 1 .. Len(seqs) : q = k + 1 /\ i # q
              BY <5>1, <7>1
            <7>3. i \in 1 .. Len(seqs) /\ ToSet(seqs[i]) \cap ToSet(seqs[q]) # {}
              BY <5>1, <6>1, <7>1, <7>2
            <7> QED
              BY <4>9, <7>2, <7>3 DEF Apart
          <6> QED
            BY <6>1
        <5>4. PICK a \in Seq(X), b \in Seq(X) : a = f[k] /\ b = seqs[k + 1]
          BY <4>1, <4>2
        <5> QED
          BY <4>1, <5>2, <5>3, <5>4, ConcatDistinct
      <4>8. SoFar(k + 1)
        BY <4>2, <4>3, <4>4, <4>5, <4>6, <4>7, <4>9
      <4> HIDE DEF SoFar
      <4> QED
        BY <3>1, <4>8
    <3> QED
      BY <3>2, <3>3
  <2>11. N \in U
    <3> HIDE DEF U
    <3>1. \A k \in 0 .. N : k \in U
      BY <2>9, <2>10, Stepwise
    <3> QED
      BY <3>1
  <2>12. SoFar(N)
    BY <1>3, <2>11
  <2> QED
    BY <1>1, <2>6, <2>12
<1> QED
  BY <1>2, <1>3

(***************************************************************************)
(* bdg cdp.                                                                *)
(***************************************************************************)
\* The k-th method of the i-th domain.
IsMethod(i, k) == i \in DOMAIN Protocol /\ k \in DOMAIN Protocol[i].commands
NameOf(i, k) == FullName(Protocol[i].domain, Protocol[i].commands[k].name)
MethodOf(i, k) == MethodSchema(Protocol[i].domain, Protocol[i].commands[k])

\* Names are made of these.
Letters == DOMAIN LowerOf \ {"."}

LEMMA ProtocolFacts ==
    /\ Len(Protocol) \in Nat /\ DOMAIN Protocol = 1 .. Len(Protocol)
    /\ \A i \in DOMAIN Protocol :
          /\ Protocol[i].domain \in Seq(Letters) /\ Protocol[i].domain # <<>>
          /\ Len(Protocol[i].commands) \in Nat
          /\ DOMAIN Protocol[i].commands = 1 .. Len(Protocol[i].commands)
          /\ \A k \in DOMAIN Protocol[i].commands :
                /\ Protocol[i].commands[k].name \in Seq(Letters)
                /\ Protocol[i].commands[k].name # <<>>
<1>1. Len(Protocol) \in Nat /\ DOMAIN Protocol = 1 .. Len(Protocol)
  BY ProtocolAssumption
<1>2. \A i \in DOMAIN Protocol : Protocol[i] \in ToSet(Protocol)
  BY DEF ToSet
<1>3. ASSUME NEW i \in DOMAIN Protocol
      PROVE  /\ Protocol[i].domain \in Seq(Letters) /\ Protocol[i].domain # <<>>
             /\ Len(Protocol[i].commands) \in Nat
             /\ DOMAIN Protocol[i].commands = 1 .. Len(Protocol[i].commands)
             /\ \A k \in DOMAIN Protocol[i].commands :
                   /\ Protocol[i].commands[k].name \in Seq(Letters)
                   /\ Protocol[i].commands[k].name # <<>>
  <2>1. PICK d \in ToSet(Protocol) : d = Protocol[i]
    BY <1>2
  <2>2. /\ d.domain \in Seq(Letters) /\ d.domain # <<>>
        /\ d.commands \in Seq(ToSet(d.commands))
    BY ProtocolAssumption DEF Spelled, Letters
  <2>3. \A k \in DOMAIN d.commands : d.commands[k] \in ToSet(d.commands)
    BY DEF ToSet
  <2>4. \A k \in DOMAIN d.commands : d.commands[k].name \in Seq(Letters) /\ d.commands[k].name # <<>>
    BY <2>3, ProtocolAssumption DEF Spelled, Letters
  <2>5. Len(d.commands) \in Nat /\ DOMAIN d.commands = 1 .. Len(d.commands)
    BY <2>2
  <2> QED
    BY <2>1, <2>2, <2>4, <2>5
<1> QED
  BY <1>1, <1>3

\* The first of the numbers in S, or 0: a look-up that finds nothing.
LEMMA FirstOf ==
    ASSUME NEW S \in SUBSET Nat, NEW x, x = IF S # {} THEN Min(S) ELSE 0
    PROVE  IF S # {} THEN x \in S ELSE x = 0
<1>1. CASE S # {}
  <2>1. \E m \in S : \A y \in S : m <= y
    BY <1>1, LeastElement
  <2>2. Min(S) \in S
    BY <2>1 DEF Min
  <2> QED
    BY <1>1, <2>2
<1> QED
  BY <1>1

\* A domain is found by its name in any case, and by nothing else.
LEMMA FindsDomain ==
    ASSUME NEW name
    PROVE  /\ FindDomain(name) # 0 =>
                 /\ FindDomain(name) \in DOMAIN Protocol
                 /\ ToLower(Protocol[FindDomain(name)].domain) = ToLower(name)
           /\ \A i \in DOMAIN Protocol :
                 ToLower(Protocol[i].domain) = ToLower(name) => FindDomain(name) = i
<1> DEFINE S == {i \in 1 .. Len(Protocol) : ToLower(Protocol[i].domain) = ToLower(name)}
<1>1. FindDomain(name) = IF S # {} THEN Min(S) ELSE 0
  BY DEF FindDomain, SelectInSeq
<1>2. S \in SUBSET Nat /\ S \subseteq DOMAIN Protocol
  BY ProtocolFacts
<1>3. \A i \in DOMAIN Protocol : i \in S <=> ToLower(Protocol[i].domain) = ToLower(name)
  BY ProtocolFacts
<1>4. \A i, j \in S : i = j
  BY <1>2, <1>3, ProtocolAssumption
<1> HIDE DEF S
<1>5. IF S # {} THEN FindDomain(name) \in S ELSE FindDomain(name) = 0
  BY <1>1, <1>2, FirstOf
<1>6. ASSUME NEW i \in S PROVE i # 0
  BY <1>2, ProtocolFacts
<1> QED
  BY <1>2, <1>3, <1>4, <1>5, <1>6

\* A command is found in a domain that is found, by its name in any case.
LEMMA FindsCommand ==
    ASSUME NEW domainName, NEW name
    PROVE  /\ FindCommand(domainName, name) # 0 =>
                 /\ FindDomain(domainName) # 0
                 /\ IsMethod(FindDomain(domainName), FindCommand(domainName, name))
                 /\ ToLower(Protocol[FindDomain(domainName)].commands[FindCommand(domainName, name)].name)
                       = ToLower(name)
           /\ \A k : FindDomain(domainName) # 0 /\ IsMethod(FindDomain(domainName), k) =>
                 (ToLower(Protocol[FindDomain(domainName)].commands[k].name) = ToLower(name)
                     => FindCommand(domainName, name) = k)
<1>1. PICK d : d = FindDomain(domainName)
  OBVIOUS
<1>2. PICK cs : cs = Commands(domainName)
  OBVIOUS
<1> DEFINE S == {k \in 1 .. Len(cs) : ToLower(cs[k].name) = ToLower(name)}
<1>3. FindCommand(domainName, name) = IF S # {} THEN Min(S) ELSE 0
  BY <1>2 DEF FindCommand, SelectInSeq
<1>4. CASE d = 0
  <2>1. cs = <<>>
    BY <1>1, <1>2, <1>4 DEF Commands
  <2>2. S = {}
    BY <2>1
  <2>3. FindCommand(domainName, name) = 0
    BY <1>3, <2>2
  <2> QED
    BY <1>1, <1>4, <2>3
<1>5. CASE d # 0
  <2>1. d \in DOMAIN Protocol
    BY <1>1, <1>5, FindsDomain
  <2>2. cs = Protocol[d].commands
    BY <1>1, <1>2, <1>5 DEF Commands
  <2>3. Len(cs) \in Nat /\ DOMAIN cs = 1 .. Len(cs)
    BY <2>1, <2>2, ProtocolFacts
  <2>4. \A j, k \in DOMAIN cs : ToLower(cs[j].name) = ToLower(cs[k].name) => j = k
    <3>1. Protocol[d] \in ToSet(Protocol)
      BY <2>1 DEF ToSet
    <3> QED
      BY <2>2, <3>1, ProtocolAssumption
  <2>5. S \in SUBSET Nat /\ S \subseteq DOMAIN cs
    BY <2>3
  <2>6. \A k \in DOMAIN cs : k \in S <=> ToLower(cs[k].name) = ToLower(name)
    BY <2>3
  <2>7. \A j, k \in S : j = k
    BY <2>4, <2>5, <2>6
  <2> HIDE DEF S
  <2>8. IF S # {} THEN FindCommand(domainName, name) \in S ELSE FindCommand(domainName, name) = 0
    BY <1>3, <2>5, FirstOf
  <2>9. \A k : IsMethod(d, k) <=> k \in DOMAIN cs
    BY <2>1, <2>2 DEF IsMethod
  <2> QED
    BY <1>1, <1>5, <2>2, <2>5, <2>6, <2>7, <2>8, <2>9
<1> QED
  BY <1>4, <1>5

\* The letters of two texts with a separator between them.
LEMMA Joined ==
    ASSUME NEW S, NEW c, NEW a \in Seq(S), NEW b \in Seq(S), NEW m \in Nat, m = Len(a), NEW n \in Nat, n = Len(b),
           NEW t, t = a \o <<c>> \o b
    PROVE  /\ t \in Seq(S \cup {c}) /\ Len(t) = m + 1 + n /\ DOMAIN t = 1 .. m + 1 + n
           /\ \A i \in 1 .. m : t[i] = a[i]
           /\ t[m + 1] = c
           /\ \A i \in 1 .. n : t[m + 1 + i] = b[i]
<1>3. PICK X : X = S \cup {c}
  OBVIOUS
<1>4. a \in Seq(X) /\ b \in Seq(X) /\ <<c>> \in Seq(X) /\ Len(<<c>>) = 1 /\ <<c>>[1] = c
  <2>1. \A i \in 1 .. m : a[i] \in X
    BY <1>3
  <2>2. \A i \in 1 .. n : b[i] \in X
    BY <1>3
  <2>3. c \in X
    BY <1>3
  <2> QED
    BY <2>1, <2>2, <2>3
<1>5. PICK h \in Seq(X) : h = a \o <<c>>
  <2>1. a \o <<c>> \in Seq(X)
    BY <1>4, ConcatProperties
  <2> QED
    BY <2>1
<1>6. Len(h) = m + 1 /\ \A i \in 1 .. m + 1 : h[i] = IF i <= m THEN a[i] ELSE c
  <2>1. Len(a \o <<c>>) = m + 1
    BY <1>4
  <2>2. \A i \in 1 .. m + 1 : (a \o <<c>>)[i] = IF i <= m THEN a[i] ELSE <<c>>[i - m]
    BY <1>4
  <2>3. \A i \in 1 .. m + 1 : ~(i <= m) => i - m = 1
    OBVIOUS
  <2> QED
    BY <1>4, <1>5, <2>1, <2>2, <2>3
<1>7. /\ t \in Seq(X) /\ Len(t) = m + 1 + n
      /\ \A i \in 1 .. m + 1 + n : t[i] = IF i <= m + 1 THEN h[i] ELSE b[i - (m + 1)]
  <2>1. h \o b \in Seq(X) /\ Len(h \o b) = m + 1 + n
    <3>1. h \o b \in Seq(X) /\ Len(h \o b) = Len(h) + Len(b)
      BY <1>4, ConcatProperties
    <3> QED
      BY <1>6, <3>1
  <2>2. \A i \in 1 .. m + 1 + n : (h \o b)[i] = IF i <= m + 1 THEN h[i] ELSE b[i - (m + 1)]
    <3>1. PICK w \in Nat : w = m + 1 /\ w = Len(h)
      BY <1>6
    <3>2. \A i \in 1 .. w + n : (h \o b)[i] = IF i <= w THEN h[i] ELSE b[i - w]
      BY <1>4, <3>1, ConcatProperties
    <3> QED
      BY <3>1, <3>2
  <2> QED
    BY <1>5, <2>1, <2>2
<1>8. \A i \in 1 .. m : t[i] = a[i]
  <2> TAKE i \in 1 .. m
  <2>1. i \in Nat /\ i >= 1 /\ i <= m
    OBVIOUS
  <2>2. i <= m + 1 /\ i <= m + 1 + n
    BY <2>1
  <2> QED
    <3>1. i \in 1 .. m + 1 /\ i \in 1 .. m + 1 + n
      BY <2>1, <2>2
    <3> QED
      BY <1>6, <1>7, <2>1, <2>2, <3>1
<1>9. t[m + 1] = c
  BY <1>6, <1>7
<1>10. \A i \in 1 .. n : t[m + 1 + i] = b[i]
  <2> TAKE i \in 1 .. n
  <2>1. PICK j \in 1 .. m + 1 + n : j = m + 1 + i /\ ~(j <= m + 1) /\ j - (m + 1) = i
    <3>1. PICK j \in Nat : j = m + 1 + i
      OBVIOUS
    <3>2. j \in 1 .. m + 1 + n
      BY <3>1
    <3>3. ~(j <= m + 1) /\ j - (m + 1) = i
      BY <3>1
    <3> QED
      BY <3>1, <3>2, <3>3
  <2> QED
    BY <1>7, <2>1
<1> QED
  BY <1>3, <1>7, <1>8, <1>9, <1>10

\* A name with one separator in it is split into what is before and after.
LEMMA TwoParts ==
    ASSUME NEW S, NEW c, NEW a \in Seq(S \ {c}), NEW b \in Seq(S \ {c})
    PROVE  Split(a \o <<c>> \o b, c) = <<a, b>>
<1>1. PICK m \in Nat, n \in Nat : m = Len(a) /\ n = Len(b)
  OBVIOUS
<1>2. PICK t : t = a \o <<c>> \o b
  OBVIOUS
<1>3. PICK X : X = (S \ {c}) \cup {c}
  OBVIOUS
<1>4. a \in Seq(X) /\ b \in Seq(X)
  <2>1. \A i \in 1 .. m : a[i] \in X
    BY <1>1, <1>3
  <2>2. \A i \in 1 .. n : b[i] \in X
    BY <1>1, <1>3
  <2> QED
    BY <1>1, <2>1, <2>2
<1>7. /\ t \in Seq(X) /\ Len(t) = m + 1 + n
      /\ \A i \in 1 .. m : t[i] = a[i]
      /\ t[m + 1] = c
      /\ \A i \in 1 .. n : t[m + 1 + i] = b[i]
  BY <1>1, <1>2, <1>3, Joined
<1>8. PICK cut : cut = [k \in 0 .. 2 |-> IF k = 0 THEN 0 ELSE IF k = 1 THEN m + 1 ELSE m + n + 2]
  OBVIOUS
<1>9. cut \in [0 .. 2 -> Nat] /\ cut[0] = 0 /\ cut[1] = m + 1 /\ cut[2] = m + n + 2
  BY <1>8
<1>10. \A i \in 1 .. m + 1 + n : t[i] = c <=> i = m + 1
  <2> TAKE i \in 1 .. m + 1 + n
  <2>1. CASE i <= m
    <3>1. i \in 1 .. m /\ i <= m + 1 /\ i \in 1 .. m + 1
      BY <2>1
    <3>2. t[i] = a[i] /\ a[i] \in S \ {c}
      BY <1>1, <1>7, <3>1
    <3> QED
      BY <2>1, <3>2
  <2>2. CASE i = m + 1
    BY <1>7, <2>2
  <2>3. CASE i > m + 1
    <3>1. i - (m + 1) \in 1 .. n /\ ~(i <= m + 1)
      BY <2>3
    <3>2. PICK j \in 1 .. n : i = m + 1 + j
      <4>1. i = m + 1 + (i - (m + 1))
        OBVIOUS
      <4> QED
        BY <3>1, <4>1
    <3>3. t[i] = b[j] /\ b[j] \in S \ {c}
      BY <1>1, <1>7, <3>2
    <3> QED
      BY <2>3, <3>3
  <2> QED
    BY <2>1, <2>2, <2>3
<1>11. Cuts(t, c, 1, cut)
  <2>1. 1 + 1 = 2 /\ m + n + 2 = Len(t) + 1
    BY <1>7
  <2>2. \A i, j \in 0 .. 2 : i < j => cut[i] < cut[j]
    <3>1. \A i \in 0 .. 2 : i = 0 \/ i = 1 \/ i = 2
      OBVIOUS
    <3> QED
      BY <1>9, <3>1
  <2>3. \A i \in 1 .. Len(t) : t[i] = c <=> \E k \in 1 .. 1 : cut[k] = i
    <3>1. \A k \in 1 .. 1 : k = 1
      OBVIOUS
    <3> QED
      BY <1>7, <1>9, <1>10, <3>1
  <2> QED
    BY <1>9, <2>1, <2>2, <2>3 DEF Cuts
<1>12. Split(t, c) = CutAt(t, cut, 1)
  BY <1>7, <1>11, SplitAt
<1>13. PICK p : p = CutAt(t, cut, 1)
  OBVIOUS
<1>14. p = [k \in 1 .. 2 |-> p[k]]
  BY <1>13 DEF CutAt
<1>15. IsPiece(X, t, cut, 1, p[1])
  <2>1. \A piece : piece = CutAt(t, cut, 1)[1] => IsPiece(X, t, cut, 1, piece)
    <3>1. 1 \in 1 .. 1 + 1
      OBVIOUS
    <3> QED
      BY <1>7, <1>11, <3>1, PiecesOf
  <2> QED
    BY <1>13, <2>1
<1>16. IsPiece(X, t, cut, 2, p[2])
  <2>1. \A piece : piece = CutAt(t, cut, 1)[2] => IsPiece(X, t, cut, 2, piece)
    <3>1. 2 \in 1 .. 1 + 1
      OBVIOUS
    <3> QED
      BY <1>7, <1>11, <3>1, PiecesOf
  <2> QED
    BY <1>13, <2>1
<1>17. p[1] = a
  <2>1. /\ p[1] \in Seq(X) /\ Len(p[1]) = m
        /\ \A j \in 1 .. m : p[1][j] = t[j]
    <3>1. 1 - 1 = 0
      OBVIOUS
    <3>2. /\ p[1] \in Seq(X) /\ Len(p[1]) = cut[1] - 1 - cut[0]
          /\ \A j \in 1 .. Len(p[1]) : p[1][j] = t[cut[0] + j]
      BY <1>15, <3>1 DEF IsPiece
    <3>3. Len(p[1]) = m
      BY <1>9, <3>2
    <3> QED
      BY <1>9, <3>2, <3>3
  <2>2. \A j \in 1 .. m : p[1][j] = a[j]
    BY <1>7, <2>1
  <2>3. Len(p[1]) = Len(a)
    BY <1>1, <2>1
  <2> QED
    BY <1>1, <1>4, <2>1, <2>2, <2>3, SeqEqual
<1>18. p[2] = b
  <2>1. /\ p[2] \in Seq(X) /\ Len(p[2]) = n
        /\ \A j \in 1 .. n : p[2][j] = t[m + 1 + j]
    <3>1. 2 - 1 = 1
      OBVIOUS
    <3>2. /\ p[2] \in Seq(X) /\ Len(p[2]) = cut[2] - 1 - cut[1]
          /\ \A j \in 1 .. Len(p[2]) : p[2][j] = t[cut[1] + j]
      BY <1>16, <3>1 DEF IsPiece
    <3>3. Len(p[2]) = n
      BY <1>9, <3>2
    <3> QED
      BY <1>9, <3>2, <3>3
  <2>2. ASSUME NEW j \in 1 .. n PROVE p[2][j] = b[j]
    <3> QED
      BY <1>7, <2>1
  <2>3. Len(p[2]) = Len(b)
    BY <1>1, <2>1
  <2> QED
    BY <1>1, <1>4, <2>1, <2>2, <2>3, SeqEqual
<1>19. p = <<a, b>>
  <2>1. p = [k \in 1 .. 2 |-> IF k = 1 THEN a ELSE b]
    BY <1>14, <1>17, <1>18
  <2> QED
    BY <2>1
<1> QED
  BY <1>2, <1>12, <1>13, <1>19

\* A method of the protocol is found under its own name.
LEMMA KnownParts ==
    ASSUME NEW i, NEW k, IsMethod(i, k)
    PROVE  /\ Split(NameOf(i, k), ".") = <<Protocol[i].domain, Protocol[i].commands[k].name>>
           /\ Protocol[i].domain # <<>> /\ Protocol[i].commands[k].name # <<>>
           /\ FindDomain(Protocol[i].domain) = i
           /\ FindCommand(Protocol[i].domain, Protocol[i].commands[k].name) = k
           /\ i # 0 /\ k # 0 /\ NameOf(i, k) # <<>>
<1>1. i \in DOMAIN Protocol /\ k \in DOMAIN Protocol[i].commands
  BY DEF IsMethod
<1>2. PICK a \in Seq(Letters) : a = Protocol[i].domain /\ a # <<>>
  BY <1>1, ProtocolFacts
<1>3. PICK b \in Seq(Letters) : b = Protocol[i].commands[k].name /\ b # <<>>
  BY <1>1, ProtocolFacts
<1>4. PICK dot : dot = "."
  OBVIOUS
<1>5. Split(a \o <<dot>> \o b, dot) = <<a, b>>
  BY <1>4, TwoParts, ZenonT(40) DEF Letters
<1>6. FindDomain(a) = i /\ i # 0
  BY <1>1, <1>2, FindsDomain, ProtocolFacts
<1>7. FindCommand(a, b) = k
  BY <1>1, <1>3, <1>6, FindsCommand
<1>8. k # 0
  <2>1. \A j \in DOMAIN Protocol[i].commands : j # 0
    BY <1>1, ProtocolFacts
  <2> QED
    BY <1>1, <2>1
<1>9. NameOf(i, k) = a \o <<dot>> \o b
  BY <1>2, <1>3, <1>4, Zenon DEF NameOf, FullName
<1>10. a \o <<dot>> \o b # <<>>
  <2>1. Split(<<>>, dot) = <<a, b>> => FALSE
    <3>1. Cuts(<<>>, dot, 0, [q \in 0 .. 1 |-> q])
      BY DEF Cuts
    <3>2. PICK cut : cut = [q \in 0 .. 1 |-> q]
      OBVIOUS
    <3>3. <<>> \in Seq({}) /\ Cuts(<<>>, dot, 0, cut)
      BY <3>1, <3>2
    <3>4. Split(<<>>, dot) = CutAt(<<>>, cut, 0)
      BY <3>3, SplitAt
    <3>5. DOMAIN CutAt(<<>>, cut, 0) = 1 .. 1
      BY DEF CutAt
    <3>6. DOMAIN <<a, b>> = 1 .. 2
      OBVIOUS
    <3>7. 1 .. 1 # 1 .. 2
      <4>1. 2 \in 1 .. 2 /\ 2 \notin 1 .. 1
        OBVIOUS
      <4> QED
        BY <4>1
    <3> QED
      BY <3>4, <3>5, <3>6, <3>7
  <2> QED
    BY <1>5, <2>1, Zenon
<1> QED
  BY <1>2, <1>3, <1>4, <1>5, <1>6, <1>7, <1>8, <1>9, <1>10, Zenon

\* What execution and --describe answer, whatever is asked.
LEMMA ExecuteIs ==
    ASSUME NEW name
    PROVE  Execute(name) = IF name = <<>> THEN Erring(<<>>) ELSE HandleExecuteMethod(name, "none")
BY DEF Execute, CdpReply

LEMMA DescribeIs ==
    ASSUME NEW name
    PROVE  Describe(name) = IF name = <<>> THEN Erring(<<>>) ELSE HandleDescribeMethod(name)
BY DEF Describe, CdpReply

\* A method runs and is described under its own name.
LEMMA KnownAnswers ==
    ASSUME NEW i, NEW k, IsMethod(i, k)
    PROVE  /\ NormalizeMethod(NameOf(i, k)) = NameOf(i, k)
           /\ Execute(NameOf(i, k)) = Answering("sent", NameOf(i, k))
           /\ Describe(NameOf(i, k)) = Answering("method", MethodOf(i, k))
<1>1. PICK name : name = NameOf(i, k)
  OBVIOUS
<1>2. PICK a : a = Protocol[i].domain
  OBVIOUS
<1>3. PICK b : b = Protocol[i].commands[k].name
  OBVIOUS
<1>4. /\ Split(name, ".") = <<a, b>> /\ a # <<>> /\ b # <<>> /\ name # <<>>
      /\ FindDomain(a) = i /\ FindCommand(a, b) = k /\ i # 0 /\ k # 0
  BY <1>1, <1>2, <1>3, KnownParts, Zenon
<1>5. NormalizeMethod(name) = Spelling(i, k)
  <2>1. NormalizeMethod(name) = NormalizeParts(<<a, b>>)
    BY <1>4, Zenon DEF NormalizeMethod
  <2>2. Len(<<a, b>>) = 2 /\ <<a, b>>[1] = a /\ <<a, b>>[2] = b
    OBVIOUS
  <2>3. NormalizeParts(<<a, b>>) = Spelling(FindDomain(a), FindCommand(a, b))
    BY <1>4, <2>2 DEF NormalizeParts
  <2> QED
    BY <1>4, <2>1, <2>3
<1>6. Spelling(i, k) = name
  BY <1>1, <1>4, Zenon DEF Spelling, NameOf
<1>7. Execute(name) = Answering("sent", name)
  <2>1. Execute(name) = HandleExecuteMethod(name, "none")
    BY <1>4, ExecuteIs
  <2>2. name # None
    BY <1>4 DEF None
  <2> QED
    BY <1>5, <1>6, <2>1, <2>2 DEF HandleExecuteMethod
<1>8. Describe(name) = Answering("method", MethodOf(i, k))
  <2>1. Describe(name) = DescribeParts(name, <<a, b>>)
    BY <1>4, DescribeIs, Zenon DEF HandleDescribeMethod
  <2>2. Len(<<a, b>>) = 2 /\ <<a, b>>[1] = a /\ <<a, b>>[2] = b
    OBVIOUS
  <2>3. DescribeParts(name, <<a, b>>) = Answering("method", GetMethodSchema(a, b))
    BY <1>4, <2>2 DEF DescribeParts
  <2>4. GetMethodSchema(a, b) = GetDomainMethods(a)[k]
    BY <1>4 DEF GetMethodSchema
  <2>5. Commands(a) = Protocol[i].commands
    BY <1>4 DEF Commands
  <2>6. GetDomainMethods(a) = [j \in DOMAIN Protocol[i].commands |-> MethodOf(i, j)]
    BY <1>4, <2>5 DEF GetDomainMethods, MethodOf
  <2>7. GetDomainMethods(a)[k] = MethodOf(i, k)
    BY <2>6 DEF IsMethod
  <2> QED
    BY <2>1, <2>3, <2>4, <2>7
<1> QED
  BY <1>1, <1>5, <1>6, <1>7, <1>8

(***************************************************************************)
(* The edit distance.                                                      *)
(***************************************************************************)
LEMMA LeastIs ==
    ASSUME NEW T \in SUBSET Nat, T # {}
    PROVE  Least(T) \in T /\ \A y \in T : Least(T) <= y
<1>1. \E x \in T : \A y \in T : x <= y
  BY LeastElement
<1> QED
  BY <1>1 DEF Least

LEMMA CellIs ==
    ASSUME NEW above \in Nat, NEW before \in Nat, NEW aboveBefore \in Nat, NEW cost \in {0, 1}
    PROVE  /\ Cell(above, before, aboveBefore, cost) \in Nat
           /\ Cell(above, before, aboveBefore, cost) <= above + 1
           /\ Cell(above, before, aboveBefore, cost) <= before + 1
           /\ Cell(above, before, aboveBefore, cost) <= aboveBefore + cost
           /\ Cell(above, before, aboveBefore, cost) \in {above + 1, before + 1, aboveBefore + cost}
<1> DEFINE T == {above + 1, before + 1, aboveBefore + cost}
<1>1. T \in SUBSET Nat /\ T # {}
  OBVIOUS
<1>2. Least(T) \in T /\ \A y \in T : Least(T) <= y
  <2> HIDE DEF T
  <2> QED
    BY <1>1, LeastIs
<1> QED
  BY <1>1, <1>2 DEF Cell

LEMMA CostIs == \A a, b : Cost(a, b) \in {0, 1} /\ (Cost(a, b) = 0 <=> a = b)
BY DEF Cost

\* A row of the matrix for a text of n letters, and the row below one.
Row(n, r) == r \in Seq(Nat) /\ Len(r) = n + 1 /\ \A j \in 1 .. n + 1 : r[j] \in Nat

Below(above, r, s, t, n, i) ==
    /\ r[1] = i
    /\ \A j \in 1 .. n : r[j + 1] = Cell(above[j + 1], r[j], above[j], Cost(s[i], t[j]))

LEMMA NextRowIs ==
    ASSUME NEW s, NEW t, NEW n \in Nat, n = Len(t), NEW above, Row(n, above), NEW i \in Nat,
           NEW r, r = NextRow(above, s, t, i)
    PROVE  Row(n, r) /\ Below(above, r, s, t, n, i)
<1> DEFINE A(q, j) == AddCell(q, above, s, t, i, j)
           Solves(f, m) == f = [j \in 0 .. m |-> IF j = 0 THEN <<i>> ELSE A(f[j - 1], j)]
           T == {m \in 0 .. n : \E f : Solves(f, m)}
<1> HIDE DEF A
<1>1. 0 \in T
  <2> DEFINE f == [k \in 0 .. 0 |-> <<i>>]
  <2>1. Solves(f, 0)
    <3>1. \A k \in 0 .. 0 : k = 0
      OBVIOUS
    <3> QED
      BY <3>1
  <2> HIDE DEF f, Solves
  <2>2. \E h : Solves(h, 0)
    BY <2>1
  <2> QED
    BY <2>2
<1>2. ASSUME NEW m \in 0 .. n, m < n, m \in T PROVE m + 1 \in T
  <2>1. PICK f : Solves(f, m)
    BY <1>2
  <2> DEFINE g == [k \in 0 .. m + 1 |-> IF k <= m THEN f[k] ELSE A(f[m], m + 1)]
  <2>2. ASSUME NEW k \in 0 .. m + 1 PROVE g[k] = IF k = 0 THEN <<i>> ELSE A(g[k - 1], k)
    <3>1. CASE k = m + 1
      <4>1. g[k] = A(f[m], k) /\ g[k - 1] = f[m] /\ k # 0
        BY <3>1
      <4> QED
        BY <4>1
    <3>2. CASE k # m + 1
      <4>1. k \in 0 .. m /\ g[k] = f[k]
        BY <3>2
      <4>2. k # 0 => g[k - 1] = f[k - 1]
        BY <4>1
      <4>3. f[k] = IF k = 0 THEN <<i>> ELSE A(f[k - 1], k)
        BY <2>1, <4>1
      <4> HIDE DEF g
      <4> QED
        BY <4>1, <4>2, <4>3
    <3> QED
      BY <3>1, <3>2
  <2>3. Solves(g, m + 1)
    <3>1. g = [k \in 0 .. m + 1 |-> g[k]]
      OBVIOUS
    <3> HIDE DEF g
    <3> QED
      BY <2>2, <3>1
  <2>4. m + 1 \in 0 .. n
    BY <1>2
  <2> HIDE DEF Solves, g
  <2> QED
    BY <2>3, <2>4
<1>3. n \in T
  <2> HIDE DEF T
  <2>1. \A m \in 0 .. n : m < n /\ m \in T => m + 1 \in T
    BY <1>2
  <2>2. \A m \in 0 .. n : m \in T
    BY <1>1, <2>1, Stepwise
  <2> QED
    BY <2>2
<1>4. PICK f : f = CHOOSE h : Solves(h, n)
  OBVIOUS
<1>5. Solves(f, n)
  <2>1. \E h : Solves(h, n)
    BY <1>3
  <2> HIDE DEF Solves
  <2> QED
    BY <1>4, <2>1
<1>6. r = f[n]
  BY <1>4, Zenon DEF NextRow, A
<1>7. ASSUME NEW j \in 0 .. n PROVE f[j] = IF j = 0 THEN <<i>> ELSE A(f[j - 1], j)
  BY <1>5, Zenon
<1> HIDE DEF Solves, T
<1> DEFINE SoFar(j, q) ==
               /\ q \in Seq(Nat) /\ Len(q) = j + 1 /\ q[1] = i
               /\ \A k \in 1 .. j : q[k + 1] = Cell(above[k + 1], q[k], above[k], Cost(s[i], t[k]))
           U == {j \in 0 .. n : SoFar(j, f[j])}
<1>8. 0 \in U
  <2>1. f[0] = <<i>>
    BY <1>7
  <2>2. SoFar(0, <<i>>)
    OBVIOUS
  <2> HIDE DEF SoFar
  <2> QED
    BY <2>1, <2>2
<1>9. ASSUME NEW j \in 0 .. n, j < n, j \in U PROVE j + 1 \in U
  <2>1. PICK q : q = f[j]
    OBVIOUS
  <2>2. SoFar(j, q)
    BY <1>9, <2>1
  <2>3. PICK k \in 0 .. n : k = j + 1 /\ k # 0 /\ k - 1 = j /\ k \in 1 .. n /\ j + 1 \in 1 .. j + 1
    BY <1>9
  <2>4. f[k] = A(q, k)
    BY <1>7, <2>1, <2>3
  <2>5. PICK c : c = Cell(above[k + 1], q[k], above[k], Cost(s[i], t[k]))
    OBVIOUS
  <2>6. c \in Nat
    <3>1. above[k + 1] \in Nat /\ above[k] \in Nat
      BY <2>3 DEF Row
    <3>2. q[k] \in Nat
      BY <2>2, <2>3
    <3> QED
      BY <2>5, <3>1, <3>2, CellIs, CostIs
  <2>7. f[k] = Append(q, c)
    BY <2>4, <2>5 DEF A, AddCell
  <2>8. PICK z : z = Append(q, c)
    OBVIOUS
  <2>9. /\ z \in Seq(Nat) /\ Len(z) = k + 1
        /\ \A y \in 1 .. k : z[y] = q[y]
        /\ z[k + 1] = c
    BY <2>2, <2>3, <2>6, <2>8
  <2>10. \A y \in 1 .. k : z[y + 1] = Cell(above[y + 1], z[y], above[y], Cost(s[i], t[y]))
    <3> TAKE y \in 1 .. k
    <3>1. CASE y = k
      BY <2>3, <2>5, <2>9, <3>1
    <3>2. CASE y # k
      <4>1. y \in 1 .. j /\ y + 1 \in 1 .. k
        BY <2>3, <3>2
      <4> QED
        BY <2>2, <2>9, <4>1
    <3> QED
      BY <3>1, <3>2
  <2>11. z[1] = i
    BY <2>2, <2>3, <2>9
  <2>12. SoFar(k, z)
    BY <2>9, <2>10, <2>11
  <2> HIDE DEF SoFar
  <2> QED
    BY <2>3, <2>7, <2>8, <2>12
<1>10. SoFar(n, f[n])
  <2> HIDE DEF U
  <2>1. \A j \in 0 .. n : j < n /\ j \in U => j + 1 \in U
    BY <1>9
  <2>2. \A j \in 0 .. n : j \in U
    BY <1>8, <2>1, Stepwise
  <2>3. n \in U
    BY <2>2
  <2> HIDE DEF SoFar
  <2> QED
    BY <2>3 DEF U
<1>11. /\ r \in Seq(Nat) /\ Len(r) = n + 1 /\ r[1] = i
       /\ \A k \in 1 .. n : r[k + 1] = Cell(above[k + 1], r[k], above[k], Cost(s[i], t[k]))
  BY <1>6, <1>10
<1>12. \A j \in 1 .. n + 1 : r[j] \in Nat
  BY <1>11
<1> QED
  BY <1>11, <1>12 DEF Row, Below

LEMMA MatrixIs ==
    ASSUME NEW s, NEW t, NEW l \in Nat, l = Len(s), NEW n \in Nat, n = Len(t),
           NEW M, M = Matrix(s, t)
    PROVE  /\ \A i \in 0 .. l : Row(n, M[i])
           /\ \A j \in 1 .. n + 1 : M[0][j] = j - 1
           /\ \A i \in 1 .. l : Below(M[i - 1], M[i], s, t, n, i)
<1>1. PICK first : first = [j \in 1 .. n + 1 |-> j - 1]
  OBVIOUS
<1> DEFINE A(q, j) == NextRow(q, s, t, j)
           Solves(f, m) == f = [j \in 0 .. m |-> IF j = 0 THEN first ELSE A(f[j - 1], j)]
           T == {m \in 0 .. l : \E f : Solves(f, m)}
<1> HIDE DEF A
<1>2. 0 \in T
  <2> DEFINE f == [k \in 0 .. 0 |-> first]
  <2>1. Solves(f, 0)
    <3>1. \A k \in 0 .. 0 : k = 0
      OBVIOUS
    <3> QED
      BY <3>1
  <2> HIDE DEF f, Solves
  <2>2. \E h : Solves(h, 0)
    BY <2>1
  <2> QED
    BY <2>2
<1>3. ASSUME NEW m \in 0 .. l, m < l, m \in T PROVE m + 1 \in T
  <2>1. PICK f : Solves(f, m)
    BY <1>3
  <2> DEFINE g == [k \in 0 .. m + 1 |-> IF k <= m THEN f[k] ELSE A(f[m], m + 1)]
  <2>2. ASSUME NEW k \in 0 .. m + 1 PROVE g[k] = IF k = 0 THEN first ELSE A(g[k - 1], k)
    <3>1. CASE k = m + 1
      <4>1. g[k] = A(f[m], k) /\ g[k - 1] = f[m] /\ k # 0
        BY <3>1
      <4> QED
        BY <4>1
    <3>2. CASE k # m + 1
      <4>1. k \in 0 .. m /\ g[k] = f[k]
        BY <3>2
      <4>2. k # 0 => g[k - 1] = f[k - 1]
        BY <4>1
      <4>3. f[k] = IF k = 0 THEN first ELSE A(f[k - 1], k)
        BY <2>1, <4>1
      <4> HIDE DEF g
      <4> QED
        BY <4>1, <4>2, <4>3
    <3> QED
      BY <3>1, <3>2
  <2>3. Solves(g, m + 1)
    <3>1. g = [k \in 0 .. m + 1 |-> g[k]]
      OBVIOUS
    <3> HIDE DEF g
    <3> QED
      BY <2>2, <3>1
  <2>4. m + 1 \in 0 .. l
    BY <1>3
  <2> HIDE DEF Solves, g
  <2> QED
    BY <2>3, <2>4
<1>4. l \in T
  <2> HIDE DEF T
  <2>1. \A m \in 0 .. l : m < l /\ m \in T => m + 1 \in T
    BY <1>3
  <2>2. \A m \in 0 .. l : m \in T
    BY <1>2, <2>1, Stepwise
  <2> QED
    BY <2>2
<1>5. M = CHOOSE h : Solves(h, l)
  BY <1>1, Zenon DEF Matrix, A
<1>6. Solves(M, l)
  <2>1. \E h : Solves(h, l)
    BY <1>4
  <2> HIDE DEF Solves
  <2> QED
    BY <1>5, <2>1
<1>7. ASSUME NEW j \in 0 .. l PROVE M[j] = IF j = 0 THEN first ELSE A(M[j - 1], j)
  BY <1>6, Zenon
<1> HIDE DEF Solves, T
<1>8. M[0] = first
  BY <1>7
<1>9. \A j \in 1 .. l : M[j] = NextRow(M[j - 1], s, t, j)
  <2> TAKE j \in 1 .. l
  <2>1. j \in 0 .. l /\ j # 0
    OBVIOUS
  <2> QED
    BY <1>7, <2>1 DEF A
<1>10. Row(n, first)
  BY <1>1 DEF Row
<1> DEFINE U == {j \in 0 .. l : Row(n, M[j])}
<1>11. 0 \in U
  BY <1>8, <1>10
<1>12. ASSUME NEW j \in 0 .. l, j < l, Row(n, M[j])
       PROVE  Row(n, M[j + 1]) /\ Below(M[j], M[j + 1], s, t, n, j + 1)
  <2>1. PICK k \in 1 .. l : k = j + 1 /\ k - 1 = j /\ k \in Nat
    BY <1>12
  <2>2. PICK above, r : above = M[j] /\ r = M[k]
    OBVIOUS
  <2>3. r = NextRow(above, s, t, k)
    BY <1>9, <2>1, <2>2
  <2>4. Row(n, r) /\ Below(above, r, s, t, n, k)
    <3>1. Row(n, above)
      BY <1>12, <2>2
    <3> QED
      BY <2>1, <2>3, <3>1, NextRowIs
  <2> QED
    BY <2>1, <2>2, <2>4
<1>13. \A i \in 0 .. l : Row(n, M[i])
  <2>1. \A j \in 0 .. l : j < l /\ j \in U => j + 1 \in U
    <3> TAKE j \in 0 .. l
    <3>1. j < l => j + 1 \in 0 .. l
      OBVIOUS
    <3> QED
      BY <1>12, <3>1
  <2> HIDE DEF U
  <2>2. \A j \in 0 .. l : j \in U
    BY <1>11, <2>1, Stepwise
  <2> QED
    BY <2>2 DEF U
<1>14. \A i \in 1 .. l : Below(M[i - 1], M[i], s, t, n, i)
  <2> TAKE i \in 1 .. l
  <2>1. PICK j \in 0 .. l : j = i - 1 /\ j < l /\ j + 1 = i
    OBVIOUS
  <2>2. Below(M[j], M[j + 1], s, t, n, j + 1)
    BY <1>12, <1>13, <2>1
  <2> QED
    BY <2>1, <2>2
<1>15. \A j \in 1 .. n + 1 : M[0][j] = j - 1
  BY <1>1, <1>8
<1> QED
  BY <1>13, <1>14, <1>15

LEMMA DistanceIsNat ==
    ASSUME NEW s, NEW t, Len(s) \in Nat, Len(t) \in Nat
    PROVE  Levenshtein(s, t) \in Nat
<1>1. PICK l \in Nat, n \in Nat : l = Len(s) /\ n = Len(t)
  OBVIOUS
<1>2. PICK M : M = Matrix(s, t)
  OBVIOUS
<1>3. \A i \in 0 .. l : Row(n, M[i])
  BY <1>1, <1>2, MatrixIs
<1>4. Row(n, M[l]) /\ n + 1 \in 1 .. n + 1
  BY <1>3
<1>5. M[l][n + 1] \in Nat
  BY <1>4 DEF Row
<1> QED
  BY <1>1, <1>2, <1>5 DEF Levenshtein

(***************************************************************************)
(* The closest candidates.                                                 *)
(***************************************************************************)
\* Every candidate has a distance, and a place of its own.
Comparable(A) ==
    /\ IsFiniteSet(A)
    /\ \A x \in A : x.distance \in Nat /\ x.place \in Nat
    /\ \A x, y \in A : x.place = y.place => x = y

\* How many candidates m does not come before.
Rank(A, m) == Cardinality({x \in A : NotAfter(x, m)})

LEMMA NotAfterOrders ==
    ASSUME NEW A, Comparable(A)
    PROVE  /\ \A x \in A : NotAfter(x, x)
           /\ \A x, y \in A : NotAfter(x, y) \/ NotAfter(y, x)
           /\ \A x, y \in A : NotAfter(x, y) /\ NotAfter(y, x) => x = y
           /\ \A x, y, z \in A : NotAfter(x, y) /\ NotAfter(y, z) => NotAfter(x, z)
<1>1. /\ \A x \in A : x.distance \in Nat /\ x.place \in Nat
      /\ \A x, y \in A : x.place = y.place => x = y
  BY DEF Comparable
<1>2. \A x \in A : NotAfter(x, x)
  BY <1>1 DEF NotAfter
<1>3. \A x, y \in A : NotAfter(x, y) \/ NotAfter(y, x)
  BY <1>1 DEF NotAfter
<1>4. \A x, y \in A : NotAfter(x, y) /\ NotAfter(y, x) => x = y
  BY <1>1 DEF NotAfter
<1>5. \A x, y, z \in A : NotAfter(x, y) /\ NotAfter(y, z) => NotAfter(x, z)
  BY <1>1 DEF NotAfter
<1> QED
  BY <1>2, <1>3, <1>4, <1>5

\* Ranks tell the candidates apart, and every rank is somebody's.
LEMMA RankIs ==
    ASSUME NEW A, Comparable(A)
    PROVE  /\ \A x, y \in A : x # y /\ NotAfter(x, y) => Rank(A, x) < Rank(A, y)
           /\ \A m \in A : Rank(A, m) \in 1 .. Cardinality(A)
           /\ \A k \in 1 .. Cardinality(A) : \E m \in A : Rank(A, m) = k
<1>1. IsFiniteSet(A) /\ Cardinality(A) \in Nat
  BY FS_CardinalityType DEF Comparable
<1> DEFINE upto(m) == {x \in A : NotAfter(x, m)}
<1>2. \A m \in A : IsFiniteSet(upto(m)) /\ Cardinality(upto(m)) \in Nat /\ Cardinality(upto(m)) <= Cardinality(A)
  <2> TAKE m \in A
  <2>1. upto(m) \in SUBSET A
    OBVIOUS
  <2> HIDE DEF upto
  <2> QED
    BY <1>1, <2>1, FS_Subset, FS_CardinalityType
<1>3. ASSUME NEW x \in A, NEW y \in A, x # y, NotAfter(x, y) PROVE Cardinality(upto(x)) < Cardinality(upto(y))
  <2>1. upto(x) \in SUBSET upto(y)
    BY <1>3, NotAfterOrders
  <2>2. y \in upto(y) /\ y \notin upto(x)
    BY <1>3, NotAfterOrders
  <2> HIDE DEF upto
  <2>3. Cardinality(upto(x)) <= Cardinality(upto(y)) /\ Cardinality(upto(x)) # Cardinality(upto(y))
    BY <1>2, <2>1, <2>2, FS_Subset
  <2> QED
    BY <1>2, <2>3
<1>4. ASSUME NEW m \in A PROVE Cardinality(upto(m)) \in 1 .. Cardinality(A)
  <2>1. m \in upto(m)
    BY NotAfterOrders
  <2> HIDE DEF upto
  <2>2. Cardinality(upto(m)) # 0
    BY <1>2, <2>1, FS_EmptySet
  <2> QED
    BY <1>1, <1>2, <2>2
<1> DEFINE rank == [m \in A |-> Cardinality(upto(m))]
<1>5. rank \in Injection(A, 1 .. Cardinality(A))
  <2> HIDE DEF upto
  <2>1. rank \in [A -> 1 .. Cardinality(A)]
    BY <1>4
  <2>2. ASSUME NEW x \in A, NEW y \in A, x # y PROVE rank[x] # rank[y]
    <3>1. NotAfter(x, y) \/ NotAfter(y, x)
      BY NotAfterOrders
    <3>2. rank[x] < rank[y] \/ rank[y] < rank[x]
      BY <1>3, <2>2, <3>1
    <3>3. rank[x] \in Nat /\ rank[y] \in Nat
      BY <1>2
    <3> QED
      BY <3>2, <3>3
  <2> HIDE DEF rank
  <2> QED
    BY <2>1, <2>2 DEF Injection, IsInjective
<1>6. rank \in Surjection(A, 1 .. Cardinality(A))
  <2> HIDE DEF rank, upto
  <2>1. PICK n \in Nat : n = Cardinality(A)
    BY <1>1
  <2>2. IsFiniteSet(1 .. n) /\ Cardinality(1 .. n) = n
    BY FS_Interval
  <2>3. rank \in Injection(A, 1 .. n)
    BY <1>5, <2>1
  <2>4. rank \in Surjection(A, 1 .. n)
    BY <1>1, <2>1, <2>2, <2>3, FS_Injection
  <2> QED
    BY <2>1, <2>4
<1>7. \A k \in 1 .. Cardinality(A) : \E m \in A : Cardinality(upto(m)) = k
  <2> HIDE DEF upto
  <2> QED
    BY <1>6 DEF Surjection
<1> QED
  BY <1>3, <1>4, <1>7 DEF Rank

\* The n candidates of the lowest ranks, in order.
Ranks(A, n, r) ==
    /\ n \in Nat /\ DOMAIN r = 1 .. n /\ r = [k \in 1 .. n |-> r[k]]
    /\ \A k \in 1 .. n : r[k] \in A /\ Rank(A, r[k]) = k

LEMMA ClosestIs ==
    ASSUME NEW cs, NEW limit \in Nat, NEW A, A = ToSet(cs), Comparable(A), Len(cs) = Cardinality(A)
    PROVE  \E n \in Nat : /\ n <= limit /\ (n = limit \/ n = Cardinality(A))
                          /\ Ranks(A, n, ClosestOf(cs, limit))
<1>1. PICK c \in Nat : c = Cardinality(A)
  BY FS_CardinalityType DEF Comparable
<1>2. PICK n : n = Least({limit, c})
  OBVIOUS
<1>3. n \in Nat /\ n <= limit /\ n <= c /\ (n = limit \/ n = c)
  <2> DEFINE T == {limit, c}
  <2>1. T \in SUBSET Nat /\ T # {}
    OBVIOUS
  <2>2. Least(T) \in T /\ \A y \in T : Least(T) <= y
    <3> HIDE DEF T
    <3> QED
      BY <2>1, LeastIs
  <2> QED
    BY <1>2, <2>2
<1>4. ClosestOf(cs, limit) = [k \in 1 .. n |-> CHOOSE m \in A : Rank(A, m) = k]
  BY <1>1, <1>2 DEF ClosestOf, Rank
<1>5. \A k \in 1 .. n : \E m \in A : Rank(A, m) = k
  <2>1. \A k \in 1 .. n : k \in 1 .. c
    BY <1>3
  <2> QED
    BY <1>1, <2>1, RankIs
<1>6. PICK r : r = ClosestOf(cs, limit)
  OBVIOUS
<1>7. \A k \in 1 .. n : r[k] \in A /\ Rank(A, r[k]) = k
  BY <1>4, <1>5, <1>6
<1>8. DOMAIN r = 1 .. n /\ r = [k \in 1 .. n |-> r[k]]
  BY <1>4, <1>6
<1> QED
  BY <1>1, <1>3, <1>6, <1>7, <1>8 DEF Ranks

\* A candidate of InReach is a name near enough, with its place.
Candidate(names, distances, i) == [name |-> names[i], distance |-> distances[i], place |-> i]

LEMMA InReachIs ==
    ASSUME NEW target, NEW N \in Nat, NEW names, DOMAIN names = 1 .. N, Len(names) = N, NEW distances,
           \A i \in 1 .. N : distances[i] \in Nat,
           NEW cs, cs = InReach(target, names, distances), NEW A, A = ToSet(cs)
    PROVE  /\ Comparable(A) /\ Len(cs) = Cardinality(A)
           /\ A = {Candidate(names, distances, i) : i \in {i \in 1 .. N : WithinReach(distances[i], Len(target))}}
<1> DEFINE recs == [i \in 1 .. N |-> Candidate(names, distances, i)]
           S == {i \in 1 .. N : WithinReach(distances[i], Len(target))}
<1>1. cs = Keep(recs, S)
  BY DEF InReach, Candidate
<1>2. \A i \in 1 .. N : recs[i] = Candidate(names, distances, i)
  OBVIOUS
<1>3. DOMAIN recs = 1 .. N
  OBVIOUS
<1>4. S \in SUBSET (1 .. N)
  OBVIOUS
<1>5. S = {i \in 1 .. N : WithinReach(distances[i], Len(target))}
  OBVIOUS
<1> HIDE DEF recs, S
<1>6. PICK n : Orders(n, Ascending(S), S)
  BY <1>4, AscendingOrders
<1>7. PICK at : at = Ascending(S)
  OBVIOUS
<1>8. /\ n \in Nat /\ at \in [1 .. n -> S]
      /\ \A i, j \in 1 .. n : i < j => at[i] < at[j]
      /\ \A x \in S : \E k \in 1 .. n : at[k] = x
  BY <1>6, <1>7 DEF Orders
<1>9. cs = [k \in 1 .. n |-> recs[at[k]]]
  <2>1. DOMAIN at = 1 .. n
    BY <1>8
  <2> QED
    BY <1>1, <1>7, <2>1 DEF Keep
<1>10. DOMAIN cs = 1 .. n /\ Len(cs) = n /\ \A k \in 1 .. n : cs[k] = Candidate(names, distances, at[k])
  <2>1. \A k \in 1 .. n : at[k] \in 1 .. N
    BY <1>4, <1>8
  <2>2. DOMAIN cs = 1 .. n /\ \A k \in 1 .. n : cs[k] = Candidate(names, distances, at[k])
    BY <1>2, <1>9, <2>1
  <2>3. Len(cs) = n
    BY <1>8, <1>9
  <2> QED
    BY <2>2, <2>3
<1>11. A = {Candidate(names, distances, i) : i \in S}
  <2>1. A = {cs[k] : k \in 1 .. n}
    BY <1>10 DEF ToSet
  <2>2. ASSUME NEW k \in 1 .. n PROVE cs[k] \in {Candidate(names, distances, i) : i \in S}
    BY <1>8, <1>10
  <2>3. ASSUME NEW i \in S PROVE Candidate(names, distances, i) \in {cs[k] : k \in 1 .. n}
    BY <1>8, <1>10
  <2> QED
    BY <2>1, <2>2, <2>3
<1>12. \A i : /\ Candidate(names, distances, i).place = i
              /\ Candidate(names, distances, i).distance = distances[i]
  BY DEF Candidate
<1>13. /\ \A x \in A : x.distance \in Nat /\ x.place \in Nat
       /\ \A x, y \in A : x.place = y.place => x = y
  <2>1. \A x \in A : \E i \in S : x = Candidate(names, distances, i)
    BY <1>11
  <2>2. \A i \in S : i \in Nat /\ distances[i] \in Nat
    BY <1>4
  <2>3. ASSUME NEW x \in A PROVE x.distance \in Nat /\ x.place \in Nat /\ x = Candidate(names, distances, x.place)
    <3>1. PICK i \in S : x = Candidate(names, distances, i)
      BY <2>1
    <3> QED
      BY <1>12, <2>2, <3>1
  <2>4. ASSUME NEW x \in A, NEW y \in A, x.place = y.place PROVE x = y
    <3>1. x = Candidate(names, distances, x.place) /\ y = Candidate(names, distances, y.place)
      BY <2>3
    <3> QED
      BY <2>4, <3>1
  <2> QED
    BY <2>3, <2>4
<1>14. IsFiniteSet(A) /\ Cardinality(A) = n
  <2>1. cs \in [1 .. n -> A] /\ \A x \in A : \E k \in 1 .. n : cs[k] = x
    <3>1. \A k \in 1 .. n : cs[k] \in A
      BY <1>10 DEF ToSet
    <3>2. cs = [k \in 1 .. n |-> cs[k]]
      BY <1>9
    <3>3. \A x \in A : \E k \in 1 .. n : cs[k] = x
      BY <1>10 DEF ToSet
    <3> QED
      BY <3>1, <3>2, <3>3
  <2>2. ASSUME NEW i \in 1 .. n, NEW j \in 1 .. n, cs[i] = cs[j] PROVE i = j
    <3>1. at[i] = at[j]
      <4>1. cs[i].place = at[i] /\ cs[j].place = at[j]
        BY <1>10, <1>12
      <4> QED
        BY <2>2, <4>1
    <3>2. at[i] \in Nat /\ at[j] \in Nat
      <4>1. at[i] \in S /\ at[j] \in S
        BY <1>8
      <4>2. \A x \in S : x \in 1 .. N
        BY <1>4
      <4> QED
        BY <4>1, <4>2
    <3>3. ~(i < j) /\ ~(j < i)
      BY <1>8, <3>1, <3>2
    <3> QED
      BY <3>3
  <2>3. n \in Nat /\ cs \in [1 .. n -> A]
    BY <1>8, <2>1
  <2>4. \A i, j \in 1 .. n : cs[i] = cs[j] => i = j
    BY <2>2
  <2>5. \A x \in A : \E i \in 1 .. n : cs[i] = x
    BY <2>1
  <2> QED
    BY <2>3, <2>4, <2>5, Numbered, ZenonT(40)
<1>15. Comparable(A)
  BY <1>13, <1>14 DEF Comparable
<1> QED
  BY <1>5, <1>10, <1>11, <1>14, <1>15

\* The full names of the methods.
Known == UNION {{NameOf(i, k) : k \in DOMAIN Protocol[i].commands} : i \in DOMAIN Protocol}

LEMMA KnownIs == \A x : x \in Known <=> \E i, k : IsMethod(i, k) /\ x = NameOf(i, k)
BY DEF Known, IsMethod

LEMMA LowerLength ==
    ASSUME NEW S, NEW s \in Seq(S)
    PROVE  Len(ToLower(s)) = Len(s) /\ DOMAIN ToLower(s) = 1 .. Len(s) /\ Len(s) \in Nat
BY DEF ToLower

LEMMA FarIs ==
    ASSUME NEW S, NEW typed \in Seq(S), NEW x \in Known
    PROVE  MethodDistance(typed, x) \in Nat
<1>1. PICK i, k : IsMethod(i, k) /\ x = NameOf(i, k)
  BY KnownIs
<1>2. Split(x, ".") = <<Protocol[i].domain, Protocol[i].commands[k].name>>
  BY <1>1, KnownParts, Zenon
<1>3. Split(x, ".")[2] = Protocol[i].commands[k].name
  BY <1>2
<1>4. Protocol[i].domain \in Seq(Letters) /\ Protocol[i].commands[k].name \in Seq(Letters)
  BY <1>1, ProtocolFacts DEF IsMethod
<1>5. x \in Seq(DOMAIN LowerOf \cup {"."})
  <2>1. PICK X : X = DOMAIN LowerOf \cup {"."}
    OBVIOUS
  <2>2. PICK a \in Seq(Letters), b \in Seq(Letters) : a = Protocol[i].domain /\ b = Protocol[i].commands[k].name
    BY <1>4
  <2>3. x = a \o <<".">> \o b
    BY <1>1, <2>2, Zenon DEF NameOf, FullName
  <2>4. a \in Seq(X) /\ b \in Seq(X) /\ <<".">> \in Seq(X)
    <3>1. \A c \in Letters : c \in X
      BY <2>1 DEF Letters
    <3>2. "." \in X
      BY <2>1
    <3>3. (\A j \in 1 .. Len(a) : a[j] \in X) /\ \A j \in 1 .. Len(b) : b[j] \in X
      BY <3>1
    <3> QED
      BY <3>2, <3>3
  <2>5. a \o <<".">> \in Seq(X)
    BY <2>4, ConcatProperties
  <2>6. a \o <<".">> \o b \in Seq(X)
    BY <2>4, <2>5, ConcatProperties
  <2> QED
    BY <2>1, <2>3, <2>6
<1>6. PICK t, u, v : t = ToLower(typed) /\ u = ToLower(x) /\ v = ToLower(Split(x, ".")[2])
  OBVIOUS
<1>7. Len(t) \in Nat /\ Len(u) \in Nat /\ Len(v) \in Nat
  BY <1>3, <1>4, <1>5, <1>6, LowerLength
<1>8. Levenshtein(t, u) \in Nat /\ Levenshtein(t, v) \in Nat
  BY <1>7, DistanceIsNat
<1> DEFINE T == {Levenshtein(t, u), Levenshtein(t, v)}
<1>9. Least(T) \in T
  <2>1. T \in SUBSET Nat /\ T # {}
    BY <1>8
  <2> HIDE DEF T
  <2> QED
    BY <2>1, LeastIs
<1>10. MethodDistance(typed, x) = Least(T)
  BY <1>6 DEF MethodDistance
<1> QED
  BY <1>8, <1>9, <1>10

\* r is what is suggested for a typed name among these methods.
Suggested(typed, methods, r) ==
    /\ r \in Seq(ToSet(methods)) /\ Len(r) <= 3
    /\ \A k \in 1 .. Len(r) : r[k] \in ToSet(methods) /\ WithinReach(MethodDistance(typed, r[k]), Len(typed))
    /\ \A i, j \in 1 .. Len(r) : i < j => MethodDistance(typed, r[i]) <= MethodDistance(typed, r[j])
    /\ Distinct(methods) => Distinct(r)
    /\ \A x \in ToSet(methods) \ ToSet(r) : WithinReach(MethodDistance(typed, x), Len(typed)) =>
           /\ Len(r) = 3
           /\ \A k \in 1 .. Len(r) : MethodDistance(typed, r[k]) <= MethodDistance(typed, x)

LEMMA SimilarIs ==
    ASSUME NEW S, NEW typed \in Seq(S), NEW methods \in Seq(Known)
    PROVE  Suggested(typed, methods, SimilarOf(typed, methods))
<1> DEFINE far(x) == MethodDistance(typed, x)
           near(x) == WithinReach(far(x), Len(typed))
<1>1. PICK N \in Nat : N = Len(methods) /\ DOMAIN methods = 1 .. N
  OBVIOUS
<1>2. PICK D : D = [i \in DOMAIN methods |-> far(methods[i])]
  OBVIOUS
<1>3. \A i \in 1 .. N : D[i] = far(methods[i]) /\ D[i] \in Nat /\ methods[i] \in Known
  <2>1. \A i \in 1 .. N : methods[i] \in Known
    BY <1>1
  <2>2. \A x \in Known : far(x) \in Nat
    BY FarIs
  <2> HIDE DEF far
  <2> QED
    BY <1>1, <1>2, <2>1, <2>2
<1>4. PICK cs : cs = InReach(typed, methods, D)
  OBVIOUS
<1>5. PICK A : A = ToSet(cs)
  OBVIOUS
<1>6. /\ Comparable(A) /\ Len(cs) = Cardinality(A)
      /\ A = {Candidate(methods, D, i) : i \in {i \in 1 .. N : WithinReach(D[i], Len(typed))}}
  <2>1. \A i \in 1 .. N : D[i] \in Nat
    BY <1>3
  <2> QED
    BY <1>1, <1>4, <1>5, <2>1, InReachIs
<1>7. PICK c : c = ClosestOf(cs, 3)
  OBVIOUS
<1>8. PICK n \in Nat : n <= 3 /\ (n = 3 \/ n = Cardinality(A)) /\ Ranks(A, n, c)
  <2>1. 3 \in Nat
    OBVIOUS
  <2>2. PICK limit \in Nat : limit = 3
    OBVIOUS
  <2>3. \E n \in Nat : n <= limit /\ (n = limit \/ n = Cardinality(A)) /\ Ranks(A, n, ClosestOf(cs, limit))
    BY <1>5, <1>6, ClosestIs
  <2> QED
    BY <1>7, <2>2, <2>3
<1>9. /\ DOMAIN c = 1 .. n
      /\ \A k \in 1 .. n : c[k] \in A /\ Rank(A, c[k]) = k
  BY <1>8 DEF Ranks
<1>10. PICK r : r = SimilarOf(typed, methods)
  OBVIOUS
<1>11. r = [k \in 1 .. n |-> c[k].name]
  <2>1. r = Names(c)
    BY <1>2, <1>4, <1>7, <1>10 DEF SimilarOf
  <2> QED
    BY <1>9, <2>1 DEF Names
<1>12. ASSUME NEW x \in A
       PROVE  /\ x.place \in 1 .. N /\ x.name = methods[x.place] /\ x.distance = far(x.name)
              /\ near(x.name) /\ x.name \in ToSet(methods)
  <2>1. PICK i \in 1 .. N : WithinReach(D[i], Len(typed)) /\ x = Candidate(methods, D, i)
    BY <1>6
  <2>2. x.place = i /\ x.name = methods[i] /\ x.distance = D[i]
    BY <2>1 DEF Candidate
  <2>3. methods[i] \in ToSet(methods)
    BY <1>1 DEF ToSet
  <2> HIDE DEF far
  <2> QED
    BY <1>3, <2>1, <2>2, <2>3
<1>13. ASSUME NEW p \in 1 .. N, near(methods[p])
       PROVE  /\ Candidate(methods, D, p) \in A
              /\ Candidate(methods, D, p).name = methods[p]
  <2>1. WithinReach(D[p], Len(typed))
    BY <1>3, <1>13
  <2> QED
    BY <1>6, <2>1 DEF Candidate
<1>14. \A x, y \in A : NotAfter(x, y) => far(x.name) <= far(y.name)
  <2>1. \A x \in A : x.distance \in Nat /\ x.place \in Nat
    BY <1>6 DEF Comparable
  <2>2. \A x, y \in A : NotAfter(x, y) => x.distance <= y.distance
    BY <2>1 DEF NotAfter
  <2>3. \A x \in A : x.distance = far(x.name)
    BY <1>12
  <2> HIDE DEF far
  <2> QED
    BY <2>2, <2>3
<1>15. \A x \in A : Rank(A, x) \in 1 .. Cardinality(A)
  BY <1>6, RankIs
<1>16. \A x, y \in A : Rank(A, x) < Rank(A, y) => NotAfter(x, y)
  <2> TAKE x, y \in A
  <2>1. NotAfter(x, y) \/ (NotAfter(y, x) /\ x # y)
    BY <1>6, NotAfterOrders
  <2>2. NotAfter(y, x) /\ x # y => Rank(A, y) < Rank(A, x)
    BY <1>6, RankIs
  <2>3. Rank(A, x) \in Nat /\ Rank(A, y) \in Nat
    BY <1>15
  <2> QED
    BY <2>1, <2>2, <2>3
<1>17. \A x, y \in A : Rank(A, x) = Rank(A, y) => x = y
  <2> TAKE x, y \in A
  <2>1. NotAfter(x, y) \/ NotAfter(y, x)
    BY <1>6, NotAfterOrders
  <2>2. x # y => Rank(A, x) < Rank(A, y) \/ Rank(A, y) < Rank(A, x)
    BY <1>6, <2>1, RankIs
  <2>3. Rank(A, x) \in Nat /\ Rank(A, y) \in Nat
    BY <1>15
  <2> QED
    BY <2>2, <2>3
<1>18. \A k \in 1 .. n : c[k] \in A /\ r[k] = c[k].name
  BY <1>9, <1>11
<1>19. r \in Seq(ToSet(methods)) /\ Len(r) = n /\ DOMAIN r = 1 .. n
  <2>1. \A k \in 1 .. n : c[k].name \in ToSet(methods)
    BY <1>12, <1>18
  <2> QED
    BY <1>11, <2>1
<1> HIDE DEF far, near
<1>20. \A k \in 1 .. n : r[k] \in ToSet(methods) /\ near(r[k])
  BY <1>12, <1>18
<1>21. \A i, j \in 1 .. n : i < j => far(r[i]) <= far(r[j])
  <2> TAKE i, j \in 1 .. n
  <2>1. i < j => NotAfter(c[i], c[j])
    BY <1>9, <1>16
  <2> QED
    BY <1>14, <1>18, <2>1
<1>22. ASSUME Distinct(methods) PROVE Distinct(r)
  <2>1. ASSUME NEW i \in 1 .. n, NEW j \in 1 .. n, r[i] = r[j] PROVE i = j
    <3>1. methods[c[i].place] = methods[c[j].place] /\ c[i].place \in 1 .. N /\ c[j].place \in 1 .. N
      BY <1>12, <1>18, <2>1
    <3>2. c[i].place = c[j].place
      BY <1>1, <1>22, <3>1 DEF Distinct
    <3>3. c[i] = c[j]
      BY <1>6, <1>18, <3>2 DEF Comparable
    <3> QED
      BY <1>9, <3>3
  <2> QED
    BY <1>19, <2>1 DEF Distinct
<1>23. ASSUME NEW x \in ToSet(methods) \ ToSet(r), near(x)
       PROVE  n = 3 /\ \A k \in 1 .. n : far(r[k]) <= far(x)
  <2>1. PICK p \in 1 .. N : x = methods[p]
    BY <1>1 DEF ToSet
  <2>2. PICK y \in A : y.name = x
    BY <1>13, <1>23, <2>1
  <2>3. \A k \in 1 .. n : y # c[k]
    <3>1. \A k \in 1 .. n : r[k] \in ToSet(r)
      BY <1>19 DEF ToSet
    <3> QED
      BY <1>18, <1>23, <2>2, <3>1
  <2>4. Rank(A, y) \notin 1 .. n
    <3>1. \A k \in 1 .. n : c[k] \in A /\ Rank(A, c[k]) = k
      BY <1>9
    <3> QED
      BY <1>17, <2>3, <3>1
  <2>5. Rank(A, y) \in 1 .. Cardinality(A) /\ Cardinality(A) \in Nat
    BY <1>6, <1>15, FS_CardinalityType DEF Comparable
  <2>6. n # Cardinality(A)
    BY <2>4, <2>5
  <2>7. \A k \in 1 .. n : k < Rank(A, y)
    BY <2>4, <2>5
  <2>8. \A k \in 1 .. n : NotAfter(c[k], y)
    BY <1>9, <1>16, <2>7
  <2> QED
    BY <1>8, <1>14, <1>18, <2>2, <2>6, <2>8
<1> QED
  BY <1>8, <1>10, <1>19, <1>20, <1>21, <1>22, <1>23 DEF Suggested, far, near

\* No two methods have a name in common.
LEMMA NamesDiffer ==
    ASSUME NEW i, NEW j, IsMethod(i, j), NEW k, NEW l, IsMethod(k, l), NameOf(i, j) = NameOf(k, l)
    PROVE  i = k /\ j = l
<1>1. PICK a, b : a = Protocol[i].domain /\ b = Protocol[i].commands[j].name
  OBVIOUS
<1>2. PICK c, d : c = Protocol[k].domain /\ d = Protocol[k].commands[l].name
  OBVIOUS
<1>3. Split(NameOf(i, j), ".") = <<a, b>> /\ FindDomain(a) = i /\ FindCommand(a, b) = j
  BY <1>1, KnownParts, Zenon
<1>4. Split(NameOf(k, l), ".") = <<c, d>> /\ FindDomain(c) = k /\ FindCommand(c, d) = l
  BY <1>2, KnownParts, Zenon
<1>5. <<a, b>> = <<c, d>>
  BY <1>3, <1>4, Zenon
<1>6. a = c /\ b = d
  BY <1>5
<1> QED
  BY <1>3, <1>4, <1>6

\* The methods of a domain of the protocol, and their names.
LEMMA DomainMethodsAre ==
    ASSUME NEW i \in DOMAIN Protocol
    PROVE  /\ GetDomainMethods(Protocol[i].domain) = [k \in DOMAIN Protocol[i].commands |-> MethodOf(i, k)]
           /\ DomainMethodNames(Protocol[i]) = [k \in DOMAIN Protocol[i].commands |-> NameOf(i, k)]
<1>1. PICK a : a = Protocol[i].domain
  OBVIOUS
<1>2. FindDomain(a) = i /\ i # 0
  BY <1>1, FindsDomain, ProtocolFacts
<1>3. Commands(a) = Protocol[i].commands
  BY <1>2 DEF Commands
<1>4. GetDomainMethods(a) = [k \in DOMAIN Protocol[i].commands |-> MethodOf(i, k)]
  BY <1>2, <1>3 DEF GetDomainMethods, MethodOf
<1>5. \A k : MethodOf(i, k).name = NameOf(i, k)
  BY DEF MethodOf, MethodSchema, NameOf
<1>6. DomainMethodNames(Protocol[i]) = [k \in DOMAIN Protocol[i].commands |-> MethodOf(i, k).name]
  BY <1>1, <1>4 DEF DomainMethodNames
<1> QED
  BY <1>1, <1>4, <1>5, <1>6

\* What a typed name is compared with: names of the protocol, all of them when no
\* domain is given.
LEMMA SearchedIs ==
    ASSUME NEW typed, NEW domain
    PROVE  \E methods \in Seq(Known) :
               /\ FindSimilarMethods(typed, domain) = SimilarOf(typed, methods)
               /\ domain = None => ToSet(methods) = Known /\ Distinct(methods)
<1> DEFINE S == {i \in DOMAIN Protocol : domain = None \/ ToLower(Protocol[i].domain) = ToLower(domain)}
<1>1. PICK searched : searched = Keep(Protocol, S)
  OBVIOUS
<1>2. PICK seqs : seqs = [i \in DOMAIN searched |-> DomainMethodNames(searched[i])]
  OBVIOUS
<1>3. PICK methods : methods = FlattenSeq(seqs)
  OBVIOUS
<1>4. FindSimilarMethods(typed, domain) = SimilarOf(typed, methods)
  BY <1>1, <1>2, <1>3 DEF FindSimilarMethods
<1>5. S \in SUBSET DOMAIN Protocol
  OBVIOUS
<1>6. domain = None => S = DOMAIN Protocol
  OBVIOUS
<1> HIDE DEF S
<1>7. PICK X : X = ToSet(Protocol)
  OBVIOUS
<1>8. Protocol \in Seq(X)
  BY <1>7, ProtocolAssumption
<1>9. searched \in Seq(X) /\ ToSet(searched) = {Protocol[i] : i \in S}
  BY <1>1, <1>5, <1>8, KeepIs
<1>10. PICK n \in Nat : n = Len(searched) /\ DOMAIN searched = 1 .. n
  BY <1>9
<1>11. \A q \in 1 .. n : \E i \in S : searched[q] = Protocol[i]
  BY <1>9, <1>10 DEF ToSet
<1>12. ASSUME NEW i \in DOMAIN Protocol
       PROVE  /\ DomainMethodNames(Protocol[i]) \in Seq(Known)
              /\ DOMAIN DomainMethodNames(Protocol[i]) = DOMAIN Protocol[i].commands
              /\ \A k \in DOMAIN Protocol[i].commands :
                    DomainMethodNames(Protocol[i])[k] = NameOf(i, k) /\ IsMethod(i, k)
  <2>1. DomainMethodNames(Protocol[i]) = [k \in DOMAIN Protocol[i].commands |-> NameOf(i, k)]
    BY DomainMethodsAre
  <2>2. PICK m \in Nat : m = Len(Protocol[i].commands) /\ DOMAIN Protocol[i].commands = 1 .. m
    BY ProtocolFacts
  <2>3. \A k \in 1 .. m : NameOf(i, k) \in Known /\ IsMethod(i, k)
    BY <2>2, KnownIs DEF IsMethod
  <2> QED
    BY <2>1, <2>2, <2>3
<1>13. seqs \in Seq(Seq(Known)) /\ Len(seqs) = n
  <2>1. \A q \in 1 .. n : DomainMethodNames(searched[q]) \in Seq(Known)
    BY <1>5, <1>11, <1>12
  <2>2. seqs = [q \in 1 .. n |-> DomainMethodNames(searched[q])]
    BY <1>2, <1>10
  <2> QED
    BY <2>1, <2>2
<1>14. /\ methods \in Seq(Known)
       /\ \A x : x \in ToSet(methods) <=> \E q \in 1 .. n : x \in ToSet(seqs[q])
       /\ Apart(seqs) => Distinct(methods)
  BY <1>3, <1>13, FlattenIs
<1>15. ASSUME domain = None PROVE ToSet(methods) = Known /\ Distinct(methods)
  <2>1. searched = Protocol
    BY <1>1, <1>6, <1>8, <1>15, KeepAll
  <2>2. \A q \in 1 .. n : q \in DOMAIN Protocol /\ seqs[q] = DomainMethodNames(Protocol[q])
    BY <1>2, <1>10, <2>1
  <2>3. ASSUME NEW q \in 1 .. n
        PROVE  /\ ToSet(seqs[q]) = {NameOf(q, k) : k \in DOMAIN Protocol[q].commands}
               /\ Distinct(seqs[q])
    <3>1. /\ DOMAIN seqs[q] = DOMAIN Protocol[q].commands
          /\ \A k \in DOMAIN Protocol[q].commands : seqs[q][k] = NameOf(q, k) /\ IsMethod(q, k)
      BY <1>12, <2>2
    <3>2. ToSet(seqs[q]) = {NameOf(q, k) : k \in DOMAIN Protocol[q].commands}
      BY <3>1 DEF ToSet
    <3>3. \A k, l \in DOMAIN seqs[q] : seqs[q][k] = seqs[q][l] => k = l
      BY <3>1, NamesDiffer
    <3> QED
      BY <3>2, <3>3 DEF Distinct
  <2>4. ToSet(methods) = Known
    <3>1. ASSUME NEW x, x \in Known PROVE x \in ToSet(methods)
      <4>1. PICK i, k : IsMethod(i, k) /\ x = NameOf(i, k)
        BY <3>1, KnownIs
      <4>2. i \in 1 .. n /\ k \in DOMAIN Protocol[i].commands
        BY <1>10, <2>1, <4>1 DEF IsMethod
      <4>3. x \in ToSet(seqs[i])
        BY <2>3, <4>1, <4>2
      <4> QED
        BY <1>14, <4>2, <4>3
    <3>2. ASSUME NEW x, x \in ToSet(methods) PROVE x \in Known
      <4>1. PICK q \in 1 .. n : x \in ToSet(seqs[q])
        BY <1>14, <3>2
      <4>2. PICK k \in DOMAIN Protocol[q].commands : x = NameOf(q, k)
        BY <2>3, <4>1
      <4>3. IsMethod(q, k)
        BY <2>2, <4>2 DEF IsMethod
      <4> QED
        BY <4>2, <4>3, KnownIs
    <3> QED
      BY <3>1, <3>2
  <2>5. ASSUME NEW p \in 1 .. n, NEW q \in 1 .. n, NEW x, x \in ToSet(seqs[p]), x \in ToSet(seqs[q])
        PROVE  p = q
    <3>1. PICK k \in DOMAIN Protocol[p].commands : x = NameOf(p, k)
      BY <2>3, <2>5
    <3>2. PICK l \in DOMAIN Protocol[q].commands : x = NameOf(q, l)
      BY <2>3, <2>5
    <3>3. IsMethod(p, k) /\ IsMethod(q, l)
      BY <2>2, <3>1, <3>2 DEF IsMethod
    <3> QED
      BY <3>1, <3>2, <3>3, NamesDiffer
  <2>6. Apart(seqs)
    <3>1. \A p, q \in 1 .. n : ToSet(seqs[p]) \cap ToSet(seqs[q]) # {} => p = q
      BY <2>5
    <3> QED
      BY <1>13, <2>3, <3>1 DEF Apart
  <2> QED
    BY <1>14, <2>4, <2>6
<1> QED
  BY <1>4, <1>14, <1>15

\* Whatever is suggested is a name of the protocol.
LEMMA SuggestsKnown ==
    ASSUME NEW S, NEW typed \in Seq(S), NEW domain, NEW x \in ToSet(FindSimilarMethods(typed, domain))
    PROVE  x \in Known
<1>1. PICK methods \in Seq(Known) : FindSimilarMethods(typed, domain) = SimilarOf(typed, methods)
  BY SearchedIs
<1>2. PICK r : r = SimilarOf(typed, methods)
  OBVIOUS
<1>3. Suggested(typed, methods, r)
  BY <1>2, SimilarIs
<1>4. ToSet(r) \subseteq ToSet(methods)
  BY <1>3 DEF Suggested, ToSet
<1>5. ToSet(methods) \subseteq Known
  BY DEF ToSet
<1> QED
  BY <1>1, <1>2, <1>4, <1>5

\* Names that agree with those of a method but for the case of their letters.
LEMMA SpelledAlike ==
    ASSUME NEW S, NEW name \in Seq(S), NEW i, NEW k, IsMethod(i, k),
           ToLower(Protocol[i].domain) = ToLower(Split(name, ".")[1]),
           ToLower(Protocol[i].commands[k].name) = ToLower(Split(name, ".")[2]),
           Len(Split(name, ".")) # 1
    PROVE  ToLower(NameOf(i, k)) = ToLower(SubSeq(name, 1, Len(NameOf(i, k))))
<1>1. PICK dot : dot = "."
  OBVIOUS
<1>2. PICK n \in Nat : \E cut : Cuts(name, dot, n, cut)
  BY CutsOf
<1>3. PICK cut : Cuts(name, dot, n, cut)
  BY <1>2
<1>4. PICK p : p = CutAt(name, cut, n)
  OBVIOUS
<1>5. p = Split(name, dot) /\ Len(p) = n + 1
  <2>1. p = Split(name, dot)
    BY <1>3, <1>4, SplitAt
  <2>2. Len(CutAt(name, cut, n)) = n + 1
    BY DEF CutAt
  <2> QED
    BY <1>4, <2>1, <2>2
<1>6. n >= 1
  <2>1. Len(Split(name, dot)) # 1
    BY <1>1, Zenon
  <2> QED
    BY <1>5, <2>1
<1>7. PICK L \in Nat : L = Len(name)
  OBVIOUS
<1>8. /\ cut \in [0 .. n + 1 -> Nat] /\ cut[0] = 0 /\ cut[n + 1] = L + 1
      /\ \A x, y \in 0 .. n + 1 : x < y => cut[x] < cut[y]
      /\ \A x \in 1 .. L : name[x] = dot <=> \E y \in 1 .. n : cut[y] = x
  BY <1>3, <1>7 DEF Cuts
<1>9. IsPiece(S, name, cut, 1, p[1]) /\ IsPiece(S, name, cut, 2, p[2])
  <2>1. 1 \in 1 .. n + 1 /\ 2 \in 1 .. n + 1
    BY <1>6
  <2>2. \A m \in 1 .. n + 1 : \A piece : piece = CutAt(name, cut, n)[m] => IsPiece(S, name, cut, m, piece)
    BY <1>3, PiecesOf
  <2> QED
    BY <1>4, <2>1, <2>2
<1>10. PICK a \in Seq(Letters), b \in Seq(Letters) :
           a = Protocol[i].domain /\ b = Protocol[i].commands[k].name
  BY ProtocolFacts DEF IsMethod
<1>11. PICK u \in Nat, v \in Nat : u = Len(a) /\ v = Len(b)
  OBVIOUS
<1>12. ToLower(a) = ToLower(p[1]) /\ ToLower(b) = ToLower(p[2])
  BY <1>1, <1>5, <1>10
<1>13. Len(p[1]) = u /\ Len(p[2]) = v /\ p[1] \in Seq(S) /\ p[2] \in Seq(S)
  <2>1. p[1] \in Seq(S) /\ p[2] \in Seq(S)
    BY <1>9 DEF IsPiece
  <2>2. Len(ToLower(p[1])) = Len(p[1]) /\ Len(ToLower(p[2])) = Len(p[2])
    BY <2>1, LowerLength
  <2>3. Len(ToLower(a)) = Len(a) /\ Len(ToLower(b)) = Len(b)
    BY LowerLength
  <2> QED
    BY <1>11, <1>12, <2>1, <2>2, <2>3
<1>14. cut[1] = u + 1 /\ cut[2] = u + v + 2
  <2>1. 1 - 1 = 0 /\ 2 - 1 = 1
    OBVIOUS
  <2>2. Len(p[1]) = cut[1] - 1 - cut[0] /\ cut[1] \in Nat
    BY <1>9, <2>1 DEF IsPiece
  <2>3. Len(p[2]) = cut[2] - 1 - cut[1] /\ cut[2] \in Nat
    BY <1>9, <2>1 DEF IsPiece
  <2>4. PICK x \in Nat, y \in Nat : x = cut[1] /\ y = cut[2]
    BY <2>2, <2>3
  <2>5. u = x - 1 - 0 /\ v = y - 1 - x
    BY <1>8, <1>13, <2>2, <2>3, <2>4
  <2>6. x = u + 1 /\ y = u + v + 2
    BY <2>5
  <2> QED
    BY <2>4, <2>6
<1>15. u + v + 1 <= L
  <2>1. 2 = n + 1 \/ cut[2] < cut[n + 1]
    <3>1. 2 \in 0 .. n + 1 /\ n + 1 \in 0 .. n + 1 /\ (2 = n + 1 \/ 2 < n + 1)
      BY <1>6
    <3> QED
      BY <1>8, <3>1
  <2> QED
    BY <1>8, <1>14, <2>1
<1>16. \A x \in 1 .. u : p[1][x] = name[x]
  <2>1. 1 - 1 = 0
    OBVIOUS
  <2>2. \A x \in 1 .. Len(p[1]) : p[1][x] = name[cut[0] + x]
    BY <1>9, <2>1 DEF IsPiece
  <2> QED
    BY <1>8, <1>13, <2>2
<1>17. \A x \in 1 .. v : p[2][x] = name[u + 1 + x]
  <2>1. 2 - 1 = 1
    OBVIOUS
  <2>2. \A x \in 1 .. Len(p[2]) : p[2][x] = name[cut[1] + x]
    BY <1>9, <2>1 DEF IsPiece
  <2> QED
    BY <1>13, <1>14, <2>2
<1>18. name[u + 1] = dot
  <2>1. u + 1 \in 1 .. L /\ 1 \in 1 .. n
    BY <1>6, <1>15
  <2> QED
    BY <1>8, <1>14, <2>1
<1>19. PICK t : t = NameOf(i, k)
  OBVIOUS
<1>20. t = a \o <<dot>> \o b
  BY <1>1, <1>10, <1>19, Zenon DEF NameOf, FullName
<1>21. /\ Len(t) = u + 1 + v /\ DOMAIN t = 1 .. u + 1 + v
       /\ \A x \in 1 .. u : t[x] = a[x]
       /\ t[u + 1] = dot
       /\ \A x \in 1 .. v : t[u + 1 + x] = b[x]
  BY <1>11, <1>20, Joined
<1>22. ASSUME NEW x \in 1 .. u + 1 + v PROVE LowerOf[t[x]] = LowerOf[name[x]]
  <2>1. /\ \A y \in 1 .. u : LowerOf[a[y]] = LowerOf[p[1][y]]
        /\ \A y \in 1 .. v : LowerOf[b[y]] = LowerOf[p[2][y]]
    <3>1. DOMAIN a = 1 .. u /\ DOMAIN p[1] = 1 .. u /\ DOMAIN b = 1 .. v /\ DOMAIN p[2] = 1 .. v
      BY <1>11, <1>13
    <3>2. \A y \in 1 .. u : ToLower(a)[y] = LowerOf[a[y]] /\ ToLower(p[1])[y] = LowerOf[p[1][y]]
      BY <3>1 DEF ToLower
    <3>3. \A y \in 1 .. v : ToLower(b)[y] = LowerOf[b[y]] /\ ToLower(p[2])[y] = LowerOf[p[2][y]]
      BY <3>1 DEF ToLower
    <3> QED
      BY <1>12, <3>2, <3>3
  <2>2. CASE x \in 1 .. u
    BY <1>16, <1>21, <2>1, <2>2
  <2>3. CASE x = u + 1
    BY <1>18, <1>21, <2>3
  <2>4. CASE x > u + 1
    <3>1. PICK y \in 1 .. v : x = u + 1 + y
      <4>1. x - (u + 1) \in 1 .. v /\ x = u + 1 + (x - (u + 1))
        BY <2>4
      <4> QED
        BY <4>1
    <3> QED
      BY <1>17, <1>21, <2>1, <3>1, ZenonT(40)
  <2> QED
    BY <2>2, <2>3, <2>4
<1>23. PICK w \in Nat : w = u + 1 + v
  OBVIOUS
<1>24. PICK z : z = SubSeq(name, 1, w)
  OBVIOUS
<1>25. DOMAIN z = 1 .. w /\ \A x \in 1 .. w : z[x] = name[x]
  <2>1. w <= L
    BY <1>15, <1>23
  <2>2. \A x \in 1 .. w : x \in 1 .. L
    BY <2>1
  <2>3. z \in Seq(S) /\ Len(z) = w /\ \A x \in 1 .. w : z[x] = name[x]
    BY <1>7, <1>24, <2>1, <2>2
  <2> QED
    BY <2>3
<1>26. ToLower(t) = ToLower(z)
  <2>1. ToLower(t) = [x \in 1 .. w |-> LowerOf[t[x]]]
    BY <1>21, <1>23 DEF ToLower
  <2>2. ToLower(z) = [x \in 1 .. w |-> LowerOf[z[x]]]
    BY <1>25 DEF ToLower
  <2>3. \A x \in 1 .. w : LowerOf[t[x]] = LowerOf[z[x]]
    BY <1>22, <1>23, <1>25
  <2> QED
    BY <2>1, <2>2, <2>3
<1> QED
  BY <1>19, <1>21, <1>23, <1>24, <1>26

LEMMA SplitParts ==
    ASSUME NEW S, NEW name \in Seq(S), NEW c
    PROVE  Len(Split(name, c)) \in Nat \ {0} /\ \A k \in 1 .. Len(Split(name, c)) : Split(name, c)[k] \in Seq(S)
<1>1. PICK n \in Nat : \E cut : Cuts(name, c, n, cut)
  BY CutsOf
<1>2. PICK cut : Cuts(name, c, n, cut)
  BY <1>1
<1>3. PICK p : p = CutAt(name, cut, n)
  OBVIOUS
<1>4. p = Split(name, c)
  BY <1>2, <1>3, SplitAt
<1>5. Len(p) = n + 1
  BY <1>3 DEF CutAt
<1>6. \A k \in 1 .. n + 1 : IsPiece(S, name, cut, k, p[k])
  <2>1. \A k \in 1 .. n + 1 : \A piece : piece = CutAt(name, cut, n)[k] => IsPiece(S, name, cut, k, piece)
    BY <1>2, PiecesOf
  <2> QED
    BY <1>3, <2>1
<1> QED
  BY <1>4, <1>5, <1>6 DEF IsPiece

\* The three answers to a name that is typed.
LEMMA AnswersAre ==
    ASSUME NEW S, NEW name \in Seq(S), name # <<>>
    PROVE  \/ \E i, k : /\ IsMethod(i, k)
                        /\ Execute(name) = Answering("sent", NameOf(i, k))
                        /\ Describe(name) = Answering("method", MethodOf(i, k))
                        /\ ToLower(NameOf(i, k)) = ToLower(SubSeq(name, 1, Len(NameOf(i, k))))
           \/ /\ Execute(name) = Erring(FindSimilarMethods(name, None))
              /\ \/ \E domain : Describe(name) = Erring(FindSimilarMethods(name, domain))
                 \/ \E summary : Describe(name) = Answering("domain", summary)
<1>1. PICK p : p = Split(name, ".")
  OBVIOUS
<1>2. Len(p) \in Nat \ {0}
  BY <1>1, SplitParts
<1>3. PICK d, c : d = FindDomain(p[1]) /\ c = FindCommand(p[1], p[2])
  OBVIOUS
<1>4. Execute(name) = HandleExecuteMethod(name, "none") /\ Describe(name) = DescribeParts(name, p)
  BY <1>1, ExecuteIs, DescribeIs DEF HandleDescribeMethod
<1>5. NormalizeMethod(name) = NormalizeParts(p)
  BY <1>1 DEF NormalizeMethod
<1>6. NormalizeMethod(name) = None => Execute(name) = Erring(FindSimilarMethods(name, None))
  BY <1>4 DEF HandleExecuteMethod
<1>7. CASE Len(p) = 1 \/ p[2] = <<>>
  <2>1. NormalizeParts(p) = None
    BY <1>7 DEF NormalizeParts
  <2>2. \/ Describe(name) = Erring(FindSimilarMethods(name, None))
        \/ Describe(name) = Answering("domain", DomainSummary(Protocol[FindDomain(p[1])]))
    BY <1>4, <1>7 DEF DescribeParts
  <2> QED
    BY <1>5, <1>6, <2>1, <2>2
<1>8. CASE Len(p) # 1 /\ p[2] # <<>> /\ c = 0
  <2>1. NormalizeParts(p) = None
    BY <1>3, <1>8 DEF NormalizeParts, Spelling
  <2>2. Describe(name) = Erring(FindSimilarMethods(name, p[1]))
    BY <1>3, <1>4, <1>8 DEF DescribeParts
  <2> QED
    BY <1>5, <1>6, <2>1, <2>2
<1>9. CASE Len(p) # 1 /\ p[2] # <<>> /\ c # 0
  <2>1. /\ d # 0 /\ IsMethod(d, c) /\ ToLower(Protocol[d].commands[c].name) = ToLower(p[2])
        /\ ToLower(Protocol[d].domain) = ToLower(p[1])
    BY <1>3, <1>9, FindsCommand, FindsDomain
  <2>2. p[1] # <<>>
    <3>1. PICK a \in Seq(Letters) : a = Protocol[d].domain /\ a # <<>>
      BY <2>1, ProtocolFacts DEF IsMethod
    <3>2. Len(ToLower(a)) = Len(a) /\ Len(a) # 0
      BY <3>1, LowerLength
    <3>3. Len(ToLower(<<>>)) = 0
      BY DEF ToLower
    <3>4. p[1] = <<>> => ToLower(a) = ToLower(<<>>)
      BY <2>1, <3>1
    <3> QED
      BY <3>2, <3>3, <3>4
  <2>3. NormalizeMethod(name) = Spelling(d, c)
    BY <1>3, <1>5, <1>9, <2>2 DEF NormalizeParts
  <2>4. Spelling(d, c) = NameOf(d, c)
    BY <1>9, <2>1 DEF Spelling, NameOf
  <2>5. NameOf(d, c) # None
    BY <2>1, KnownParts DEF None
  <2>6. Execute(name) = Answering("sent", NameOf(d, c))
    BY <1>4, <2>3, <2>4, <2>5 DEF HandleExecuteMethod
  <2>7. Describe(name) = Answering("method", GetMethodSchema(p[1], p[2]))
    BY <1>3, <1>4, <1>9 DEF DescribeParts
  <2>8. GetMethodSchema(p[1], p[2]) = MethodOf(d, c)
    <3>1. Commands(p[1]) = Protocol[d].commands
      BY <1>3, <2>1 DEF Commands
    <3>2. GetDomainMethods(p[1]) = [j \in DOMAIN Protocol[d].commands |-> MethodOf(d, j)]
      BY <1>3, <3>1 DEF GetDomainMethods, MethodOf
    <3>3. GetMethodSchema(p[1], p[2]) = GetDomainMethods(p[1])[c]
      BY <1>3 DEF GetMethodSchema
    <3> QED
      BY <2>1, <3>2, <3>3 DEF IsMethod
  <2>9. ToLower(NameOf(d, c)) = ToLower(SubSeq(name, 1, Len(NameOf(d, c))))
    <3>1. /\ ToLower(Protocol[d].domain) = ToLower(Split(name, ".")[1])
          /\ ToLower(Protocol[d].commands[c].name) = ToLower(Split(name, ".")[2])
          /\ Len(Split(name, ".")) # 1
      BY <1>1, <1>9, <2>1
    <3> QED
      BY <2>1, <3>1, SpelledAlike
  <2> QED
    BY <2>1, <2>6, <2>7, <2>8, <2>9
<1> QED
  BY <1>7, <1>8, <1>9

\* Whatever name is typed: what is offered can be used.
THEOREM NamesAgree ==
    ASSUME NEW S, NEW name \in Seq(S)
    PROVE  NamesAgreeFor(name)
<1>1. PICK run, says : run = Execute(name) /\ says = Describe(name)
  OBVIOUS
<1>2. \A i, k : IsMethod(i, k) => Execute(NameOf(i, k)) = Answering("sent", NameOf(i, k))
  BY KnownAnswers
<1>3. \A x \in Known : Execute(x) = Answering("sent", x)
  BY <1>2, KnownIs
<1>4. /\ run.ok <=> says.is = "method"
      /\ run.ok => /\ run.data = says.data.name
                   /\ ToLower(run.data) = ToLower(SubSeq(name, 1, Len(run.data)))
      /\ \A reply \in {run, says} : ~reply.ok =>
             \A offered \in ToSet(reply.data) : Execute(offered) = Answering("sent", offered)
  <2>1. CASE name = <<>>
    <3>1. run = Erring(<<>>) /\ says = Erring(<<>>)
      BY <1>1, <2>1, ExecuteIs, DescribeIs
    <3>2. ToSet(<<>>) = {}
      BY DEF ToSet
    <3> QED
      BY <3>1, <3>2 DEF Erring
  <2>2. CASE name # <<>> /\ run.ok
    <3>1. PICK i, k : /\ IsMethod(i, k)
                      /\ run = Answering("sent", NameOf(i, k)) /\ says = Answering("method", MethodOf(i, k))
                      /\ ToLower(NameOf(i, k)) = ToLower(SubSeq(name, 1, Len(NameOf(i, k))))
      <4>1. Execute(name) # Erring(FindSimilarMethods(name, None))
        BY <1>1, <2>2 DEF Erring
      <4> QED
        BY <1>1, <2>2, <4>1, AnswersAre
    <3>2. run.ok /\ says.ok /\ says.is = "method" /\ run.data = NameOf(i, k) /\ says.data = MethodOf(i, k)
      BY <3>1 DEF Answering
    <3>3. MethodOf(i, k).name = NameOf(i, k)
      BY DEF MethodOf, MethodSchema, NameOf
    <3> QED
      BY <3>1, <3>2, <3>3
  <2>3. CASE name # <<>> /\ ~run.ok
    <3>1. /\ run = Erring(FindSimilarMethods(name, None))
          /\ \/ \E domain : says = Erring(FindSimilarMethods(name, domain))
             \/ \E summary : says = Answering("domain", summary)
      <4>1. \A i, k : Execute(name) # Answering("sent", NameOf(i, k))
        BY <1>1, <2>3 DEF Answering
      <4> QED
        BY <1>1, <2>3, <4>1, AnswersAre
    <3>2. says.is # "method"
      BY <3>1 DEF Erring, Answering
    <3>3. ~says.ok => \E domain : says.data = FindSimilarMethods(name, domain)
      BY <3>1 DEF Erring, Answering
    <3>4. run.data = FindSimilarMethods(name, None)
      BY <3>1 DEF Erring
    <3>5. \A domain : \A x \in ToSet(FindSimilarMethods(name, domain)) : x \in Known
      BY SuggestsKnown
    <3> QED
      BY <1>3, <2>3, <3>2, <3>3, <3>4, <3>5
  <2> QED
    BY <2>1, <2>2, <2>3
<1> QED
  BY <1>1, <1>4 DEF NamesAgreeFor

\* What is found or listed is a method of the protocol.
LEMMA ListedIs ==
    ASSUME NEW name, NEW m \in ToSet(SearchMethods(name)) \cup ToSet(GetDomainMethods(name))
    PROVE  \E i, k : IsMethod(i, k) /\ m = MethodOf(i, k)
<1> DEFINE All == UNION {{MethodOf(i, k) : k \in DOMAIN Protocol[i].commands} : i \in DOMAIN Protocol}
<1>1. \A x \in All : \E i, k : IsMethod(i, k) /\ x = MethodOf(i, k)
  BY DEF IsMethod
<1>2. ASSUME m \in ToSet(GetDomainMethods(name)) PROVE m \in All
  <2>1. PICK d : d = FindDomain(name)
    OBVIOUS
  <2>2. CASE d = 0
    <3>1. GetDomainMethods(name) = <<>>
      BY <2>1, <2>2 DEF GetDomainMethods, Commands
    <3>2. ToSet(<<>>) = {}
      BY DEF ToSet
    <3> QED
      BY <1>2, <3>1, <3>2
  <2>3. CASE d # 0
    <3>1. d \in DOMAIN Protocol /\ Commands(name) = Protocol[d].commands
      BY <2>1, <2>3, FindsDomain DEF Commands
    <3>2. GetDomainMethods(name) = [k \in DOMAIN Protocol[d].commands |-> MethodOf(d, k)]
      BY <2>1, <3>1 DEF GetDomainMethods, MethodOf
    <3>3. PICK k \in DOMAIN Protocol[d].commands : m = MethodOf(d, k)
      BY <1>2, <3>2 DEF ToSet
    <3> QED
      BY <3>1, <3>3
  <2> QED
    BY <2>2, <2>3
<1>3. ASSUME m \in ToSet(SearchMethods(name)) PROVE m \in All
  <2> DEFINE has(c) == \/ Includes(ToLower(c.name), ToLower(name))
                       \/ Includes(ToLower(c.description), ToLower(name))
             found(d) == Keep(d.commands, {k \in DOMAIN d.commands : has(d.commands[k])})
             piece(i) == [k \in DOMAIN found(Protocol[i]) |-> MethodSchema(Protocol[i].domain, found(Protocol[i])[k])]
  <2>1. PICK seqs : seqs = [i \in DOMAIN Protocol |-> piece(i)]
    OBVIOUS
  <2>2. SearchMethods(name) = FlattenSeq(seqs)
    BY <2>1 DEF SearchMethods
  <2>3. ASSUME NEW i \in DOMAIN Protocol PROVE piece(i) \in Seq(All)
    <3>1. PICK cs : cs = Protocol[i].commands
      OBVIOUS
    <3>2. PICK n \in Nat : n = Len(cs) /\ DOMAIN cs = 1 .. n
      BY <3>1, ProtocolFacts
    <3>3. PICK X : X = ToSet(cs)
      OBVIOUS
    <3>4. cs \in Seq(X)
      <4>1. Protocol[i] \in ToSet(Protocol)
        BY DEF ToSet
      <4> QED
        BY <3>1, <3>3, <4>1, ProtocolAssumption
    <3>5. PICK T : T = {k \in DOMAIN cs : has(cs[k])}
      OBVIOUS
    <3>6. T \in SUBSET DOMAIN cs
      BY <3>5
    <3>7. PICK f : f = Keep(cs, T)
      OBVIOUS
    <3>8. f \in Seq(X) /\ ToSet(f) = {cs[k] : k \in T}
      BY <3>4, <3>6, <3>7, KeepIs
    <3>9. found(Protocol[i]) = f
      BY <3>1, <3>5, <3>7
    <3>10. piece(i) = [k \in DOMAIN f |-> MethodSchema(Protocol[i].domain, f[k])]
      <4> HIDE DEF found
      <4> QED
        BY <3>9
    <3>11. ASSUME NEW k \in DOMAIN f PROVE MethodSchema(Protocol[i].domain, f[k]) \in All
      <4>1. f[k] \in ToSet(f)
        BY DEF ToSet
      <4>2. PICK j \in DOMAIN cs : f[k] = cs[j]
        BY <3>6, <3>8, <4>1
      <4>3. MethodSchema(Protocol[i].domain, f[k]) = MethodOf(i, j)
        BY <3>1, <4>2 DEF MethodOf
      <4> QED
        BY <3>1, <4>2, <4>3
    <3>12. PICK w \in Nat : DOMAIN f = 1 .. w
      BY <3>8
    <3> HIDE DEF piece, All
    <3> QED
      BY <3>10, <3>11, <3>12
  <2> HIDE DEF piece, All
  <2>4. seqs \in Seq(Seq(All)) /\ \A i \in 1 .. Len(seqs) : seqs[i] \in Seq(All)
    <3>1. PICK n \in Nat : DOMAIN Protocol = 1 .. n
      BY ProtocolFacts
    <3>2. seqs \in Seq(Seq(All))
      BY <2>1, <2>3, <3>1
    <3> QED
      BY <3>2
  <2>5. PICK i \in 1 .. Len(seqs) : m \in ToSet(seqs[i])
    <3>1. \A x : x \in ToSet(FlattenSeq(seqs)) <=> \E i \in 1 .. Len(seqs) : x \in ToSet(seqs[i])
      BY <2>4, FlattenIs
    <3> QED
      BY <1>3, <2>2, <3>1
  <2> QED
    BY <2>4, <2>5 DEF ToSet
<1> QED
  BY <1>1, <1>2, <1>3

\* Whatever is searched or listed: its schema is the one described, and its example runs.
THEOREM SchemasAgree == \A name : SchemasAgreeFor(name)
<1> SUFFICES ASSUME NEW name, NEW m \in ToSet(SearchMethods(name)) \cup ToSet(GetDomainMethods(name))
             PROVE  /\ Describe(m.name) = Answering("method", m)
                    /\ Execute(m.example.command) = Answering("sent", m.name)
                    /\ LET d == FindDomain(Split(m.name, ".")[1])
                           c == FindCommand(Split(m.name, ".")[1], m.method)
                           p == Protocol[d].commands[c].parameters
                       IN  DOMAIN m.example.params = {p[i].name : i \in {j \in DOMAIN p : ~p[j].optional}}
  BY DEF SchemasAgreeFor
<1>1. PICK i, k : IsMethod(i, k) /\ m = MethodOf(i, k)
  BY ListedIs
<1>2. PICK c : c = Protocol[i].commands[k]
  OBVIOUS
<1>3. PICK params : params = [q \in DOMAIN c.parameters |-> ParamToSchema(c.parameters[q])]
  OBVIOUS
<1>4. /\ m.name = NameOf(i, k) /\ m.method = c.name
      /\ m.example.command = NameOf(i, k) /\ m.example.params = ExampleParams(params)
  BY <1>1, <1>2, <1>3 DEF MethodOf, MethodSchema, NameOf
<1>5. Describe(m.name) = Answering("method", m) /\ Execute(m.example.command) = Answering("sent", m.name)
  <2>1. Execute(NameOf(i, k)) = Answering("sent", NameOf(i, k)) /\ Describe(NameOf(i, k)) = Answering("method", MethodOf(i, k))
    BY <1>1, KnownAnswers
  <2> QED
    BY <1>1, <1>4, <2>1
<1>6. Split(m.name, ".")[1] = Protocol[i].domain
  <2>1. Split(m.name, ".") = <<Protocol[i].domain, Protocol[i].commands[k].name>>
    BY <1>1, <1>4, KnownParts, Zenon
  <2> QED
    BY <2>1
<1>7. /\ FindDomain(Split(m.name, ".")[1]) = i
      /\ FindCommand(Split(m.name, ".")[1], m.method) = k
  BY <1>1, <1>2, <1>4, <1>6, KnownParts
<1>8. DOMAIN ExampleParams(params) = {c.parameters[q].name : q \in {j \in DOMAIN c.parameters : ~c.parameters[j].optional}}
  <2>1. DOMAIN ExampleParams(params) = {params[q].name : q \in {j \in DOMAIN params : params[j].required}}
    BY DEF ExampleParams
  <2>2. DOMAIN params = DOMAIN c.parameters
    BY <1>3
  <2>3. \A q \in DOMAIN params : params[q].name = c.parameters[q].name /\ params[q].required = ~c.parameters[q].optional
    BY <1>3 DEF ParamToSchema
  <2>4. {j \in DOMAIN params : params[j].required} = {j \in DOMAIN c.parameters : ~c.parameters[j].optional}
    BY <2>2, <2>3
  <2>5. \A q \in {j \in DOMAIN params : params[j].required} : params[q].name = c.parameters[q].name
    BY <2>3
  <2> QED
    BY <2>1, <2>4, <2>5
<1> QED
  BY <1>2, <1>4, <1>5, <1>7, <1>8, ZenonT(40)

\* Whatever name is typed: the closest names of the protocol are suggested.
THEOREM ClosestAreSuggested ==
    ASSUME NEW S, NEW name \in Seq(S)
    PROVE  SuggestionsAreClosestFor(name)
<1> DEFINE listed(d) == {m.name : m \in ToSet(GetDomainMethods(d.domain))}
           known == UNION {listed(d) : d \in ToSet(Protocol)}
<1>1. known = Known
  <2>1. ASSUME NEW i \in DOMAIN Protocol
        PROVE  listed(Protocol[i]) = {NameOf(i, k) : k \in DOMAIN Protocol[i].commands}
    <3>1. GetDomainMethods(Protocol[i].domain) = [k \in DOMAIN Protocol[i].commands |-> MethodOf(i, k)]
      BY DomainMethodsAre
    <3>2. ToSet(GetDomainMethods(Protocol[i].domain)) = {MethodOf(i, k) : k \in DOMAIN Protocol[i].commands}
      BY <3>1 DEF ToSet
    <3>3. \A k : MethodOf(i, k).name = NameOf(i, k)
      BY DEF MethodOf, MethodSchema, NameOf
    <3> QED
      BY <3>2, <3>3
  <2> HIDE DEF listed
  <2>2. \A d : d \in ToSet(Protocol) <=> \E i \in DOMAIN Protocol : d = Protocol[i]
    BY DEF ToSet
  <2>3. \A x : x \in known <=> \E i \in DOMAIN Protocol : x \in listed(Protocol[i])
    BY <2>2
  <2>4. \A x : x \in Known <=> \E i \in DOMAIN Protocol : x \in {NameOf(i, k) : k \in DOMAIN Protocol[i].commands}
    BY DEF Known
  <2>5. \A x : x \in known <=> x \in Known
    BY <2>1, <2>3, <2>4
  <2> HIDE DEF known
  <2> QED
    BY <2>5
<1> HIDE DEF known
<1>2. PICK offered : offered = FindSimilarMethods(name, None)
  OBVIOUS
<1>3. PICK methods \in Seq(Known) :
          /\ FindSimilarMethods(name, None) = SimilarOf(name, methods)
          /\ None = None => ToSet(methods) = Known /\ Distinct(methods)
  BY SearchedIs
<1>4. Suggested(name, methods, offered)
  BY <1>2, <1>3, SimilarIs
<1>5. ToSet(methods) = Known /\ Distinct(methods)
  BY <1>3
<1>6. PICK n \in Nat : n = Len(offered) /\ DOMAIN offered = 1 .. n
  BY <1>4 DEF Suggested
<1>7. n <= 3 /\ \A i, j \in 1 .. n : offered[i] = offered[j] => i = j
  BY <1>4, <1>5, <1>6 DEF Suggested, Distinct
<1>8. /\ \A k \in 1 .. n : offered[k] \in Known /\ WithinReach(MethodDistance(name, offered[k]), Len(name))
      /\ \A i, j \in 1 .. n : i < j => MethodDistance(name, offered[i]) <= MethodDistance(name, offered[j])
  BY <1>4, <1>5, <1>6 DEF Suggested
<1>9. \A x \in Known \ ToSet(offered) : WithinReach(MethodDistance(name, x), Len(name)) =>
          n = 3 /\ \A k \in 1 .. n : MethodDistance(name, offered[k]) <= MethodDistance(name, x)
  BY <1>4, <1>5, <1>6 DEF Suggested
<1>10. \A i, j \in 1 .. n : i < j => offered[i] # offered[j]
  BY <1>7
<1>11. /\ Len(offered) <= 3
       /\ \A i, j \in DOMAIN offered : i < j =>
             offered[i] # offered[j] /\ MethodDistance(name, offered[i]) <= MethodDistance(name, offered[j])
       /\ \A i \in DOMAIN offered : offered[i] \in known /\ WithinReach(MethodDistance(name, offered[i]), Len(name))
       /\ \A x \in known \ ToSet(offered) : WithinReach(MethodDistance(name, x), Len(name)) =>
             Len(offered) = 3 /\ \A i \in DOMAIN offered : MethodDistance(name, offered[i]) <= MethodDistance(name, x)
  BY <1>1, <1>6, <1>7, <1>8, <1>9, <1>10
<1> QED
  BY <1>2, <1>11, Zenon DEF SuggestionsAreClosestFor, known, listed

(***************************************************************************)
(* The distance is that of the cheapest alignment.                         *)
(***************************************************************************)
\* The alignments of the first i letters of a text with the first j of another.
Uncrossed(A) ==
    \A p, q \in A : p # q => (p[1] < q[1] /\ p[2] < q[2]) \/ (q[1] < p[1] /\ q[2] < p[2])
Aligned(A, i, j) == A \in SUBSET ((1 .. i) \X (1 .. j)) /\ Uncrossed(A)

Differing(A, s, t) == {p \in A : s[p[1]] # t[p[2]]}
Price(A, s, t, i, j) == i + j - 2 * Cardinality(A) + Cardinality(Differing(A, s, t))

\* m is the price of the cheapest.
Cheapest(m, s, t, i, j) ==
    /\ \E A : Aligned(A, i, j) /\ m = Price(A, s, t, i, j)
    /\ \A A : Aligned(A, i, j) => m <= Price(A, s, t, i, j)

LEMMA AlignedIs ==
    ASSUME NEW s, NEW t, NEW i \in Nat, NEW j \in Nat, NEW A, Aligned(A, i, j)
    PROVE  /\ IsFiniteSet(A) /\ Cardinality(A) \in Nat
           /\ IsFiniteSet(Differing(A, s, t)) /\ Cardinality(Differing(A, s, t)) \in Nat
           /\ Price(A, s, t, i, j) \in Int
           /\ \A p \in A : p[1] \in 1 .. i /\ p[2] \in 1 .. j /\ p = <<p[1], p[2]>>
<1>1. IsFiniteSet(1 .. i) /\ IsFiniteSet(1 .. j)
  BY FS_Interval
<1>2. IsFiniteSet((1 .. i) \X (1 .. j))
  BY <1>1, FS_Product
<1>3. IsFiniteSet(A) /\ Cardinality(A) \in Nat
  BY <1>2, FS_Subset, FS_CardinalityType DEF Aligned
<1>4. IsFiniteSet(Differing(A, s, t)) /\ Cardinality(Differing(A, s, t)) \in Nat
  <2>1. Differing(A, s, t) \in SUBSET A
    BY DEF Differing
  <2> QED
    BY <1>3, <2>1, FS_Subset, FS_CardinalityType
<1>5. \A p \in A : p[1] \in 1 .. i /\ p[2] \in 1 .. j /\ p = <<p[1], p[2]>>
  BY DEF Aligned
<1> QED
  BY <1>3, <1>4, <1>5 DEF Price

\* One more letter of one text, unpaired.
LEMMA AlignedMore ==
    ASSUME NEW s, NEW t, NEW i \in Nat, NEW j \in Nat, NEW A, Aligned(A, i, j)
    PROVE  /\ Aligned(A, i + 1, j) /\ Price(A, s, t, i + 1, j) = Price(A, s, t, i, j) + 1
           /\ Aligned(A, i, j + 1) /\ Price(A, s, t, i, j + 1) = Price(A, s, t, i, j) + 1
<1>1. (1 .. i) \subseteq 1 .. i + 1 /\ (1 .. j) \subseteq 1 .. j + 1
  OBVIOUS
<1>2. Aligned(A, i + 1, j) /\ Aligned(A, i, j + 1)
  BY <1>1 DEF Aligned
<1>3. Cardinality(A) \in Nat /\ Cardinality(Differing(A, s, t)) \in Nat
  BY AlignedIs
<1>4. /\ Price(A, s, t, i + 1, j) = Price(A, s, t, i, j) + 1
      /\ Price(A, s, t, i, j + 1) = Price(A, s, t, i, j) + 1
  BY <1>3 DEF Price
<1> QED
  BY <1>2, <1>4

\* One more letter of each, paired.
LEMMA AlignedPair ==
    ASSUME NEW s, NEW t, NEW i \in Nat, NEW j \in Nat, NEW A, Aligned(A, i, j),
           NEW k, k = i + 1, NEW l, l = j + 1, NEW c, c = Cost(s[k], t[l]), NEW B, B = A \cup {<<k, l>>}
    PROVE  Aligned(B, k, l) /\ Price(B, s, t, k, l) = Price(A, s, t, i, j) + c
<1>1. k \in Nat /\ l \in Nat /\ k = i + 1 /\ l = j + 1 /\ i < k /\ j < l
  OBVIOUS
<1>2. PICK q : q = <<k, l>>
  OBVIOUS
<1>3. q[1] = k /\ q[2] = l
  BY <1>2
<1>4. \A p \in A : p[1] \in 1 .. i /\ p[2] \in 1 .. j /\ p[1] < k /\ p[2] < l
  <2>1. \A p \in A : p[1] \in 1 .. i /\ p[2] \in 1 .. j
    BY AlignedIs
  <2> QED
    BY <1>1, <2>1
<1>5. q \notin A
  BY <1>1, <1>3, <1>4
<1>6. B = A \cup {q}
  BY <1>2
<1>7. B \in SUBSET ((1 .. k) \X (1 .. l))
  <2>1. q \in (1 .. k) \X (1 .. l)
    BY <1>1, <1>2
  <2>2. A \in SUBSET ((1 .. k) \X (1 .. l))
    <3>1. (1 .. i) \subseteq 1 .. k /\ (1 .. j) \subseteq 1 .. l
      BY <1>1
    <3> QED
      BY <3>1 DEF Aligned
  <2> QED
    BY <1>6, <2>1, <2>2
<1>8. Uncrossed(B)
  <2>1. Uncrossed(A)
    BY DEF Aligned
  <2>2. \A p \in A : p[1] < q[1] /\ p[2] < q[2]
    BY <1>3, <1>4
  <2> QED
    BY <1>6, <2>1, <2>2 DEF Uncrossed
<1>9. IsFiniteSet(A) /\ Cardinality(A) \in Nat /\ IsFiniteSet(Differing(A, s, t)) /\ Cardinality(Differing(A, s, t)) \in Nat
  BY AlignedIs
<1>10. Cardinality(B) = Cardinality(A) + 1
  BY <1>5, <1>6, <1>9, FS_AddElement
<1>11. Cardinality(Differing(B, s, t)) = Cardinality(Differing(A, s, t)) + Cost(s[k], t[l])
  <2>1. q \notin Differing(A, s, t)
    BY <1>5 DEF Differing
  <2>2. CASE s[k] = t[l]
    <3>1. Differing(B, s, t) = Differing(A, s, t)
      BY <1>3, <1>6, <2>2 DEF Differing
    <3>2. Cost(s[k], t[l]) = 0
      BY <2>2 DEF Cost
    <3> QED
      BY <1>9, <3>1, <3>2
  <2>3. CASE s[k] # t[l]
    <3>1. Differing(B, s, t) = Differing(A, s, t) \cup {q}
      BY <1>3, <1>6, <2>3 DEF Differing
    <3>2. Cost(s[k], t[l]) = 1
      BY <2>3 DEF Cost
    <3>3. Cardinality(Differing(A, s, t) \cup {q}) = Cardinality(Differing(A, s, t)) + 1
      BY <1>9, <2>1, FS_AddElement
    <3> QED
      BY <3>1, <3>2, <3>3
  <2> QED
    BY <2>2, <2>3
<1>12. Price(B, s, t, k, l) = Price(A, s, t, i, j) + c
  <2>1. PICK a \in Nat, b \in Nat : a = Cardinality(A) /\ b = Cardinality(Differing(A, s, t))
    BY <1>9
  <2>2. c \in {0, 1} /\ c = Cost(s[k], t[l])
    BY CostIs
  <2>3. Cardinality(B) = a + 1 /\ Cardinality(Differing(B, s, t)) = b + c
    BY <1>10, <1>11, <2>1, <2>2
  <2>4. k + l - 2 * (a + 1) + (b + c) = (i + j - 2 * a + b) + c
    BY <1>1, <2>2
  <2> QED
    BY <2>1, <2>2, <2>3, <2>4 DEF Price
<1>13. Aligned(B, k, l)
  BY <1>7, <1>8 DEF Aligned
<1> QED
  BY <1>12, <1>13

\* An alignment leaves the last letter of one text unpaired, or pairs the two.
LEMMA AlignedEnds ==
    ASSUME NEW i \in Nat, NEW j \in Nat, NEW A, Aligned(A, i + 1, j + 1)
    PROVE  \/ Aligned(A, i, j + 1)
           \/ Aligned(A, i + 1, j)
           \/ \E B : Aligned(B, i, j) /\ A = B \cup {<<i + 1, j + 1>>}
<1>1. PICK k \in Nat, l \in Nat : k = i + 1 /\ l = j + 1 /\ i < k /\ j < l
  OBVIOUS
<1>2. \A p \in A : p[1] \in 1 .. k /\ p[2] \in 1 .. l /\ p = <<p[1], p[2]>>
  <2>1. Aligned(A, k, l)
    BY <1>1
  <2> QED
    BY <2>1, AlignedIs
<1>3. Uncrossed(A)
  BY DEF Aligned
<1>4. CASE \A p \in A : p[1] # k
  <2>1. \A p \in A : p[1] \in 1 .. i
    BY <1>1, <1>2, <1>4
  <2>2. A \in SUBSET ((1 .. i) \X (1 .. l))
    BY <1>2, <2>1
  <2> QED
    BY <1>1, <1>3, <2>2 DEF Aligned
<1>5. CASE \A p \in A : p[2] # l
  <2>1. \A p \in A : p[2] \in 1 .. j
    BY <1>1, <1>2, <1>5
  <2>2. A \in SUBSET ((1 .. k) \X (1 .. j))
    BY <1>2, <2>1
  <2> QED
    BY <1>1, <1>3, <2>2 DEF Aligned
<1>6. ASSUME NEW p \in A, p[1] = k, NEW q \in A, q[2] = l
      PROVE  \E B : Aligned(B, i, j) /\ A = B \cup {<<i + 1, j + 1>>}
  <2>1. p = q
    <3>1. q[1] <= k /\ p[2] <= l /\ q[1] \in Nat /\ p[2] \in Nat
      BY <1>1, <1>2
    <3>2. ~(p[1] < q[1]) /\ ~(q[2] < p[2])
      BY <1>1, <1>6, <3>1
    <3> QED
      BY <1>3, <1>6, <3>2 DEF Uncrossed
  <2>2. p = <<k, l>>
    BY <1>2, <1>6, <2>1
  <2>3. PICK B : B = A \ {p}
    OBVIOUS
  <2>4. \A x \in B : x[1] \in 1 .. i /\ x[2] \in 1 .. j
    <3> TAKE x \in B
    <3>1. x \in A /\ x # p /\ p \in A
      BY <2>3
    <3>2. x[1] \in 1 .. k /\ x[2] \in 1 .. l
      BY <1>2, <3>1
    <3>3. p[1] = k /\ p[2] = l
      BY <2>2
    <3>4. (x[1] < k /\ x[2] < l) \/ (k < x[1] /\ l < x[2])
      BY <1>3, <3>1, <3>3 DEF Uncrossed
    <3> QED
      BY <1>1, <3>2, <3>4
  <2>5. B \in SUBSET ((1 .. i) \X (1 .. j))
    BY <1>2, <2>3, <2>4
  <2>6. Uncrossed(B)
    BY <1>3, <2>3 DEF Uncrossed
  <2>7. A = B \cup {<<k, l>>}
    BY <2>2, <2>3
  <2> QED
    BY <1>1, <2>5, <2>6, <2>7 DEF Aligned
<1> QED
  BY <1>4, <1>5, <1>6

\* The three cells that a cell is computed from are enough.
LEMMA CheapestStep ==
    ASSUME NEW s, NEW t, NEW i \in Nat, NEW j \in Nat, NEW k, k = i + 1, NEW l, l = j + 1,
           NEW above \in Nat, NEW before \in Nat, NEW aboveBefore \in Nat,
           Cheapest(above, s, t, i, l), Cheapest(before, s, t, k, j), Cheapest(aboveBefore, s, t, i, j),
           NEW m, m = Cell(above, before, aboveBefore, Cost(s[k], t[l]))
    PROVE  Cheapest(m, s, t, k, l)
<1>1. PICK c \in {0, 1} : c = Cost(s[k], t[l])
  BY CostIs
<1>2. /\ m \in Nat /\ m <= above + 1 /\ m <= before + 1 /\ m <= aboveBefore + c
      /\ m \in {above + 1, before + 1, aboveBefore + c}
  BY <1>1, CellIs
<1>3. k \in Nat /\ l \in Nat
  OBVIOUS
<1>4. \A A : Aligned(A, i, l) => Aligned(A, k, l) /\ Price(A, s, t, k, l) = Price(A, s, t, i, l) + 1
  BY <1>3, AlignedMore
<1>5. \A A : Aligned(A, k, j) => Aligned(A, k, l) /\ Price(A, s, t, k, l) = Price(A, s, t, k, j) + 1
  BY <1>3, AlignedMore
<1>6. \A A, B : Aligned(A, i, j) /\ B = A \cup {<<k, l>>} =>
          Aligned(B, k, l) /\ Price(B, s, t, k, l) = Price(A, s, t, i, j) + c
  BY <1>1, AlignedPair
<1>7. \E A : Aligned(A, k, l) /\ m = Price(A, s, t, k, l)
  <2>1. CASE m = above + 1
    BY <1>4, <2>1 DEF Cheapest
  <2>2. CASE m = before + 1
    BY <1>5, <2>2 DEF Cheapest
  <2>3. CASE m = aboveBefore + c
    <3>1. PICK A : Aligned(A, i, j) /\ aboveBefore = Price(A, s, t, i, j)
      BY DEF Cheapest
    <3>2. PICK B : B = A \cup {<<k, l>>}
      OBVIOUS
    <3> QED
      BY <1>6, <2>3, <3>1, <3>2
  <2> QED
    BY <1>2, <2>1, <2>2, <2>3
<1>8. ASSUME NEW A, Aligned(A, k, l) PROVE m <= Price(A, s, t, k, l)
  <2>1. CASE Aligned(A, i, l)
    <3>1. above <= Price(A, s, t, i, l)
      BY <2>1 DEF Cheapest
    <3>2. Price(A, s, t, i, l) \in Int
      BY <1>3, <2>1, AlignedIs
    <3>3. Price(A, s, t, k, l) = Price(A, s, t, i, l) + 1
      BY <1>4, <2>1
    <3> QED
      BY <1>2, <3>1, <3>2, <3>3
  <2>2. CASE Aligned(A, k, j)
    <3>1. before <= Price(A, s, t, k, j)
      BY <2>2 DEF Cheapest
    <3>2. Price(A, s, t, k, j) \in Int
      BY <1>3, <2>2, AlignedIs
    <3>3. Price(A, s, t, k, l) = Price(A, s, t, k, j) + 1
      BY <1>5, <2>2
    <3> QED
      BY <1>2, <3>1, <3>2, <3>3
  <2>3. ASSUME NEW B, Aligned(B, i, j), A = B \cup {<<k, l>>} PROVE m <= Price(A, s, t, k, l)
    <3>1. aboveBefore <= Price(B, s, t, i, j)
      BY <2>3 DEF Cheapest
    <3>2. Price(B, s, t, i, j) \in Int
      BY <2>3, AlignedIs
    <3>3. Price(A, s, t, k, l) = Price(B, s, t, i, j) + c
      BY <1>6, <2>3
    <3> QED
      BY <1>2, <3>1, <3>2, <3>3
  <2> QED
    BY <1>8, <2>1, <2>2, <2>3, AlignedEnds
<1> QED
  BY <1>7, <1>8 DEF Cheapest

\* Nothing to align with.
LEMMA CheapestAlone ==
    ASSUME NEW s, NEW t, NEW i \in Nat, NEW j \in Nat, i = 0 \/ j = 0
    PROVE  Cheapest(i + j, s, t, i, j)
<1>1. \A A : Aligned(A, i, j) <=> A = {}
  <2>1. (1 .. i) \X (1 .. j) = {}
    <3>1. 1 .. i = {} \/ 1 .. j = {}
      OBVIOUS
    <3> QED
      BY <3>1
  <2> QED
    BY <2>1 DEF Aligned, Uncrossed
<1>2. Price({}, s, t, i, j) = i + j
  <2>1. Differing({}, s, t) = {}
    BY DEF Differing
  <2> QED
    BY <2>1, FS_EmptySet DEF Price
<1> QED
  BY <1>1, <1>2 DEF Cheapest

\* Whatever two texts: the distance the matrix gives is that of the cheapest
\* alignment.
THEOREM DistanceIsMinimal ==
    ASSUME NEW S, NEW s \in Seq(S), NEW t \in Seq(S)
    PROVE  DistanceIsMinimalFor(s, t)
<1>1. PICK l \in Nat, n \in Nat : l = Len(s) /\ n = Len(t)
  OBVIOUS
<1>2. PICK M : M = Matrix(s, t)
  OBVIOUS
<1>3. /\ \A i \in 0 .. l : Row(n, M[i])
      /\ \A j \in 1 .. n + 1 : M[0][j] = j - 1
      /\ \A i \in 1 .. l : Below(M[i - 1], M[i], s, t, n, i)
  BY <1>1, <1>2, MatrixIs
<1>4. \A i \in 0 .. l : \A j \in 0 .. n : M[i][j + 1] \in Nat
  <2> TAKE i \in 0 .. l
  <2> TAKE j \in 0 .. n
  <2>1. j + 1 \in 1 .. n + 1
    OBVIOUS
  <2> QED
    BY <1>3, <2>1 DEF Row
<1> DEFINE T == {i \in 0 .. l : \A j \in 0 .. n : Cheapest(M[i][j + 1], s, t, i, j)}
<1>5. 0 \in T
  <2>1. ASSUME NEW j \in 0 .. n PROVE Cheapest(M[0][j + 1], s, t, 0, j)
    <3>1. j + 1 \in 1 .. n + 1 /\ (j + 1) - 1 = j /\ 0 + j = j /\ j \in Nat
      OBVIOUS
    <3>2. M[0][j + 1] = 0 + j
      BY <1>3, <3>1
    <3>3. Cheapest(0 + j, s, t, 0, j)
      BY <3>1, CheapestAlone
    <3> QED
      BY <3>2, <3>3
  <2> QED
    BY <2>1
<1>6. ASSUME NEW i \in 0 .. l, i < l, i \in T PROVE i + 1 \in T
  <2>1. PICK k \in 1 .. l : k = i + 1 /\ k - 1 = i /\ k \in Nat /\ k \in 0 .. l
    BY <1>6
  <2>2. PICK above, r : above = M[i] /\ r = M[k]
    OBVIOUS
  <2>3. Below(above, r, s, t, n, k)
    BY <1>3, <2>1, <2>2
  <2>4. \A j \in 0 .. n : Cheapest(above[j + 1], s, t, i, j) /\ above[j + 1] \in Nat
    BY <1>4, <1>6, <2>2
  <2> DEFINE U == {j \in 0 .. n : Cheapest(r[j + 1], s, t, k, j)}
  <2>5. 0 \in U
    <3>1. r[0 + 1] = k + 0
      BY <2>3 DEF Below
    <3>2. 0 \in Nat /\ 0 \in 0 .. n
      OBVIOUS
    <3>3. Cheapest(k + 0, s, t, k, 0)
      BY <2>1, <3>2, CheapestAlone
    <3> QED
      BY <3>1, <3>2, <3>3
  <2>6. ASSUME NEW j \in 0 .. n, j < n, j \in U PROVE j + 1 \in U
    <3>1. PICK q \in 1 .. n : q = j + 1 /\ q \in 0 .. n
      BY <2>6
    <3>2. r[q + 1] = Cell(above[q + 1], r[q], above[q], Cost(s[k], t[q]))
      BY <2>3, <3>1 DEF Below
    <3>3. Cheapest(above[q + 1], s, t, i, q) /\ above[q + 1] \in Nat
      BY <2>4, <3>1
    <3>4. Cheapest(above[q], s, t, i, j) /\ above[q] \in Nat
      BY <2>4, <3>1
    <3>5. Cheapest(r[q], s, t, k, j) /\ r[q] \in Nat
      BY <1>4, <2>1, <2>2, <2>6, <3>1
    <3>6. PICK m : m = r[q + 1]
      OBVIOUS
    <3>7. PICK x \in Nat, y \in Nat, z \in Nat : x = above[q + 1] /\ y = r[q] /\ z = above[q]
      BY <3>3, <3>4, <3>5
    <3>8. Cheapest(x, s, t, i, q) /\ Cheapest(y, s, t, k, j) /\ Cheapest(z, s, t, i, j)
      BY <3>3, <3>4, <3>5, <3>7
    <3>9. m = Cell(x, y, z, Cost(s[k], t[q]))
      BY <3>2, <3>6, <3>7
    <3>10. i \in Nat /\ j \in Nat
      OBVIOUS
    <3>11. Cheapest(m, s, t, k, q)
      BY <2>1, <3>1, <3>8, <3>9, <3>10, CheapestStep, SMTT(40)
    <3> QED
      BY <2>1, <3>1, <3>6, <3>11
  <2>7. \A j \in 0 .. n : j \in U
    <3> HIDE DEF U
    <3>1. \A j \in 0 .. n : j < n /\ j \in U => j + 1 \in U
      BY <2>6
    <3> QED
      BY <2>5, <3>1, Stepwise
  <2> QED
    BY <2>1, <2>2, <2>7
<1>7. l \in T
  <2> HIDE DEF T
  <2>1. \A i \in 0 .. l : i < l /\ i \in T => i + 1 \in T
    BY <1>6
  <2>2. \A i \in 0 .. l : i \in T
    BY <1>5, <2>1, Stepwise
  <2> QED
    BY <2>2
<1>8. PICK m : m = M[l][n + 1]
  OBVIOUS
<1>9. Cheapest(m, s, t, l, n) /\ m \in Nat
  BY <1>4, <1>7, <1>8
<1> DEFINE prices == {AlignmentCost(A, s, t) : A \in Alignments(s, t)}
<1>10. \A A : A \in Alignments(s, t) <=> Aligned(A, l, n)
  <2>1. DOMAIN s = 1 .. l /\ DOMAIN t = 1 .. n
    BY <1>1
  <2> QED
    BY <2>1 DEF Alignments, Aligned, Uncrossed
<1>11. \A A : AlignmentCost(A, s, t) = Price(A, s, t, l, n)
  BY <1>1 DEF AlignmentCost, Price, Differing
<1>12. m \in prices /\ \A x \in prices : m <= x /\ x \in Int
  <2>1. \A A : Aligned(A, l, n) => Price(A, s, t, l, n) \in Int
    BY AlignedIs
  <2> QED
    BY <1>9, <1>10, <1>11, <2>1 DEF Cheapest
<1>13. Least(prices) = m
  <2> HIDE DEF prices
  <2>1. Least(prices) \in prices /\ \A y \in prices : Least(prices) <= y
    BY <1>12 DEF Least
  <2>2. m <= Least(prices) /\ Least(prices) <= m /\ Least(prices) \in Int
    BY <1>12, <2>1
  <2> QED
    BY <1>9, <2>2
<1>14. Levenshtein(s, t) = m
  BY <1>1, <1>2, <1>8 DEF Levenshtein
<1> QED
  BY <1>13, <1>14 DEF DistanceIsMinimalFor

(***************************************************************************)
(* Pages of a list.                                                        *)
(***************************************************************************)
\* Two adjoining pieces of a list make one.
LEMMA Adjoin ==
    ASSUME NEW S, NEW s \in Seq(S), NEW a \in Nat, NEW b \in Nat, NEW c \in Nat, a <= b, b <= c, c <= Len(s)
    PROVE  SubSeq(s, a + 1, b) \o SubSeq(s, b + 1, c) = SubSeq(s, a + 1, c)
<1> DEFINE l == SubSeq(s, a + 1, b)
           r == SubSeq(s, b + 1, c)
           w == SubSeq(s, a + 1, c)
<1>1. /\ l \in Seq(S) /\ Len(l) = b - a /\ \A i \in 1 .. b - a : l[i] = s[a + i]
      /\ r \in Seq(S) /\ Len(r) = c - b /\ \A i \in 1 .. c - b : r[i] = s[b + i]
      /\ w \in Seq(S) /\ Len(w) = c - a /\ \A i \in 1 .. c - a : w[i] = s[a + i]
  OBVIOUS
<1> HIDE DEF l, r, w
<1>2. /\ l \o r \in Seq(S) /\ Len(l \o r) = c - a
      /\ \A i \in 1 .. c - a : (l \o r)[i] = IF i <= b - a THEN l[i] ELSE r[i - (b - a)]
  <2>1. /\ l \o r \in Seq(S) /\ Len(l \o r) = Len(l) + Len(r)
        /\ \A i \in 1 .. Len(l) + Len(r) : (l \o r)[i] = IF i <= Len(l) THEN l[i] ELSE r[i - Len(l)]
    BY <1>1, ConcatProperties
  <2>2. Len(l) + Len(r) = c - a
    BY <1>1
  <2>3. Len(l) = b - a
    BY <1>1
  <2> QED
    BY <2>1, <2>2, <2>3, Zenon
<1>3. \A i \in 1 .. c - a : (l \o r)[i] = w[i]
  <2> TAKE i \in 1 .. c - a
  <2>1. CASE i <= b - a
    <3>1. (l \o r)[i] = l[i]
      BY <1>2, <2>1
    <3>2. l[i] = s[a + i] /\ w[i] = s[a + i]
      BY <1>1, <2>1
    <3> QED
      BY <3>1, <3>2
  <2>2. CASE i > b - a
    <3>1. i - (b - a) \in 1 .. c - b /\ b + (i - (b - a)) = a + i
      BY <2>2
    <3>2. (l \o r)[i] = r[i - (b - a)]
      BY <1>2, <2>2
    <3>3. r[i - (b - a)] = s[b + (i - (b - a))]
      BY <1>1, <3>1
    <3> QED
      BY <1>1, <3>1, <3>2, <3>3
  <2>3. i <= b - a \/ i > b - a
    BY <1>1
  <2> QED
    BY <2>1, <2>2, <2>3
<1>4. l \o r = w
  <2> DEFINE both == l \o r
  <2>1. both \in Seq(S) /\ w \in Seq(S) /\ Len(both) = Len(w) /\ \A i \in 1 .. Len(both) : both[i] = w[i]
    BY <1>1, <1>2, <1>3
  <2> HIDE DEF both
  <2>2. both = w
    BY <2>1, SeqEqual
  <2> QED
    BY <2>2 DEF both
<1> QED
  BY <1>4 DEF l, r, w

\* How many items lie before the page k pages back, and before page k - 1.
Ahead(L, n, k) == Larger(0, L - k * n)

LEMMA AheadIs ==
    ASSUME NEW L \in Nat, NEW n \in Nat \ {0}, NEW k \in Nat, NEW j, j = k + 1
    PROVE  /\ Ahead(L, n, k) \in 0 .. L
           /\ Ahead(L, n, j) \in 0 .. L
           /\ Ahead(L, n, j) <= Ahead(L, n, k)
           /\ k = 0 => Ahead(L, n, k) = L
           /\ k = L => Ahead(L, n, k) = 0
<1>1. PICK m \in Nat : m = k * n
  OBVIOUS
<1>2. j * n = m + n
  BY <1>1
<1>3. Ahead(L, n, k) = Larger(0, L - m) /\ Ahead(L, n, j) = Larger(0, L - (m + n))
  BY <1>1, <1>2 DEF Ahead
<1>5. k = 0 => m = 0
  BY <1>1
<1>6. k = L => m >= L
  <2>1. PICK q \in Nat : n = q + 1
    OBVIOUS
  <2>2. PICK z \in Nat : z = k * q
    BY <2>1
  <2>3. m = z + k
    BY <1>1, <2>1, <2>2
  <2> QED
    BY <2>2, <2>3
<1>7. Larger(0, L - m) \in 0 .. L /\ Larger(0, L - (m + n)) \in 0 .. L
  BY DEF Larger
<1>8. Larger(0, L - (m + n)) <= Larger(0, L - m)
  BY DEF Larger
<1>9. (m = 0 => Larger(0, L - m) = L) /\ (m >= L => Larger(0, L - m) = 0)
  BY DEF Larger
<1> QED
  BY <1>3, <1>5, <1>6, <1>7, <1>8, <1>9

\* How far back the page k pages back is.
Back(k, n) == k * n

\* The page k pages back ends where the one after it began.
LEMMA PageIs ==
    ASSUME NEW items, NEW L \in Nat, L = Len(items), NEW lastN \in Nat \ {0}, NEW n \in Nat \ {0},
           n = Smaller(lastN, PeekMax), NEW k \in Nat, NEW j, j = k + 1,
           NEW a \in Nat, a = Ahead(L, n, j), NEW b \in Nat, b = Ahead(L, n, k)
    PROVE  /\ WorkerPeek(items, lastN, Back(k, n)).items = SubSeq(items, a + 1, b)
           /\ WorkerPeek(items, lastN, Back(k, n)).hasMore <=> a > 0
<1>1. a = Larger(0, Len(items) - n - k * n)
  <2>1. PICK m \in Nat : m = k * n
    OBVIOUS
  <2>2. j * n = m + n
    BY <2>1
  <2>3. L - (m + n) = L - n - m
    OBVIOUS
  <2> QED
    BY <2>1, <2>2, <2>3 DEF Ahead
<1>2. b = Larger(0, Len(items) - k * n)
  BY DEF Ahead
<1>3. WorkerPeek(items, lastN, k * n) =
          [items |-> SubSeq(items, a + 1, b), hasMore |-> a > 0]
  BY <1>1, <1>2, Zenon DEF WorkerPeek
<1>4. PICK w : w = WorkerPeek(items, lastN, k * n)
  OBVIOUS
<1>5. w.items = SubSeq(items, a + 1, b)
  BY <1>3, <1>4
<1>6. w.hasMore = (a > 0)
  BY <1>3, <1>4
<1> QED
  BY <1>4, <1>5, <1>6, Zenon DEF Back

\* Reading a list of any length back page by page shows every item once and in
\* order, and ends.
THEOREM PagesCover ==
    ASSUME NEW S, NEW items \in Seq(S), NEW lastN \in Nat
    PROVE  PagesCoverFor(items, lastN)
<1>1. SUFFICES ASSUME lastN > 0 PROVE PagesCoverFor(items, lastN)
  BY DEF PagesCoverFor
<1>2. PICK L \in Nat : L = Len(items)
  OBVIOUS
<1>3. PICK n \in Nat \ {0} : n = Smaller(lastN, PeekMax)
  <2>1. Smaller(lastN, PeekMax) \in Nat \ {0}
    BY <1>1, CliAssumption DEF Smaller
  <2> QED
    BY <2>1
<1> DEFINE part(k) == WorkerPeek(items, lastN, k * Smaller(lastN, PeekMax))
           pages == {k \in 0 .. Len(items) : \A j \in 0 .. k - 1 : part(j).hasMore}
           last == CHOOSE k \in pages : \A j \in pages : j <= k
<1>5. ASSUME NEW k \in Nat, NEW j, j = k + 1, NEW a \in Nat, a = Ahead(L, n, j), NEW b \in Nat, b = Ahead(L, n, k)
      PROVE  part(k).items = SubSeq(items, a + 1, b) /\ (part(k).hasMore <=> a > 0)
  <2>1. PICK m \in Nat \ {0} : m = lastN
    BY <1>1
  <2>2. /\ WorkerPeek(items, m, Back(k, n)).items = SubSeq(items, a + 1, b)
        /\ WorkerPeek(items, m, Back(k, n)).hasMore <=> a > 0
    <3>1. n = Smaller(m, PeekMax)
      BY <1>3, <2>1
    <3> QED
      BY <1>2, <1>5, <3>1, PageIs, SMTT(40)
  <2> QED
    BY <1>3, <2>1, <2>2, Zenon DEF Back
<1> HIDE DEF part
<1>6. pages \in SUBSET (0 .. L) /\ 0 \in pages
  BY <1>2
<1>7. last \in pages /\ \A j \in pages : j <= last
  <2> DEFINE T == {L - k : k \in pages}
  <2>1. T \in SUBSET Nat /\ T # {}
    BY <1>6
  <2>2. PICK x \in T : \A y \in T : x <= y
    BY <2>1, LeastElement
  <2>3. PICK k \in pages : x = L - k
    BY <2>2
  <2>4. \A j \in pages : j <= k
    <3> TAKE j \in pages
    <3>1. L - j \in T /\ L - k <= L - j
      BY <2>2, <2>3
    <3> QED
      BY <1>6, <3>1
  <2> HIDE DEF pages
  <2> QED
    BY <2>4
<1>8. PICK p \in 0 .. L : p = last
  BY <1>6, <1>7
<1>9. PICK p1 \in Nat : p1 = p + 1 /\ p1 \in 1 .. L + 1
  OBVIOUS
<1>10. p \in pages /\ \A j \in pages : j <= p
  BY <1>7, <1>8, Zenon
<1> HIDE DEF last
<1>11. ~part(p).hasMore
  <2>1. SUFFICES ASSUME part(p).hasMore PROVE FALSE
    OBVIOUS
  <2>2. PICK a \in 0 .. L, b \in 0 .. L : /\ a = Ahead(L, n, p1) /\ b = Ahead(L, n, p)
                                         /\ a <= b /\ (p = L => b = 0)
    <3>1. /\ Ahead(L, n, p) \in 0 .. L /\ Ahead(L, n, p1) \in 0 .. L
          /\ Ahead(L, n, p1) <= Ahead(L, n, p) /\ (p = L => Ahead(L, n, p) = 0)
      <4>1. p \in Nat /\ p1 = p + 1
        BY <1>9
      <4> QED
        BY <4>1, AheadIs
    <3> QED
      BY <3>1
  <2>3. a > 0
    BY <1>5, <1>9, <2>1, <2>2
  <2>4. p # L
    BY <2>2, <2>3
  <2>5. p1 \in 0 .. L /\ p1 - 1 = p
    BY <1>9, <2>4
  <2>6. \A j \in 0 .. p - 1 : part(j).hasMore
    BY <1>10
  <2>7. \A j \in 0 .. p : j \in 0 .. p - 1 \/ j = p
    OBVIOUS
  <2>8. \A j \in 0 .. p1 - 1 : part(j).hasMore
    BY <2>1, <2>5, <2>6, <2>7
  <2>9. p1 \in pages
    BY <1>2, <2>5, <2>8
  <2>10. p1 <= p
    BY <1>10, <2>9
  <2> QED
    BY <1>9, <2>10
<1>12. Ahead(L, n, p1) = 0 /\ Ahead(L, n, 0) = L
  <2>1. PICK a \in 0 .. L, b \in 0 .. L : a = Ahead(L, n, p1) /\ b = Ahead(L, n, p)
    <3>1. p \in Nat /\ p1 = p + 1
      BY <1>9
    <3>2. Ahead(L, n, p) \in 0 .. L /\ Ahead(L, n, p1) \in 0 .. L
      BY <3>1, AheadIs
    <3> QED
      BY <3>2
  <2>2. ~(a > 0)
    BY <1>5, <1>9, <1>11, <2>1
  <2>3. Ahead(L, n, 0) = L
    <3>1. PICK z \in Nat : z = 0
      OBVIOUS
    <3>2. PICK j : j = z + 1
      OBVIOUS
    <3>3. Ahead(L, n, z) = L
      BY <3>1, <3>2, AheadIs
    <3> QED
      BY <3>1, <3>3
  <2> QED
    BY <2>1, <2>2, <2>3
<1> HIDE DEF pages
<1>13. PICK seqs : seqs = [i \in 1 .. p + 1 |-> part(p + 1 - i).items]
  OBVIOUS
<1>14. PICK N \in Nat \ {0} : N = p1 /\ N = Len(seqs)
  <2>1. Len(seqs) = p1
    BY <1>9, <1>13
  <2> QED
    BY <1>9, <2>1
<1>15. PICK f : /\ FlattenSeq(seqs) = f[N]
                /\ \A k \in 1 .. N : f[k] = IF k = 1 THEN seqs[k] ELSE f[k - 1] \o seqs[k]
  BY <1>14, FlattenSteps
\* The piece of the last i pages.
<1>16. ASSUME NEW i \in 0 .. N, i < N, NEW k, k = i + 1, NEW q, q = N - k
       PROVE  \E a, b \in 0 .. L : /\ a = Ahead(L, n, N - i) /\ b = Ahead(L, n, q)
                                    /\ a <= b /\ seqs[k] = SubSeq(items, a + 1, b)
  <2>1. k \in 1 .. p + 1 /\ q \in Nat /\ q = p + 1 - k /\ N - i = q + 1
    BY <1>9, <1>14, <1>16
  <2>2. PICK j : j = q + 1
    OBVIOUS
  <2>3. PICK a \in 0 .. L, b \in 0 .. L : a = Ahead(L, n, j) /\ b = Ahead(L, n, q) /\ a <= b
    <3>1. Ahead(L, n, q) \in 0 .. L /\ Ahead(L, n, j) \in 0 .. L /\ Ahead(L, n, j) <= Ahead(L, n, q)
      BY <2>1, <2>2, AheadIs
    <3> QED
      BY <3>1
  <2>4. seqs[k] = part(q).items
    BY <1>13, <2>1
  <2>5. part(q).items = SubSeq(items, a + 1, b)
    BY <1>5, <2>1, <2>2, <2>3
  <2>6. a = Ahead(L, n, N - i)
    BY <2>1, <2>2, <2>3
  <2> QED
    BY <2>3, <2>4, <2>5, <2>6
<1> DEFINE Shown(i) == \E b \in 0 .. L : b = Ahead(L, n, N - i) /\ f[i] = SubSeq(items, 1, b)
           T == {i \in 0 .. N : i = 0 \/ Shown(i)}
<1>17. 0 \in T
  OBVIOUS
<1>18. ASSUME NEW i \in 0 .. N, i < N, i \in T PROVE i + 1 \in T
  <2>1. PICK k \in 1 .. N : k = i + 1 /\ k - 1 = i
    BY <1>18
  <2>2. PICK q \in Nat : q = N - k
    BY <2>1
  <2>3. PICK a \in 0 .. L, b \in 0 .. L : /\ a = Ahead(L, n, N - i) /\ b = Ahead(L, n, q)
                                         /\ a <= b /\ seqs[k] = SubSeq(items, a + 1, b)
    BY <1>16, <1>18, <2>1, <2>2
  <2>4. f[k] = SubSeq(items, 1, b)
    <3>1. CASE i = 0
      <4>1. N - i = p1
        BY <1>14, <3>1
      <4>2. a = 0
        BY <1>12, <2>3, <4>1
      <4>3. a + 1 = 1
        BY <4>2
      <4>4. k = 1
        BY <2>1, <3>1
      <4>5. f[k] = seqs[k]
        BY <1>15, <2>1, <4>4
      <4> QED
        BY <2>3, <4>3, <4>5
    <3>2. CASE i # 0
      <4>1. k # 1
        BY <2>1, <3>2
      <4>2. f[k] = f[i] \o seqs[k]
        BY <1>15, <2>1, <4>1
      <4>3. f[i] = SubSeq(items, 1, a)
        BY <1>18, <2>3, <3>2
      <4>4. PICK z \in Nat : z = 0 /\ z + 1 = 1
        OBVIOUS
      <4>5. z <= a /\ a <= b /\ b <= Len(items) /\ a \in Nat /\ b \in Nat
        BY <1>2, <2>3, <4>4
      <4>6. SubSeq(items, z + 1, a) \o SubSeq(items, a + 1, b) = SubSeq(items, z + 1, b)
        BY <4>5, Adjoin
      <4> QED
        BY <2>3, <4>2, <4>3, <4>4, <4>6
    <3> QED
      BY <3>1, <3>2
  <2>5. Shown(k)
    BY <2>2, <2>3, <2>4
  <2> HIDE DEF Shown
  <2>6. k \in T
    BY <2>1, <2>5
  <2> QED
    BY <2>1, <2>6
<1>19. FlattenSeq(seqs) = items
  <2>1. N \in T
    <3> HIDE DEF T
    <3>1. \A i \in 0 .. N : i < N /\ i \in T => i + 1 \in T
      BY <1>18
    <3>2. \A i \in 0 .. N : i \in T
      BY <1>17, <3>1, Stepwise
    <3> QED
      BY <3>2
  <2>2. PICK b \in 0 .. L : b = Ahead(L, n, N - N) /\ f[N] = SubSeq(items, 1, b)
    BY <2>1
  <2>3. N - N = 0
    OBVIOUS
  <2>4. b = Len(items)
    BY <1>2, <1>12, <2>2, <2>3
  <2>5. SubSeq(items, 1, Len(items)) = items
    OBVIOUS
  <2> QED
    BY <1>15, <2>2, <2>4, <2>5
<1>20. FlattenSeq([i \in 1 .. last + 1 |-> part(last + 1 - i).items]) = items /\ ~part(last).hasMore
  BY <1>8, <1>11, <1>13, <1>19
<1> QED
  BY <1>20, Zenon DEF PagesCoverFor, part, pages, last

(***************************************************************************)
(* Every call.                                                             *)
(***************************************************************************)
LEMMA CallsOnly == CallsSpec => [](sample \in Calls)
<1>1. CallsInit => sample \in Calls
  BY DEF CallsInit
<1>2. sample \in Calls /\ [UNCHANGED sample]_sample => (sample \in Calls)'
  OBVIOUS
<1> QED
  BY <1>1, <1>2, PTL DEF CallsSpec

\* Of the schema of any protocol: whatever name is typed, what bdg cdp offers can
\* be used, and listing, searching, describing and executing agree.
THEOREM ProtocolAlwaysAgrees == CallsSpec => []ProtocolAgrees
<1>1. sample \in Calls => ProtocolAgrees
  BY CallsAssumption, NamesAgree, SchemasAgree DEF ProtocolAgrees, Texts
<1> QED
  BY <1>1, CallsOnly, PTL

\* The distance of any two texts is that of the cheapest alignment, and the names
\* suggested for any typed one are the closest by it.
THEOREM SuggestionsClosest == CallsSpec => []SuggestionsAreClosest
<1>1. sample \in Calls => SuggestionsAreClosest
  BY CallsAssumption, DistanceIsMinimal, ClosestAreSuggested DEF SuggestionsAreClosest, Texts
<1> QED
  BY <1>1, CallsOnly, PTL

\* Whatever URL is typed: what bdg start accepts is what the worker opens.
THEOREM UrlsNavigated == CallsSpec => []ValidatedIsNavigated
<1>1. sample \in Calls => ValidatedIsNavigated
  BY CallsAssumption, TypedIsNavigated DEF ValidatedIsNavigated, Texts, Tokens
<1> QED
  BY <1>1, CallsOnly, PTL

\* Any pattern means what its stars say, and the options of the filters only do
\* what they are for, whatever the response.
THEOREM FiltersTrue == CallsSpec => []FiltersMean
<1>1. ASSUME sample \in Calls, sample.is = "pattern" PROVE WildcardMeansFor(sample.s, sample.pattern)
  BY <1>1, CallsAssumption, WildcardsMean DEF Texts
<1>2. ASSUME sample \in Calls, sample.is = "body"
      PROVE  FiltersAreMonotoneFor(sample.url, sample.mime, sample.size, sample.options)
  BY <1>2, CallsAssumption, OptionsAreMonotone
<1>3. sample \in Calls => FiltersMean
  BY <1>1, <1>2 DEF FiltersMean
<1> QED
  BY <1>3, CallsOnly, PTL

\* Any list is shown whole when it is read back page by page.
THEOREM ListsWhole == CallsSpec => []ListsAreWhole
<1>1. sample \in Calls => ListsAreWhole
  BY CallsAssumption, PagesCover DEF ListsAreWhole
<1> QED
  BY <1>1, CallsOnly, PTL
=============================================================================
