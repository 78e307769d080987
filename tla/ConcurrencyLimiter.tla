--------------------------- MODULE ConcurrencyLimiter ---------------------------
(***************************************************************************)
(* utils/concurrency.ts: ConcurrencyLimiter.run(), which bounds the number *)
(* of CDP calls in flight (telemetry/utils.ts, commands/dom/helpers.ts).   *)
(*                                                                         *)
(* A task is one call of run().  The code between two awaits is one        *)
(* action; a resolved waiter resumes in a later microtask, so a task that  *)
(* calls run() in between may take the slot the waiter was woken for.      *)
(***************************************************************************)
EXTENDS Naturals, Sequences, FiniteSets

CONSTANTS Tasks, Limit

ASSUME TasksAssumption == IsFiniteSet(Tasks)
ASSUME LimitAssumption == Limit \in Nat \ {0}   \* the constructor throws below 1

VARIABLES
    running,    \* operations executing
    queue,      \* resolve functions of the waiters, oldest first
    state       \* where each call of run() stands

vars == <<running, queue, state>>

TaskState == {"new", "queued", "woken", "running", "done"}

In(s) == {t \in Tasks : state[t] = s}

TypeOK ==
    /\ running \in Nat
    /\ queue \in Seq(Tasks)
    /\ state \in [Tasks -> TaskState]

Init ==
    /\ running = 0
    /\ queue = <<>>
    /\ state = [t \in Tasks |-> "new"]

\* Mutant: the running operation is not counted.
EnterUncounted(t) ==
    /\ state[t] \in {"new", "woken"}
    /\ running < Limit
    /\ state' = [state EXCEPT ![t] = "running"]
    /\ UNCHANGED <<running, queue>>

\* The test at the head of the loop: wait for a slot, or take one and call fn.
\* A woken waiter that finds no slot queues again, at the end.
Enter(t) ==
    /\ state[t] \in {"new", "woken"}
    /\ \/ /\ running >= Limit
          /\ queue' = Append(queue, t)
          /\ state' = [state EXCEPT ![t] = "queued"]
          /\ UNCHANGED running
       \/ /\ running < Limit
          /\ running' = running + 1
          /\ state' = [state EXCEPT ![t] = "running"]
          /\ UNCHANGED queue

Call(t) == state[t] = "new" /\ Enter(t)
\* Mutant: a woken waiter does not test for a slot again (if instead of while).
ResumeUnchecked(t) ==
    /\ state[t] = "woken"
    /\ running' = running + 1
    /\ state' = [state EXCEPT ![t] = "running"]
    /\ UNCHANGED queue

Resume(t) == state[t] = "woken" /\ Enter(t)

\* Mutants: nobody is woken, or the woken waiter stays in the queue.
FinishWithoutWake(t) ==
    /\ state[t] = "running"
    /\ running' = running - 1
    /\ state' = [state EXCEPT ![t] = "done"]
    /\ UNCHANGED queue

\* fn settled, by value or by error: free the slot and wake the oldest waiter.
Finish(t) ==
    /\ state[t] = "running"
    /\ running' = running - 1
    /\ IF queue = <<>>
       THEN /\ state' = [state EXCEPT ![t] = "done"]
            /\ UNCHANGED queue
       ELSE /\ state' = [state EXCEPT ![t] = "done", ![Head(queue)] = "woken"]
            /\ queue' = Tail(queue)

Next == \E t \in Tasks : Call(t) \/ Resume(t) \/ Finish(t)

Spec == Init /\ [][Next]_vars

(***************************************************************************)
(* Properties.                                                             *)
(***************************************************************************)
\* The counter counts the tasks inside fn and never passes the limit, although
\* the slot test and the wake-up of a waiter are separate steps.
BoundedConcurrency == running = Cardinality(In("running")) /\ running <= Limit

\* The queue holds exactly the suspended tasks, each once: no waiter is lost or
\* woken twice.
QueueIsExact ==
    /\ \A t \in Tasks : state[t] = "queued" <=> \E i \in DOMAIN queue : queue[i] = t
    /\ \A i, j \in DOMAIN queue : queue[i] = queue[j] => i = j

\* No lost wake-up: while somebody is queued, each slot is taken or has a woken
\* waiter on its way to it, also when a newcomer took the slot meant for it.
NoLostWakeup == queue # <<>> => running + Cardinality(In("woken")) >= Limit

\* Never too many inside fn, and no slot idle beside a waiter.
SlotsAreShared == BoundedConcurrency /\ NoLostWakeup

IInv == TypeOK /\ BoundedConcurrency /\ QueueIsExact /\ NoLostWakeup
=============================================================================
