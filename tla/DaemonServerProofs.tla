--------------------------- MODULE DaemonServerProofs ---------------------------
(***************************************************************************)
(* Proofs about DaemonServer, for any sets of requests and workers.        *)
(***************************************************************************)
EXTENDS DaemonServer, TLAPS

\* An answer is appended to one socket, and the other sockets keep theirs.
LEMMA ReplyEffect ==
    ASSUME replies \in [Requests -> Seq(Outcome)],
           NEW r \in Requests, NEW out \in Outcome, Reply(r, out)
    PROVE  /\ replies' \in [Requests -> Seq(Outcome)]
           /\ replies'[r] = Append(replies[r], out)
           /\ \A s \in Requests : s # r => replies'[s] = replies[s]
<1>1. Append(replies[r], out) \in Seq(Outcome)
  OBVIOUS
<1>2. QED
  BY <1>1 DEF Reply

\* The same answer goes to each socket of a set, and to no other.
LEMMA ReplyAllEffect ==
    ASSUME replies \in [Requests -> Seq(Outcome)],
           NEW S \in SUBSET Requests, NEW out \in Outcome, ReplyAll(S, out)
    PROVE  /\ replies' \in [Requests -> Seq(Outcome)]
           /\ \A s \in Requests :
                 replies'[s] = IF s \in S THEN Append(replies[s], out) ELSE replies[s]
<1>1. \A s \in Requests : replies[s] \in Seq(Outcome) /\ Append(replies[s], out) \in Seq(Outcome)
  OBVIOUS
<1>2. \A s \in Requests :
          (IF s \in S THEN Append(replies[s], out) ELSE replies[s]) \in Seq(Outcome)
  BY <1>1
<1>3. QED
  BY <1>2, Zenon DEF ReplyAll

\* What forwarding a request and answering it at once do to the types.
LEMMA ForwardType ==
    ASSUME TypeOK, NEW r \in Requests, Forward(r)
    PROVE  /\ replies' \in [Requests -> Seq(Outcome)]
           /\ pending' \in SUBSET Requests /\ timers' \in SUBSET Requests
           /\ daemon' \in {"up", "stopping", "down"}
           /\ inWorker' \in [Workers -> SUBSET Requests]
<1>1. worker \in Workers /\ inWorker[worker] \cup {r} \in SUBSET Requests
  BY DEF Forward, TypeOK
<1>2. inWorker' \in [Workers -> SUBSET Requests]
  BY <1>1 DEF Forward, WriteToWorker, TypeOK
<1>3. QED
  BY <1>2 DEF Forward, WriteToWorker, TypeOK

LEMMA RespondType ==
    ASSUME TypeOK, NEW r \in Requests, NEW out \in Outcome, Respond(r, out)
    PROVE  /\ replies' \in [Requests -> Seq(Outcome)]
           /\ pending' \in SUBSET Requests /\ timers' \in SUBSET Requests
           /\ daemon' \in {"up", "stopping", "down"}
           /\ inWorker' \in [Workers -> SUBSET Requests]
  BY ReplyEffect DEF Respond, TypeOK

\* Every variable keeps its type under every callback, client step and worker
\* step.
THEOREM TypeCorrect == Spec => []TypeOK
<1>1. Init => TypeOK
  BY NoRequestAssumption DEF Init, TypeOK, AllKinds, ClientState, ProcState
<1>2. TypeOK /\ [Next]_vars => TypeOK'
  <2> SUFFICES ASSUME TypeOK, [Next]_vars
               PROVE  TypeOK'
    OBVIOUS
  <2> USE DEF TypeOK, Outcome
  <2>1. ASSUME NEW r \in Requests, NEW k \in Kinds, SendRequest(r, k)
        PROVE  TypeOK'
    BY <2>1, KindsAssumption
       DEF SendRequest, routing, manager, processes, ClientState
  <2>2. ASSUME NEW r \in Requests, ReceiveReply(r)
        PROVE  TypeOK'
    <3>1. Head(replies[r]) \in Outcome
      BY <2>2 DEF ReceiveReply
    <3>2. QED
      BY <2>2, <3>1 DEF ReceiveReply, Settle, routing, manager, processes, ClientState
  <2>3. ASSUME NEW r \in Requests, EarlyClose(r)
        PROVE  TypeOK'
    BY <2>3 DEF EarlyClose, Settle, routing, manager, processes, ClientState
  <2>4. ASSUME NEW r \in Requests, ClientTimeout(r)
        PROVE  TypeOK'
    BY <2>4 DEF ClientTimeout, Settle, routing, manager, processes, ClientState
  <2>5. ASSUME NEW r \in Requests, HandleHandshake(r)
        PROVE  TypeOK'
    BY <2>5, ReplyEffect DEF HandleHandshake, Take, clientVars, routing, manager, processes
  <2>6. ASSUME NEW r \in Requests, HandleCommand(r)
        PROVE  TypeOK'
    BY <2>6, ForwardType, RespondType DEF HandleCommand, Take, clientVars, manager
  <2>7. ASSUME NEW r \in Requests, HandlePeek(r)
        PROVE  TypeOK'
    BY <2>7, ForwardType, RespondType DEF HandlePeek, Take, clientVars, manager
  <2>8. ASSUME NEW r \in Requests, HandleStatus(r)
        PROVE  TypeOK'
    BY <2>8, ForwardType, RespondType DEF HandleStatus, Take, clientVars, manager
  <2>9. ASSUME NEW r \in Requests, HandleStart(r)
        PROVE  TypeOK'
    BY <2>9, ReplyEffect DEF HandleStart, Take, clientVars, ProcState
  <2>10. ASSUME NEW r \in Requests, HandleStop(r)
         PROVE  TypeOK'
    <3>1. Terminate(pidFile) => proc' \in [Workers -> ProcState]
      BY DEF Terminate, ProcState
    <3>2. QED
      BY <2>10, <3>1, ReplyEffect DEF HandleStop, Take, Dispose, clientVars, routing
  <2>11. ASSUME NEW r \in Requests, ResponseTimeout(r)
         PROVE  TypeOK'
    BY <2>11, ReplyEffect DEF ResponseTimeout, RemovePending, clientVars, manager, processes
  <2>12. ASSUME NEW r \in Requests, RefuseStart(r)
         PROVE  TypeOK'
    BY <2>12, ReplyEffect DEF RefuseStart, clientVars, manager, processes
  <2>13. ASSUME NEW w \in Workers, AttachWorker(w)
         PROVE  TypeOK'
    <3>1. outbox' \in [Workers -> SUBSET Message]
      BY <2>13 DEF AttachWorker
    <3>2. QED
      BY <2>13, <3>1, ReplyEffect DEF AttachWorker, clientVars, routing, manager
  <2>14. ASSUME NEW w \in Workers, WorkerMessage(w)
         PROVE  TypeOK'
    <3>1. PICK m \in outbox[w] \cap Answer :
              /\ outbox' = [outbox EXCEPT ![w] = @ \ {m}]
              /\ \/ /\ RemovePending({m.req})
                    /\ Reply(m.req, IF m.success THEN "ok" ELSE "error")
                 \/ UNCHANGED <<pending, timers, replies>>
      BY <2>14 DEF WorkerMessage
    <3>2. outbox[w] \ {m} \in SUBSET Message
      OBVIOUS
    <3>3. outbox' \in [Workers -> SUBSET Message]
      BY <3>1, <3>2, Zenon
    <3>4. replies' \in [Requests -> Seq(Outcome)]
      BY <3>1, ReplyEffect DEF Answer
    <3>5. QED
      BY <2>14, <3>1, <3>3, <3>4 DEF WorkerMessage, RemovePending, clientVars, manager
  <2>15. ASSUME NEW w \in Workers, WorkerExit(w)
         PROVE  TypeOK'
    <3>1. replies' \in [Requests -> Seq(Outcome)]
      BY <2>15, ReplyEffect, ReplyAllEffect DEF WorkerExit
    <3>2. proc' \in [Workers -> ProcState] /\ awaiting' \in [Workers -> Requests \cup {NoRequest}]
      BY <2>15 DEF WorkerExit, ProcState
    <3>3. QED
      BY <2>15, <3>1, <3>2 DEF WorkerExit, RemovePending, Dispose, clientVars
  <2>16. ASSUME NEW w \in Workers, ReadyTimeout(w)
         PROVE  TypeOK'
    BY <2>16, ReplyEffect DEF ReadyTimeout, clientVars, routing, ProcState
  <2>17. ASSUME NEW w \in Workers, WorkerWritesPid(w)
         PROVE  TypeOK'
    BY <2>17 DEF WorkerWritesPid, clientVars, routing, manager, ProcState
  <2>18. ASSUME NEW w \in Workers, WorkerReady(w)
         PROVE  TypeOK'
    <3>1. outbox' \in [Workers -> SUBSET Message]
      BY <2>18 DEF WorkerReady, Message
    <3>2. QED
      BY <2>18, <3>1 DEF WorkerReady, clientVars, routing, manager, ProcState
  <2>19. ASSUME NEW w \in Workers, WorkerAnswers(w)
         PROVE  TypeOK'
    <3>1. outbox' \in [Workers -> SUBSET Message]
      BY <2>19 DEF WorkerAnswers, Message, Answer
    <3>2. inWorker' \in [Workers -> SUBSET Requests]
      BY <2>19 DEF WorkerAnswers
    <3>3. QED
      BY <2>19, <3>1, <3>2 DEF WorkerAnswers, clientVars, routing, manager
  <2>20. ASSUME NEW w \in Workers, WorkerCleanup(w)
         PROVE  TypeOK'
    BY <2>20 DEF WorkerCleanup, clientVars, routing, manager, ProcState
  <2>21. ASSUME NEW w \in Workers, WorkerDies(w)
         PROVE  TypeOK'
    BY <2>21 DEF WorkerDies, clientVars, routing, manager, ProcState
  <2>22. ASSUME DaemonExit
         PROVE  TypeOK'
    BY <2>22 DEF DaemonExit, clientVars, routing, manager, processes
  <2>23. ASSUME UNCHANGED vars
         PROVE  TypeOK'
    BY <2>23 DEF vars, clientVars, routing, manager, processes
  <2>24. QED
    BY <2>1, <2>2, <2>3, <2>4, <2>5, <2>6, <2>7, <2>8, <2>9, <2>10, <2>11, <2>12,
       <2>13, <2>14, <2>15, <2>16, <2>17, <2>18, <2>19, <2>20, <2>21, <2>22, <2>23
       DEF Next, Handle
<1>3. QED
  BY <1>1, <1>2, PTL DEF Spec

\* A request that has no answer yet gets its first one.
LEMMA FirstAnswer ==
    ASSUME TypeOK, OneReplyPerRequest, NEW r \in Requests \ Answered,
           NEW out \in Outcome, Reply(r, out)
    PROVE  Answered' = Answered \cup {r} /\ OneReplyPerRequest'
<1>1. replies'[r] = Append(<<>>, out) /\ \A s \in Requests : s # r => replies'[s] = replies[s]
  BY ReplyEffect DEF TypeOK, Answered
<1>2. replies'[r] # <<>> /\ Len(replies'[r]) <= 1
  BY <1>1
<1>3. ASSUME NEW s \in Requests
      PROVE  Len(replies'[s]) <= 1
  <2>1. CASE s = r
    BY <1>2, <2>1
  <2>2. CASE s # r
    BY <1>1, <2>2 DEF OneReplyPerRequest
  <2>3. QED
    BY <2>1, <2>2
<1>4. \A s \in Requests : replies'[s] # <<>> <=> replies[s] # <<>> \/ s = r
  BY <1>1, <1>2
<1>5. QED
  BY <1>3, <1>4 DEF Answered, OneReplyPerRequest

\* So do all the requests of a set that has no answers.
LEMMA FirstAnswers ==
    ASSUME TypeOK, OneReplyPerRequest, NEW S \in SUBSET Requests, S \cap Answered = {},
           NEW out \in Outcome, ReplyAll(S, out)
    PROVE  Answered' = Answered \cup S /\ OneReplyPerRequest'
<1>1. \A s \in Requests : replies'[s] = IF s \in S THEN Append(replies[s], out) ELSE replies[s]
  BY ReplyAllEffect DEF TypeOK
<1>2. \A s \in S : replies[s] = <<>>
  BY DEF Answered
<1>3. ASSUME NEW s \in S
      PROVE  replies'[s] # <<>> /\ Len(replies'[s]) = 1
  <2>1. replies'[s] = Append(<<>>, out)
    BY <1>1, <1>2
  <2>2. QED
    BY <2>1
<1>4. OneReplyPerRequest'
  BY <1>1, <1>3 DEF OneReplyPerRequest
<1>5. \A s \in Requests : replies'[s] # <<>> <=> replies[s] # <<>> \/ s \in S
  BY <1>1, <1>3
<1>6. QED
  BY <1>4, <1>5 DEF Answered

\* No answer, no change.
LEMMA NoAnswer ==
    ASSUME OneReplyPerRequest, UNCHANGED replies
    PROVE  Answered' = Answered /\ OneReplyPerRequest'
  BY DEF OneReplyPerRequest, Answered

\* No launch begins or ends.
LEMMA SameLaunches ==
    ASSUME UNCHANGED awaiting
    PROVE  Starting' = Starting
  BY DEF Starting

\* A launch that ends is no longer owed, and the others still are.
LEMMA LaunchEnds ==
    ASSUME TypeOK, OwedByExactlyOne, NEW w \in Workers,
           awaiting' = [awaiting EXCEPT ![w] = NoRequest]
    PROVE  /\ Starting' = Starting \ {awaiting[w]}
           /\ \A u, v \in Workers :
                 awaiting'[u] = awaiting'[v] => u = v \/ awaiting'[u] = NoRequest
<1>1. \A v \in Workers : awaiting'[v] = IF v = w THEN NoRequest ELSE awaiting[v]
  BY DEF TypeOK
<1>2. \A v \in Workers : awaiting[v] = awaiting[w] => v = w \/ awaiting[v] = NoRequest
  BY DEF OwedByExactlyOne
<1>3. QED
  BY <1>1, <1>2 DEF Starting, OwedByExactlyOne


\* One reply per request and one owner per request, under every action.  The
\* interesting cases are the steps that move a request from one owner to the
\* next.
LEMMA OwnershipStep ==
    ASSUME IInv, [Next]_vars
    PROVE  OwedByExactlyOne' /\ OneReplyPerRequest' /\ SentBeforeOwed'
<1> USE DEF IInv, TypeOK, OwedByExactlyOne, SentBeforeOwed, Outcome
<1>1. ASSUME NEW r \in Requests, NEW k \in Kinds, SendRequest(r, k)
      PROVE  OwedByExactlyOne' /\ OneReplyPerRequest' /\ SentBeforeOwed'
  BY <1>1, NoAnswer, SameLaunches DEF SendRequest, Settle, routing, manager, processes, ClientState
<1>2. ASSUME NEW r \in Requests, ReceiveReply(r)
      PROVE  OwedByExactlyOne' /\ OneReplyPerRequest' /\ SentBeforeOwed'
  <2>1. Head(replies[r]) \in Outcome
    BY <1>2 DEF ReceiveReply
  <2>2. QED
    BY <1>2, <2>1, NoAnswer, SameLaunches
       DEF ReceiveReply, Settle, routing, manager, processes, ClientState
<1>3. ASSUME NEW r \in Requests, EarlyClose(r)
      PROVE  OwedByExactlyOne' /\ OneReplyPerRequest' /\ SentBeforeOwed'
  BY <1>3, NoAnswer, SameLaunches DEF EarlyClose, Settle, routing, manager, processes, ClientState
<1>4. ASSUME NEW r \in Requests, ClientTimeout(r)
      PROVE  OwedByExactlyOne' /\ OneReplyPerRequest' /\ SentBeforeOwed'
  BY <1>4, NoAnswer, SameLaunches DEF ClientTimeout, Settle, routing, manager, processes, ClientState
<1>5. ASSUME NEW r \in Requests, HandleHandshake(r)
      PROVE  OwedByExactlyOne' /\ OneReplyPerRequest' /\ SentBeforeOwed'
  <2>1. r \in inbox /\ r \notin Answered
    BY <1>5 DEF HandleHandshake, Take
  <2>2. Answered' = Answered \cup {r} /\ OneReplyPerRequest'
    BY <1>5, <2>1, FirstAnswer DEF HandleHandshake
  <2>3. QED
    BY <1>5, <2>1, <2>2, SameLaunches DEF HandleHandshake, Take, clientVars, routing, manager
<1>6. ASSUME NEW r \in Requests, HandleCommand(r)
      PROVE  OwedByExactlyOne' /\ OneReplyPerRequest' /\ SentBeforeOwed'
  <2>1. r \in inbox /\ r \notin Answered
    BY <1>6 DEF HandleCommand, Take
  <2>2. CASE Forward(r)
    BY <1>6, <2>1, <2>2, NoAnswer, SameLaunches DEF HandleCommand, Take, Forward, clientVars, manager
  <2>3. CASE \E out \in Outcome : Respond(r, out)
    <3>1. Answered' = Answered \cup {r} /\ OneReplyPerRequest'
      BY <2>1, <2>3, FirstAnswer DEF Respond
    <3>2. QED
      BY <1>6, <2>1, <2>3, <3>1, SameLaunches DEF HandleCommand, Take, Respond, Starting, clientVars, manager
  <2>4. QED
    BY <1>6, <2>2, <2>3 DEF HandleCommand
<1>7. ASSUME NEW r \in Requests, HandlePeek(r)
      PROVE  OwedByExactlyOne' /\ OneReplyPerRequest' /\ SentBeforeOwed'
  <2>1. r \in inbox /\ r \notin Answered
    BY <1>7 DEF HandlePeek, Take
  <2>2. CASE Forward(r)
    BY <1>7, <2>1, <2>2, NoAnswer, SameLaunches DEF HandlePeek, Take, Forward, clientVars, manager
  <2>3. CASE \E out \in Outcome : Respond(r, out)
    <3>1. Answered' = Answered \cup {r} /\ OneReplyPerRequest'
      BY <2>1, <2>3, FirstAnswer DEF Respond
    <3>2. QED
      BY <1>7, <2>1, <2>3, <3>1, SameLaunches DEF HandlePeek, Take, Respond, Starting, clientVars, manager
  <2>4. QED
    BY <1>7, <2>2, <2>3 DEF HandlePeek
<1>8. ASSUME NEW r \in Requests, HandleStatus(r)
      PROVE  OwedByExactlyOne' /\ OneReplyPerRequest' /\ SentBeforeOwed'
  <2>1. r \in inbox /\ r \notin Answered
    BY <1>8 DEF HandleStatus, Take
  <2>2. CASE Forward(r)
    BY <1>8, <2>1, <2>2, NoAnswer, SameLaunches DEF HandleStatus, Take, Forward, clientVars, manager
  <2>3. CASE \E out \in Outcome : Respond(r, out)
    <3>1. Answered' = Answered \cup {r} /\ OneReplyPerRequest'
      BY <2>1, <2>3, FirstAnswer DEF Respond
    <3>2. QED
      BY <1>8, <2>1, <2>3, <3>1, SameLaunches DEF HandleStatus, Take, Respond, Starting, clientVars, manager
  <2>4. QED
    BY <1>8, <2>2, <2>3 DEF HandleStatus
<1>9. ASSUME NEW r \in Requests, HandleStart(r)
      PROVE  OwedByExactlyOne' /\ OneReplyPerRequest' /\ SentBeforeOwed'
  <2>1. /\ r \in inbox /\ r \notin Answered /\ r \notin Starting
        /\ inbox' = inbox \ {r} /\ UNCHANGED <<client, pending>>
    BY <1>9 DEF HandleStart, Take, clientVars
  <2>2. CASE deferred' = deferred \cup {r} /\ UNCHANGED <<replies, awaiting>>
    BY <2>1, <2>2, NoAnswer, SameLaunches
  <2>3. CASE Reply(r, "error") /\ UNCHANGED <<deferred, awaiting>>
    <3>1. Answered' = Answered \cup {r} /\ OneReplyPerRequest'
      BY <2>1, <2>3, FirstAnswer
    <3>2. QED
      BY <2>1, <2>3, <3>1, SameLaunches
  <2>4. ASSUME NEW w \in Workers, proc[w] = "unused",
               awaiting' = [awaiting EXCEPT ![w] = r], UNCHANGED <<replies, deferred>>
        PROVE  OwedByExactlyOne' /\ OneReplyPerRequest' /\ SentBeforeOwed'
    <3>1. awaiting[w] = NoRequest
      BY <2>4 DEF LaunchOfLiveWorker
    <3>2. \A v \in Workers : awaiting'[v] = IF v = w THEN r ELSE awaiting[v]
      BY <2>4
    <3>3. /\ r \in Starting'
          /\ \A s \in Starting : s \in Starting'
          /\ \A s \in Starting' : s \in Starting \/ s = r
      <4>1. awaiting'[w] = r /\ r # NoRequest
        BY <3>2, NoRequestAssumption
      <4>2. ASSUME NEW s \in Starting
            PROVE  s \in Starting'
        <5>1. PICK v \in Workers : awaiting[v] = s /\ s # NoRequest
          BY DEF Starting
        <5>2. awaiting'[v] = s
          BY <3>1, <3>2, <5>1
        <5>3. QED
          BY <5>1, <5>2 DEF Starting
      <4>3. QED
        BY <3>2, <4>1, <4>2 DEF Starting
    <3>4. Starting' = Starting \cup {r}
      BY <3>3
    <3>5. \A u, v \in Workers : awaiting'[u] = awaiting'[v] => u = v \/ awaiting'[u] = NoRequest
      BY <2>1, <3>2 DEF Starting
    <3>6. Answered' = Answered /\ OneReplyPerRequest'
      BY <2>4, NoAnswer
    <3>7. QED
      BY <2>1, <2>4, <3>4, <3>5, <3>6
  <2>5. QED
    BY <1>9, <2>2, <2>3, <2>4 DEF HandleStart
<1>10. ASSUME NEW r \in Requests, HandleStop(r)
      PROVE  OwedByExactlyOne' /\ OneReplyPerRequest' /\ SentBeforeOwed'
  <2>1. r \in inbox /\ r \notin Answered
    BY <1>10 DEF HandleStop, Take
  <2>2. Answered' = Answered \cup {r} /\ OneReplyPerRequest'
    BY <1>10, <2>1, FirstAnswer DEF HandleStop
  <2>3. QED
    BY <1>10, <2>1, <2>2, SameLaunches DEF HandleStop, Take, clientVars, routing
<1>11. ASSUME NEW r \in Requests, ResponseTimeout(r)
      PROVE  OwedByExactlyOne' /\ OneReplyPerRequest' /\ SentBeforeOwed'
  <2>1. r \in pending /\ r \notin Answered
    BY <1>11 DEF ResponseTimeout, PendingIsTimed
  <2>2. Answered' = Answered \cup {r} /\ OneReplyPerRequest'
    BY <1>11, <2>1, FirstAnswer DEF ResponseTimeout
  <2>3. QED
    BY <1>11, <2>1, <2>2, SameLaunches DEF ResponseTimeout, RemovePending, clientVars, manager
<1>12. ASSUME NEW r \in Requests, RefuseStart(r)
      PROVE  OwedByExactlyOne' /\ OneReplyPerRequest' /\ SentBeforeOwed'
  <2>1. r \in deferred /\ r \notin Answered
    BY <1>12 DEF RefuseStart
  <2>2. Answered' = Answered \cup {r} /\ OneReplyPerRequest'
    BY <1>12, <2>1, FirstAnswer DEF RefuseStart
  <2>3. QED
    BY <1>12, <2>1, <2>2, SameLaunches DEF RefuseStart, clientVars, manager
<1>13. ASSUME NEW w \in Workers, AttachWorker(w)
      PROVE  OwedByExactlyOne' /\ OneReplyPerRequest' /\ SentBeforeOwed'
  <2>1. CASE awaiting[w] # NoRequest
    <3>1. awaiting[w] \in Starting \ Answered
      BY <2>1 DEF Starting
    <3>2. Answered' = Answered \cup {awaiting[w]} /\ OneReplyPerRequest'
      BY <1>13, <2>1, <3>1, FirstAnswer DEF AttachWorker, Starting
    <3>3. /\ Starting' = Starting \ {awaiting[w]}
          /\ \A u, v \in Workers : awaiting'[u] = awaiting'[v] => u = v \/ awaiting'[u] = NoRequest
      BY <1>13, <2>1, LaunchEnds DEF AttachWorker
    <3>4. QED
      BY <1>13, <3>1, <3>2, <3>3 DEF AttachWorker, clientVars, routing
  <2>2. CASE awaiting[w] = NoRequest
    BY <1>13, <2>2, NoAnswer, SameLaunches DEF AttachWorker, clientVars, routing, manager
  <2>3. QED
    BY <2>1, <2>2
<1>14. ASSUME NEW w \in Workers, WorkerMessage(w)
      PROVE  OwedByExactlyOne' /\ OneReplyPerRequest' /\ SentBeforeOwed'
  <2>1. PICK m \in Answer : \/ /\ m.req \in pending
                                /\ RemovePending({m.req})
                                /\ Reply(m.req, IF m.success THEN "ok" ELSE "error")
                             \/ UNCHANGED <<pending, timers, replies>>
    BY <1>14 DEF WorkerMessage
  <2>2. CASE UNCHANGED <<pending, timers, replies>>
    BY <1>14, <2>2, NoAnswer, SameLaunches DEF WorkerMessage, clientVars, manager
  <2>3. CASE m.req \in pending /\ RemovePending({m.req}) /\ \E out \in Outcome : Reply(m.req, out)
    <3>1. Answered' = Answered \cup {m.req} /\ OneReplyPerRequest'
      BY <2>3, FirstAnswer
    <3>2. QED
      BY <1>14, <2>3, <3>1, SameLaunches DEF WorkerMessage, RemovePending, clientVars, manager
  <2>4. QED
    BY <2>1, <2>2, <2>3
<1>15. ASSUME NEW w \in Workers, WorkerExit(w)
      PROVE  OwedByExactlyOne' /\ OneReplyPerRequest' /\ SentBeforeOwed'
  <2>1. CASE w \notin listening /\ awaiting[w] # NoRequest
    <3>1. awaiting[w] \in Starting \ Answered
      BY <2>1 DEF Starting
    <3>2. Answered' = Answered \cup {awaiting[w]} /\ OneReplyPerRequest'
      BY <1>15, <2>1, <3>1, FirstAnswer DEF WorkerExit, Starting
    <3>3. /\ Starting' = Starting \ {awaiting[w]}
          /\ \A u, v \in Workers : awaiting'[u] = awaiting'[v] => u = v \/ awaiting'[u] = NoRequest
      BY <1>15, <2>1, LaunchEnds DEF WorkerExit
    <3>4. QED
      BY <1>15, <2>1, <3>1, <3>2, <3>3 DEF WorkerExit, clientVars
  <2>2. CASE w \notin listening /\ awaiting[w] = NoRequest
    BY <1>15, <2>2, NoAnswer, SameLaunches DEF WorkerExit, clientVars
  <2>3. CASE w \in listening
    <3>1. awaiting[w] = NoRequest /\ UNCHANGED awaiting
      BY <1>15, <2>3 DEF WorkerExit, LaunchOfLiveWorker
    <3>2. Answered' = Answered \cup pending /\ OneReplyPerRequest'
      BY <1>15, <2>3, FirstAnswers DEF WorkerExit
    <3>3. QED
      BY <1>15, <2>3, <3>1, <3>2, SameLaunches DEF WorkerExit, RemovePending, clientVars
  <2>4. QED
    BY <2>1, <2>2, <2>3
<1>16. ASSUME NEW w \in Workers, ReadyTimeout(w)
      PROVE  OwedByExactlyOne' /\ OneReplyPerRequest' /\ SentBeforeOwed'
  <2>1. awaiting[w] # NoRequest
    BY <1>16 DEF ReadyTimeout
  <2>2. awaiting[w] \in Starting \ Answered
    BY <2>1 DEF Starting
  <2>3. Answered' = Answered \cup {awaiting[w]} /\ OneReplyPerRequest'
    BY <1>16, <2>1, <2>2, FirstAnswer DEF ReadyTimeout, Starting
  <2>4. /\ Starting' = Starting \ {awaiting[w]}
        /\ \A u, v \in Workers : awaiting'[u] = awaiting'[v] => u = v \/ awaiting'[u] = NoRequest
    BY <1>16, LaunchEnds DEF ReadyTimeout
  <2>5. QED
    BY <1>16, <2>2, <2>3, <2>4 DEF ReadyTimeout, clientVars, routing
<1>17. ASSUME NEW w \in Workers, WorkerWritesPid(w)
      PROVE  OwedByExactlyOne' /\ OneReplyPerRequest' /\ SentBeforeOwed'
  BY <1>17, NoAnswer, SameLaunches DEF WorkerWritesPid, clientVars, routing, manager, processes
<1>18. ASSUME NEW w \in Workers, WorkerReady(w)
      PROVE  OwedByExactlyOne' /\ OneReplyPerRequest' /\ SentBeforeOwed'
  BY <1>18, NoAnswer, SameLaunches DEF WorkerReady, clientVars, routing, manager, processes
<1>19. ASSUME NEW w \in Workers, WorkerAnswers(w)
      PROVE  OwedByExactlyOne' /\ OneReplyPerRequest' /\ SentBeforeOwed'
  BY <1>19, NoAnswer, SameLaunches DEF WorkerAnswers, clientVars, routing, manager, processes
<1>20. ASSUME NEW w \in Workers, WorkerCleanup(w)
      PROVE  OwedByExactlyOne' /\ OneReplyPerRequest' /\ SentBeforeOwed'
  BY <1>20, NoAnswer, SameLaunches DEF WorkerCleanup, clientVars, routing, manager, processes
<1>21. ASSUME NEW w \in Workers, WorkerDies(w)
      PROVE  OwedByExactlyOne' /\ OneReplyPerRequest' /\ SentBeforeOwed'
  BY <1>21, NoAnswer, SameLaunches DEF WorkerDies, clientVars, routing, manager, processes
<1>22. ASSUME DaemonExit
      PROVE  OwedByExactlyOne' /\ OneReplyPerRequest' /\ SentBeforeOwed'
  BY <1>22, NoAnswer, SameLaunches DEF DaemonExit, clientVars, routing, manager, processes
<1>23. ASSUME UNCHANGED vars
      PROVE  OwedByExactlyOne' /\ OneReplyPerRequest' /\ SentBeforeOwed'
  BY <1>23, NoAnswer, SameLaunches DEF vars, clientVars, routing, manager, processes
<1>24. QED
  BY <1>1, <1>2, <1>3, <1>4, <1>5, <1>6, <1>7, <1>8, <1>9, <1>10, <1>11, <1>12, <1>13, <1>14, <1>15, <1>16, <1>17, <1>18, <1>19, <1>20, <1>21, <1>22, <1>23 DEF Next, Handle

\* The worker bookkeeping: launches are awaited for live processes, the current
\* worker is listened to until its exit, and while the daemon is up a pending
\* request has a current worker.
LEMMA WorkersStep ==
    ASSUME IInv, [Next]_vars
    PROVE  LaunchOfLiveWorker' /\ AttachedIsObserved' /\ PendingOnAttached'
<1> USE NoWorkerAssumption, NoRequestAssumption
    DEF IInv, TypeOK, LaunchOfLiveWorker, AttachedIsObserved, PendingOnAttached
<1>1. ASSUME NEW r \in Requests, NEW k \in Kinds, SendRequest(r, k)
      PROVE  LaunchOfLiveWorker' /\ AttachedIsObserved' /\ PendingOnAttached'
  BY <1>1 DEF SendRequest, Settle, LoopRuns, clientVars, routing, manager, processes
<1>2. ASSUME NEW r \in Requests, ReceiveReply(r)
      PROVE  LaunchOfLiveWorker' /\ AttachedIsObserved' /\ PendingOnAttached'
  BY <1>2 DEF ReceiveReply, Settle, LoopRuns, clientVars, routing, manager, processes
<1>3. ASSUME NEW r \in Requests, EarlyClose(r)
      PROVE  LaunchOfLiveWorker' /\ AttachedIsObserved' /\ PendingOnAttached'
  BY <1>3 DEF EarlyClose, Settle, LoopRuns, clientVars, routing, manager, processes
<1>4. ASSUME NEW r \in Requests, ClientTimeout(r)
      PROVE  LaunchOfLiveWorker' /\ AttachedIsObserved' /\ PendingOnAttached'
  BY <1>4 DEF ClientTimeout, Settle, LoopRuns, clientVars, routing, manager, processes
<1>5. ASSUME NEW r \in Requests, HandleHandshake(r)
      PROVE  LaunchOfLiveWorker' /\ AttachedIsObserved' /\ PendingOnAttached'
  BY <1>5 DEF HandleHandshake, Take, LoopRuns, clientVars, routing, manager, processes
<1>6. ASSUME NEW r \in Requests, HandleCommand(r)
      PROVE  LaunchOfLiveWorker' /\ AttachedIsObserved' /\ PendingOnAttached'
  BY <1>6 DEF HandleCommand, Take, Forward, WriteToWorker, Respond, LoopRuns, clientVars, routing, manager, processes
<1>7. ASSUME NEW r \in Requests, HandlePeek(r)
      PROVE  LaunchOfLiveWorker' /\ AttachedIsObserved' /\ PendingOnAttached'
  BY <1>7 DEF HandlePeek, Take, Forward, WriteToWorker, Respond, LoopRuns, clientVars, routing, manager, processes
<1>8. ASSUME NEW r \in Requests, HandleStatus(r)
      PROVE  LaunchOfLiveWorker' /\ AttachedIsObserved' /\ PendingOnAttached'
  BY <1>8 DEF HandleStatus, Take, Forward, WriteToWorker, Respond, LoopRuns, clientVars, routing, manager, processes
<1>9. ASSUME NEW r \in Requests, HandleStart(r)
      PROVE  LaunchOfLiveWorker' /\ AttachedIsObserved' /\ PendingOnAttached'
  <2>1. CASE UNCHANGED <<awaiting, proc>>
    BY <1>9, <2>1 DEF HandleStart, Take
  <2>2. ASSUME NEW w \in Workers, proc[w] = "unused",
               proc' = [proc EXCEPT ![w] = "spawned"],
               awaiting' = [awaiting EXCEPT ![w] = r]
        PROVE  LaunchOfLiveWorker' /\ AttachedIsObserved' /\ PendingOnAttached'
    <3>1. w \notin listening /\ UNCHANGED <<listening, worker, daemon, pending>>
      BY <1>9, <2>2 DEF HandleStart
    <3>2. \A v \in Workers : /\ proc'[v] = IF v = w THEN "spawned" ELSE proc[v]
                             /\ awaiting'[v] = IF v = w THEN r ELSE awaiting[v]
      BY <2>2
    <3>3. QED
      BY <3>1, <3>2
  <2>3. QED
    BY <1>9, <2>1, <2>2 DEF HandleStart
<1>10. ASSUME NEW r \in Requests, HandleStop(r)
      PROVE  LaunchOfLiveWorker' /\ AttachedIsObserved' /\ PendingOnAttached'
  BY <1>10 DEF HandleStop, Take, Dispose, Terminate, LoopRuns, clientVars, routing, manager, processes
<1>11. ASSUME NEW r \in Requests, ResponseTimeout(r)
      PROVE  LaunchOfLiveWorker' /\ AttachedIsObserved' /\ PendingOnAttached'
  BY <1>11 DEF ResponseTimeout, RemovePending, LoopRuns, clientVars, routing, manager, processes
<1>12. ASSUME NEW r \in Requests, RefuseStart(r)
      PROVE  LaunchOfLiveWorker' /\ AttachedIsObserved' /\ PendingOnAttached'
  BY <1>12 DEF RefuseStart, LoopRuns, clientVars, routing, manager, processes
<1>13. ASSUME NEW w \in Workers, AttachWorker(w)
      PROVE  LaunchOfLiveWorker' /\ AttachedIsObserved' /\ PendingOnAttached'
  <2>1. UNCHANGED <<daemon, pending, proc>>
    BY <1>13 DEF AttachWorker, routing
  <2>2. CASE awaiting[w] = NoRequest
    BY <1>13, <2>1, <2>2 DEF AttachWorker, manager
  <2>3. CASE awaiting[w] # NoRequest
    <3>1. /\ worker' = w /\ listening' = listening \cup {w}
          /\ awaiting' = [awaiting EXCEPT ![w] = NoRequest]
      BY <1>13, <2>3 DEF AttachWorker
    <3>2. \A v \in Workers : awaiting'[v] = IF v = w THEN NoRequest ELSE awaiting[v]
      BY <3>1
    <3>3. QED
      BY <2>1, <2>3, <3>1, <3>2
  <2>4. QED
    BY <2>2, <2>3
<1>14. ASSUME NEW w \in Workers, WorkerMessage(w)
      PROVE  LaunchOfLiveWorker' /\ AttachedIsObserved' /\ PendingOnAttached'
  BY <1>14 DEF WorkerMessage, RemovePending, Answer, LoopRuns, clientVars, routing, manager, processes
<1>15. ASSUME NEW w \in Workers, WorkerExit(w)
      PROVE  LaunchOfLiveWorker' /\ AttachedIsObserved' /\ PendingOnAttached'
  BY <1>15 DEF WorkerExit, RemovePending, Dispose, LoopRuns, clientVars, routing, manager, processes
<1>16. ASSUME NEW w \in Workers, ReadyTimeout(w)
      PROVE  LaunchOfLiveWorker' /\ AttachedIsObserved' /\ PendingOnAttached'
  BY <1>16 DEF ReadyTimeout, LoopRuns, clientVars, routing, manager, processes
<1>17. ASSUME NEW w \in Workers, WorkerWritesPid(w)
      PROVE  LaunchOfLiveWorker' /\ AttachedIsObserved' /\ PendingOnAttached'
  BY <1>17 DEF WorkerWritesPid, LoopRuns, clientVars, routing, manager, processes
<1>18. ASSUME NEW w \in Workers, WorkerReady(w)
      PROVE  LaunchOfLiveWorker' /\ AttachedIsObserved' /\ PendingOnAttached'
  BY <1>18 DEF WorkerReady, LoopRuns, clientVars, routing, manager, processes
<1>19. ASSUME NEW w \in Workers, WorkerAnswers(w)
      PROVE  LaunchOfLiveWorker' /\ AttachedIsObserved' /\ PendingOnAttached'
  BY <1>19 DEF WorkerAnswers, LoopRuns, clientVars, routing, manager, processes
<1>20. ASSUME NEW w \in Workers, WorkerCleanup(w)
      PROVE  LaunchOfLiveWorker' /\ AttachedIsObserved' /\ PendingOnAttached'
  BY <1>20 DEF WorkerCleanup, LoopRuns, clientVars, routing, manager, processes
<1>21. ASSUME NEW w \in Workers, WorkerDies(w)
      PROVE  LaunchOfLiveWorker' /\ AttachedIsObserved' /\ PendingOnAttached'
  BY <1>21 DEF WorkerDies, LoopRuns, clientVars, routing, manager, processes
<1>22. ASSUME DaemonExit
      PROVE  LaunchOfLiveWorker' /\ AttachedIsObserved' /\ PendingOnAttached'
  BY <1>22 DEF DaemonExit, LoopRuns, clientVars, routing, manager, processes
<1>23. ASSUME UNCHANGED vars
      PROVE  LaunchOfLiveWorker' /\ AttachedIsObserved' /\ PendingOnAttached'
  BY <1>23 DEF vars, LoopRuns, clientVars, routing, manager, processes
<1>24. QED
  BY <1>1, <1>2, <1>3, <1>4, <1>5, <1>6, <1>7, <1>8, <1>9, <1>10, <1>11, <1>12, <1>13, <1>14, <1>15, <1>16, <1>17, <1>18, <1>19, <1>20, <1>21, <1>22, <1>23 DEF Next, Handle

\* The pending table and the timeouts change together.
LEMMA TimersStep ==
    ASSUME IInv, [Next]_vars
    PROVE  PendingIsTimed'
<1> USE DEF IInv, TypeOK, PendingIsTimed
<1>1. ASSUME NEW r \in Requests, NEW k \in Kinds, SendRequest(r, k)
      PROVE  PendingIsTimed'
  BY <1>1 DEF SendRequest, Settle, clientVars, routing, manager, processes
<1>2. ASSUME NEW r \in Requests, ReceiveReply(r)
      PROVE  PendingIsTimed'
  BY <1>2 DEF ReceiveReply, Settle, clientVars, routing, manager, processes
<1>3. ASSUME NEW r \in Requests, EarlyClose(r)
      PROVE  PendingIsTimed'
  BY <1>3 DEF EarlyClose, Settle, clientVars, routing, manager, processes
<1>4. ASSUME NEW r \in Requests, ClientTimeout(r)
      PROVE  PendingIsTimed'
  BY <1>4 DEF ClientTimeout, Settle, clientVars, routing, manager, processes
<1>5. ASSUME NEW r \in Requests, HandleHandshake(r)
      PROVE  PendingIsTimed'
  BY <1>5 DEF HandleHandshake, Take, clientVars, routing, manager, processes
<1>6. ASSUME NEW r \in Requests, HandleCommand(r)
      PROVE  PendingIsTimed'
  BY <1>6 DEF HandleCommand, Take, Forward, WriteToWorker, Respond, clientVars, routing, manager, processes
<1>7. ASSUME NEW r \in Requests, HandlePeek(r)
      PROVE  PendingIsTimed'
  BY <1>7 DEF HandlePeek, Take, Forward, WriteToWorker, Respond, clientVars, routing, manager, processes
<1>8. ASSUME NEW r \in Requests, HandleStatus(r)
      PROVE  PendingIsTimed'
  BY <1>8 DEF HandleStatus, Take, Forward, WriteToWorker, Respond, clientVars, routing, manager, processes
<1>9. ASSUME NEW r \in Requests, HandleStart(r)
      PROVE  PendingIsTimed'
  BY <1>9 DEF HandleStart, Take, clientVars, routing, manager, processes
<1>10. ASSUME NEW r \in Requests, HandleStop(r)
      PROVE  PendingIsTimed'
  BY <1>10 DEF HandleStop, Take, Dispose, Terminate, clientVars, routing, manager, processes
<1>11. ASSUME NEW r \in Requests, ResponseTimeout(r)
      PROVE  PendingIsTimed'
  BY <1>11 DEF ResponseTimeout, RemovePending, clientVars, routing, manager, processes
<1>12. ASSUME NEW r \in Requests, RefuseStart(r)
      PROVE  PendingIsTimed'
  BY <1>12 DEF RefuseStart, clientVars, routing, manager, processes
<1>13. ASSUME NEW w \in Workers, AttachWorker(w)
      PROVE  PendingIsTimed'
  BY <1>13 DEF AttachWorker, clientVars, routing, manager, processes
<1>14. ASSUME NEW w \in Workers, WorkerMessage(w)
      PROVE  PendingIsTimed'
  BY <1>14 DEF WorkerMessage, RemovePending, Answer, clientVars, routing, manager, processes
<1>15. ASSUME NEW w \in Workers, WorkerExit(w)
      PROVE  PendingIsTimed'
  BY <1>15 DEF WorkerExit, RemovePending, Dispose, clientVars, routing, manager, processes
<1>16. ASSUME NEW w \in Workers, ReadyTimeout(w)
      PROVE  PendingIsTimed'
  BY <1>16 DEF ReadyTimeout, clientVars, routing, manager, processes
<1>17. ASSUME NEW w \in Workers, WorkerWritesPid(w)
      PROVE  PendingIsTimed'
  BY <1>17 DEF WorkerWritesPid, clientVars, routing, manager, processes
<1>18. ASSUME NEW w \in Workers, WorkerReady(w)
      PROVE  PendingIsTimed'
  BY <1>18 DEF WorkerReady, clientVars, routing, manager, processes
<1>19. ASSUME NEW w \in Workers, WorkerAnswers(w)
      PROVE  PendingIsTimed'
  BY <1>19 DEF WorkerAnswers, clientVars, routing, manager, processes
<1>20. ASSUME NEW w \in Workers, WorkerCleanup(w)
      PROVE  PendingIsTimed'
  BY <1>20 DEF WorkerCleanup, clientVars, routing, manager, processes
<1>21. ASSUME NEW w \in Workers, WorkerDies(w)
      PROVE  PendingIsTimed'
  BY <1>21 DEF WorkerDies, clientVars, routing, manager, processes
<1>22. ASSUME DaemonExit
      PROVE  PendingIsTimed'
  BY <1>22 DEF DaemonExit, clientVars, routing, manager, processes
<1>23. ASSUME UNCHANGED vars
      PROVE  PendingIsTimed'
  BY <1>23 DEF vars, clientVars, routing, manager, processes
<1>24. QED
  BY <1>1, <1>2, <1>3, <1>4, <1>5, <1>6, <1>7, <1>8, <1>9, <1>10, <1>11, <1>12, <1>13, <1>14, <1>15, <1>16, <1>17, <1>18, <1>19, <1>20, <1>21, <1>22, <1>23 DEF Next, Handle

\* The inductive invariant: types, one owner and at most one reply per request,
\* timers in step with the pending table, and the worker bookkeeping.
THEOREM Invariance == Spec => []IInv
<1>1. Init => IInv
  <2> SUFFICES ASSUME Init
               PROVE  IInv
    OBVIOUS
  <2>1. TypeOK
    BY NoRequestAssumption DEF Init, TypeOK, AllKinds, ClientState, ProcState
  <2>2. Starting = {} /\ Answered = {}
    BY DEF Init, Starting, Answered
  <2>3. \A r \in Requests : Len(replies[r]) <= 1
    BY DEF Init
  <2>4. QED
    BY <2>1, <2>2, <2>3
       DEF Init, IInv, OneReplyPerRequest, OwedByExactlyOne, PendingIsTimed, SentBeforeOwed,
           LaunchOfLiveWorker, AttachedIsObserved, PendingOnAttached
<1>2. TypeOK /\ IInv /\ [Next]_vars /\ TypeOK' => IInv'
  BY OwnershipStep, WorkersStep, TimersStep DEF IInv
<1>3. QED
  BY <1>1, <1>2, TypeCorrect, PTL DEF Spec

\* A request is answered at most once, for any number of clients and workers.
THEOREM OneReply == Spec => []OneReplyPerRequest
<1>1. IInv => OneReplyPerRequest
  BY DEF IInv
<1>2. QED
  BY <1>1, Invariance, PTL

\* A waiting client is owed its answer by exactly one part of the daemon.
THEOREM ExactlyOneOwner == Spec => []OwedByExactlyOne
<1>1. IInv => OwedByExactlyOne
  BY DEF IInv
<1>2. QED
  BY <1>1, Invariance, PTL

\* Pending requests are exactly those whose response timeout is armed.
THEOREM TimersMatch == Spec => []PendingIsTimed
<1>1. IInv => PendingIsTimed
  BY DEF IInv
<1>2. QED
  BY <1>1, Invariance, PTL

\* While the daemon is up no request waits on a worker whose exit it has seen.
THEOREM LostWorkerFailsAll == Spec => []NoPendingOnLostWorker
<1>1. IInv => NoPendingOnLostWorker
  BY DEF IInv, AttachedIsObserved, PendingOnAttached, NoPendingOnLostWorker
<1>2. QED
  BY <1>1, Invariance, PTL

\* A waiting client has one owner, and no client gets two answers.
THEOREM OneOwner == Spec => []OneOwnerOneReply
  BY OneReply, ExactlyOneOwner, PTL DEF OneOwnerOneReply

\* What is pending is timed, and pending on a worker that can still be heard.
THEOREM PendingEnds == Spec => []PendingCanEnd
  BY TimersMatch, LostWorkerFailsAll, PTL DEF PendingCanEnd

(***************************************************************************)
(* No step drops a request in silence.                                     *)
(***************************************************************************)
Owed == pending \cup deferred \cup Starting
KeptOrAnswered == \A q \in Owed : q \in Owed' \/ q \in Answered'

\* What only adds to the pending requests and the refusals drops none.
LEMMA NothingLeaves ==
    ASSUME pending \subseteq pending', deferred \subseteq deferred', awaiting' = awaiting
    PROVE  KeptOrAnswered
  BY DEF KeptOrAnswered, Owed, Starting

\* A request answered now has an answer in its socket.
LEMMA ReplyAnswers ==
    ASSUME replies \in [Requests -> Seq(Outcome)],
           NEW r \in Requests, NEW out \in Outcome, Reply(r, out)
    PROVE  r \in Answered'
<1>1. replies'[r] = Append(replies[r], out)
  BY ReplyEffect
<1>2. replies'[r] # <<>>
  BY <1>1
<1>3. QED
  BY <1>2 DEF Answered

\* The launch of one worker ends with an answer to the request that began it.
LEMMA LaunchAnswered ==
    ASSUME TypeOK, NEW w \in Workers, NEW out \in Outcome, awaiting[w] # NoRequest,
           awaiting' = [awaiting EXCEPT ![w] = NoRequest], Reply(awaiting[w], out),
           pending' = pending, deferred' = deferred
    PROVE  KeptOrAnswered
<1>1. awaiting[w] \in Requests
  BY DEF TypeOK
<1>2. awaiting[w] \in Answered'
  BY <1>1, ReplyAnswers DEF TypeOK
<1>3. \A q \in Starting : q \in Starting' \/ q = awaiting[w]
  BY DEF Starting, TypeOK
<1>4. Owed \ {awaiting[w]} \subseteq Owed'
  BY <1>3 DEF Owed
<1>5. QED
  BY <1>2, <1>4 DEF KeptOrAnswered

LEMMA NoDropStep ==
    ASSUME IInv, [Next]_vars
    PROVE  KeptOrAnswered
<1> USE DEF IInv, TypeOK
<1>1. ASSUME NEW r \in Requests, NEW k \in Kinds, SendRequest(r, k)
      PROVE  KeptOrAnswered
  BY <1>1, NothingLeaves DEF SendRequest, routing, manager
<1>2. ASSUME NEW r \in Requests, HandleHandshake(r)
      PROVE  KeptOrAnswered
  BY <1>2, NothingLeaves DEF HandleHandshake, Take, routing, manager
<1>3. ASSUME NEW r \in Requests, HandleCommand(r)
      PROVE  KeptOrAnswered
  BY <1>3, NothingLeaves DEF HandleCommand, Take, Forward, Respond, routing, manager
<1>4. ASSUME NEW r \in Requests, HandlePeek(r)
      PROVE  KeptOrAnswered
  BY <1>4, NothingLeaves DEF HandlePeek, Take, Forward, Respond, routing, manager
<1>5. ASSUME NEW r \in Requests, HandleStatus(r)
      PROVE  KeptOrAnswered
  BY <1>5, NothingLeaves DEF HandleStatus, Take, Forward, Respond, routing, manager
<1>6. ASSUME NEW r \in Requests, HandleStop(r)
      PROVE  KeptOrAnswered
  BY <1>6, NothingLeaves DEF HandleStop, Take, Dispose, routing, manager
<1>7. ASSUME NEW r \in Requests, ReceiveReply(r)
      PROVE  KeptOrAnswered
  BY <1>7, NothingLeaves DEF ReceiveReply, Settle, routing, manager
<1>8. ASSUME NEW r \in Requests, EarlyClose(r)
      PROVE  KeptOrAnswered
  BY <1>8, NothingLeaves DEF EarlyClose, Settle, routing, manager
<1>9. ASSUME NEW r \in Requests, ClientTimeout(r)
      PROVE  KeptOrAnswered
  BY <1>9, NothingLeaves DEF ClientTimeout, Settle, routing, manager
<1>10. ASSUME NEW w \in Workers, WorkerWritesPid(w)
      PROVE  KeptOrAnswered
  BY <1>10, NothingLeaves DEF WorkerWritesPid, routing, manager
<1>11. ASSUME NEW w \in Workers, WorkerReady(w)
      PROVE  KeptOrAnswered
  BY <1>11, NothingLeaves DEF WorkerReady, routing, manager
<1>12. ASSUME NEW w \in Workers, WorkerAnswers(w)
      PROVE  KeptOrAnswered
  BY <1>12, NothingLeaves DEF WorkerAnswers, routing, manager
<1>13. ASSUME NEW w \in Workers, WorkerCleanup(w)
      PROVE  KeptOrAnswered
  BY <1>13, NothingLeaves DEF WorkerCleanup, routing, manager
<1>14. ASSUME NEW w \in Workers, WorkerDies(w)
      PROVE  KeptOrAnswered
  BY <1>14, NothingLeaves DEF WorkerDies, routing, manager
<1>15. ASSUME NEW r \in Requests, HandleStart(r)
      PROVE  KeptOrAnswered
  <2>1. pending' = pending /\ deferred \subseteq deferred'
    BY <1>15 DEF HandleStart
  <2>2. CASE awaiting' = awaiting
    BY <2>1, <2>2, NothingLeaves
  <2>3. CASE awaiting' # awaiting
    <3>1. PICK w \in Workers : proc[w] = "unused" /\ awaiting' = [awaiting EXCEPT ![w] = r]
      BY <1>15, <2>3 DEF HandleStart
    <3>2. awaiting[w] = NoRequest
      BY <3>1 DEF LaunchOfLiveWorker
    <3>3. Starting \subseteq Starting'
      BY <3>1, <3>2 DEF Starting
    <3>4. QED
      BY <2>1, <3>3 DEF KeptOrAnswered, Owed
  <2>4. QED
    BY <2>2, <2>3
<1>16. ASSUME NEW r \in Requests, ResponseTimeout(r)
      PROVE  KeptOrAnswered
  <2>1. PICK out \in Outcome : Reply(r, out)
    BY <1>16 DEF ResponseTimeout, Outcome
  <2>2. r \in Answered'
    BY <2>1, ReplyAnswers
  <2>3. pending' = pending \ {r} /\ deferred' = deferred /\ awaiting' = awaiting
    BY <1>16 DEF ResponseTimeout, RemovePending, manager
  <2>4. QED
    BY <2>2, <2>3 DEF KeptOrAnswered, Owed, Starting
<1>17. ASSUME NEW r \in Requests, RefuseStart(r)
      PROVE  KeptOrAnswered
  <2>1. r \in Answered'
    BY <1>17, ReplyAnswers DEF RefuseStart, Outcome
  <2>2. deferred' = deferred \ {r} /\ pending' = pending /\ awaiting' = awaiting
    BY <1>17 DEF RefuseStart, manager
  <2>3. QED
    BY <2>1, <2>2 DEF KeptOrAnswered, Owed, Starting
<1>18. ASSUME NEW w \in Workers, AttachWorker(w)
      PROVE  KeptOrAnswered
  <2>1. pending' = pending /\ deferred' = deferred
    BY <1>18 DEF AttachWorker, routing
  <2>2. CASE awaiting[w] = NoRequest
    BY <1>18, <2>1, <2>2, NothingLeaves DEF AttachWorker, manager
  <2>3. CASE awaiting[w] # NoRequest
    <3>1. Reply(awaiting[w], "ok") /\ awaiting' = [awaiting EXCEPT ![w] = NoRequest]
      BY <1>18, <2>3 DEF AttachWorker
    <3>2. QED
      BY <2>1, <2>3, <3>1, LaunchAnswered DEF Outcome
  <2>4. QED
    BY <2>2, <2>3
<1>19. ASSUME NEW w \in Workers, WorkerMessage(w)
      PROVE  KeptOrAnswered
  <2>1. deferred' = deferred /\ awaiting' = awaiting
    BY <1>19 DEF WorkerMessage, manager
  <2>2. CASE pending' = pending
    BY <2>1, <2>2, NothingLeaves
  <2>3. CASE pending' # pending
    <3>1. PICK m \in Answer : pending' = pending \ {m.req} /\ \E out \in Outcome : Reply(m.req, out)
      BY <1>19, <2>3 DEF WorkerMessage, RemovePending, Outcome
    <3>2. m.req \in Answered'
      BY <3>1, ReplyAnswers DEF Answer
    <3>3. QED
      BY <2>1, <3>1, <3>2 DEF KeptOrAnswered, Owed, Starting
  <2>4. QED
    BY <2>2, <2>3
<1>20. ASSUME NEW w \in Workers, WorkerExit(w)
      PROVE  KeptOrAnswered
  <2>1. deferred' = deferred /\ awaiting' = [awaiting EXCEPT ![w] = NoRequest]
    BY <1>20 DEF WorkerExit
  <2>2. CASE w \in listening
    <3>1. awaiting[w] = NoRequest
      BY <2>2 DEF LaunchOfLiveWorker
    <3>2. \A q \in pending : replies'[q] = Append(replies[q], "error")
      BY <1>20, <2>2, ReplyAllEffect DEF WorkerExit, Outcome
    <3>3. \A q \in pending : replies'[q] # <<>>
      BY <3>2
    <3>4. pending \subseteq Answered'
      BY <3>3 DEF Answered
    <3>5. awaiting' = awaiting
      BY <2>1, <3>1
    <3>6. QED
      BY <2>1, <3>4, <3>5 DEF KeptOrAnswered, Owed, Starting
  <2>3. CASE w \notin listening /\ awaiting[w] = NoRequest
    <3>1. awaiting' = awaiting
      BY <2>1, <2>3
    <3>2. QED
      BY <1>20, <2>1, <2>3, <3>1, NothingLeaves DEF WorkerExit
  <2>4. CASE w \notin listening /\ awaiting[w] # NoRequest
    <3>1. Reply(awaiting[w], "error") /\ pending' = pending
      BY <1>20, <2>4 DEF WorkerExit
    <3>2. QED
      BY <2>1, <2>4, <3>1, LaunchAnswered DEF Outcome
  <2>5. QED
    BY <2>2, <2>3, <2>4
<1>21. ASSUME NEW w \in Workers, ReadyTimeout(w)
      PROVE  KeptOrAnswered
  <2>1. awaiting[w] # NoRequest /\ awaiting' = [awaiting EXCEPT ![w] = NoRequest] /\ Reply(awaiting[w], "error")
    BY <1>21 DEF ReadyTimeout
  <2>2. pending' = pending /\ deferred' = deferred
    BY <1>21 DEF ReadyTimeout, routing
  <2>3. QED
    BY <2>1, <2>2, LaunchAnswered DEF Outcome
<1>22. ASSUME DaemonExit
      PROVE  KeptOrAnswered
  BY <1>22, NothingLeaves DEF DaemonExit, routing, manager
<1>23. ASSUME UNCHANGED vars
      PROVE  KeptOrAnswered
  BY <1>23, NothingLeaves DEF vars, routing, manager
<1>24. QED
  BY <1>1, <1>2, <1>3, <1>4, <1>5, <1>6, <1>7, <1>8, <1>9, <1>10, <1>11, <1>12, <1>13, <1>14, <1>15, <1>16, <1>17, <1>18, <1>19, <1>20, <1>21, <1>22, <1>23 DEF Next, Handle

\* What leaves the pending table, the refusals or the launches has its answer.
THEOREM NoneDropped == Spec => NoSilentDrop
<1>1. IInv /\ [Next]_vars =>
          [\A r \in pending \cup deferred \cup Starting :
               r \notin (pending \cup deferred \cup Starting)' => r \in Answered']_vars
  BY NoDropStep DEF KeptOrAnswered, Owed
<1>2. QED
  BY <1>1, Invariance, PTL DEF Spec, NoSilentDrop

(***************************************************************************)
(* Every step of the daemon is a step of RequestReply, or leaves what the  *)
(* clients see as it is: the safety half of the refinement.                *)
(***************************************************************************)
answer == [r \in Requests |-> IF replies[r] = <<>> THEN "none" ELSE Head(replies[r])]

Implemented == [Abstract!Next]_<<client, answer>>

\* Who is owed an answer has asked for it and has none.
LEMMA OwedUnanswered ==
    ASSUME IInv, NEW r \in inbox \cup pending \cup deferred \cup Starting
    PROVE  r \in Requests /\ client[r] # "idle" /\ replies[r] = <<>>
<1>1. r \in Requests
  BY DEF IInv, TypeOK, Starting
<1>2. r \notin Answered
  BY DEF IInv, OwedByExactlyOne
<1> QED
  BY <1>1, <1>2 DEF IInv, SentBeforeOwed, Answered

\* Neither a client nor a socket changes.
LEMMA Silent ==
    ASSUME UNCHANGED <<client, replies>>
    PROVE  Implemented
  BY DEF Implemented, answer

\* Requests that are owed an answer get the same one in one step.
LEMMA Answering ==
    ASSUME IInv, NEW S \in SUBSET (inbox \cup pending \cup deferred \cup Starting),
           NEW out \in Outcome, UNCHANGED client,
           \A r \in Requests : replies'[r] = IF r \in S THEN Append(replies[r], out) ELSE replies[r]
    PROVE  Implemented
<1>1. \A r \in S : r \in Requests /\ client[r] # "idle" /\ replies[r] = <<>>
  BY OwedUnanswered
<1>2. \A r \in S : replies'[r] # <<>> /\ Head(replies'[r]) = out
  <2> SUFFICES ASSUME NEW r \in S PROVE replies'[r] # <<>> /\ Head(replies'[r]) = out
    OBVIOUS
  <2>1. replies'[r] = Append(<<>>, out)
    BY <1>1
  <2>2. Append(<<>>, out) = <<out>>
    OBVIOUS
  <2> QED
    BY <2>1, <2>2
<1>3. answer' = [r \in Requests |-> IF r \in S THEN out ELSE answer[r]]
  BY <1>1, <1>2 DEF answer
<1>4. \A r \in S : answer[r] = "none"
  BY <1>1 DEF answer
<1>5. Abstract!AnswerSome(S, out)
  BY <1>1, <1>3, <1>4 DEF Abstract!AnswerSome, answer
<1>6. S \in SUBSET Requests /\ out \in Abstract!Outcome
  BY <1>1 DEF Outcome, Abstract!Outcome
<1> QED
  BY <1>5, <1>6 DEF Implemented, Abstract!Next

LEMMA AnsweringOne ==
    ASSUME IInv, NEW r \in inbox \cup pending \cup deferred \cup Starting, NEW out \in Outcome,
           Reply(r, out), UNCHANGED client
    PROVE  Implemented
<1>1. replies \in [Requests -> Seq(Outcome)] /\ r \in Requests
  BY OwedUnanswered DEF IInv, TypeOK
<1>2. \A s \in Requests : replies'[s] = IF s \in {r} THEN Append(replies[s], out) ELSE replies[s]
  BY <1>1, ReplyEffect
<1> QED
  BY <1>2, Answering

\* The clients' own steps.
LEMMA ClientStep ==
    ASSUME IInv, NEW r \in Requests
    PROVE  /\ \A k \in Kinds : SendRequest(r, k) => Implemented
           /\ ReceiveReply(r) \/ EarlyClose(r) \/ ClientTimeout(r) => Implemented
<1>1. ASSUME NEW k \in Kinds, SendRequest(r, k) PROVE Implemented
  <2>1. Abstract!Send(r)
    BY <1>1 DEF SendRequest, Abstract!Send
  <2> QED
    BY <2>1 DEF Implemented, Abstract!Next
<1>2. CASE ReceiveReply(r)
  <2>1. Head(replies[r]) \in Outcome
    BY <1>2 DEF ReceiveReply, IInv, TypeOK
  <2>2. Abstract!Settle(r)
    BY <1>2, <2>1 DEF ReceiveReply, Settle, Abstract!Settle, Outcome
  <2> QED
    BY <2>2 DEF Implemented, Abstract!Next
<1>3. CASE EarlyClose(r)
  <2>1. Abstract!Settle(r)
    BY <1>3 DEF EarlyClose, Settle, Abstract!Settle
  <2> QED
    BY <2>1 DEF Implemented, Abstract!Next
<1>4. CASE ClientTimeout(r)
  <2>1. Abstract!Settle(r)
    BY <1>4 DEF ClientTimeout, Settle, Abstract!Settle
  <2> QED
    BY <2>1 DEF Implemented, Abstract!Next
<1> QED
  BY <1>1, <1>2, <1>3, <1>4

\* A handler answers its own request, or hands it on.
LEMMA HandlerStep ==
    ASSUME IInv, NEW r \in Requests, Handle(r)
    PROVE  Implemented
<1>1. r \in inbox /\ UNCHANGED client
  BY DEF Handle, HandleHandshake, HandleCommand, HandlePeek, HandleStatus, HandleStart, HandleStop,
         Take, clientVars
<1>2. UNCHANGED replies \/ Reply(r, "ok") \/ Reply(r, "error")
  BY DEF Handle, HandleHandshake, HandleCommand, HandlePeek, HandleStatus, HandleStart, HandleStop,
         Forward, Respond
<1> QED
  BY <1>1, <1>2, Silent, AnsweringOne DEF Outcome

\* The callbacks of the daemon that are not handlers of a request.
LEMMA DaemonStep ==
    ASSUME IInv, NEW w \in Workers, AttachWorker(w) \/ WorkerMessage(w) \/ WorkerExit(w) \/ ReadyTimeout(w)
    PROVE  Implemented
<1>1. UNCHANGED client
  BY DEF AttachWorker, WorkerMessage, WorkerExit, ReadyTimeout, clientVars
<1>2. awaiting[w] # NoRequest => awaiting[w] \in Starting
  BY DEF Starting
<1>3. CASE AttachWorker(w)
  BY <1>1, <1>2, <1>3, Silent, AnsweringOne DEF AttachWorker, Outcome
<1>4. CASE WorkerMessage(w)
  <2>1. PICK m \in outbox[w] \cap Answer :
           \/ m.req \in pending /\ Reply(m.req, IF m.success THEN "ok" ELSE "error")
           \/ UNCHANGED replies
    BY <1>4 DEF WorkerMessage
  <2> QED
    BY <1>1, <2>1, Silent, AnsweringOne DEF Outcome
<1>5. CASE WorkerExit(w)
  <2>1. CASE w \in listening
    <3>1. pending \in SUBSET Requests /\ ReplyAll(pending, "error")
      BY <1>5, <2>1 DEF WorkerExit, IInv, TypeOK
    <3>2. \A s \in Requests : replies'[s] = IF s \in pending THEN Append(replies[s], "error") ELSE replies[s]
      BY <3>1 DEF ReplyAll
    <3> QED
      BY <1>1, <3>2, Answering DEF Outcome
  <2>2. CASE w \notin listening
    BY <1>1, <1>2, <1>5, <2>2, Silent, AnsweringOne DEF WorkerExit, Outcome
  <2> QED
    BY <2>1, <2>2
<1>6. CASE ReadyTimeout(w)
  BY <1>1, <1>2, <1>6, AnsweringOne DEF ReadyTimeout, Outcome
<1> QED
  BY <1>3, <1>4, <1>5, <1>6

\* The workers' own steps touch no socket of a client.
LEMMA WorkerStep ==
    ASSUME NEW w \in Workers,
           \/ WorkerWritesPid(w) \/ WorkerReady(w) \/ WorkerAnswers(w)
           \/ WorkerCleanup(w) \/ WorkerDies(w)
    PROVE  Implemented
<1>1. UNCHANGED <<client, replies>>
  BY DEF WorkerWritesPid, WorkerReady, WorkerAnswers, WorkerCleanup, WorkerDies, clientVars
<1> QED
  BY <1>1, Silent

LEMMA RefinementStep == IInv /\ [Next]_vars => Implemented
<1> SUFFICES ASSUME IInv, [Next]_vars PROVE Implemented
  OBVIOUS
<1>1. ASSUME NEW r \in Requests, NEW k \in Kinds, SendRequest(r, k) PROVE Implemented
  BY <1>1, ClientStep
<1>2. ASSUME NEW r \in Requests, ReceiveReply(r) \/ EarlyClose(r) \/ ClientTimeout(r) PROVE Implemented
  BY <1>2, ClientStep
<1>3. ASSUME NEW r \in Requests, Handle(r) PROVE Implemented
  BY <1>3, HandlerStep
<1>4. ASSUME NEW r \in Requests, ResponseTimeout(r) PROVE Implemented
  <2>1. r \in pending /\ UNCHANGED client
    BY <1>4 DEF ResponseTimeout, IInv, PendingIsTimed, clientVars
  <2>2. Reply(r, "ok") \/ Reply(r, "error")
    BY <1>4 DEF ResponseTimeout
  <2> QED
    BY <2>1, <2>2, AnsweringOne DEF Outcome
<1>5. ASSUME NEW r \in Requests, RefuseStart(r) PROVE Implemented
  <2>1. r \in deferred /\ UNCHANGED client /\ Reply(r, "error")
    BY <1>5 DEF RefuseStart, clientVars
  <2> QED
    BY <2>1, AnsweringOne DEF Outcome
<1>6. ASSUME NEW w \in Workers, AttachWorker(w) \/ WorkerMessage(w) \/ WorkerExit(w) \/ ReadyTimeout(w)
      PROVE  Implemented
  BY <1>6, DaemonStep
<1>7. ASSUME NEW w \in Workers,
             \/ WorkerWritesPid(w) \/ WorkerReady(w) \/ WorkerAnswers(w)
             \/ WorkerCleanup(w) \/ WorkerDies(w)
      PROVE  Implemented
  BY <1>7, WorkerStep
<1>8. CASE DaemonExit \/ UNCHANGED vars
  <2>1. UNCHANGED <<client, replies>>
    BY <1>8 DEF DaemonExit, vars, clientVars
  <2> QED
    BY <2>1, Silent
<1> QED
  BY <1>1, <1>2, <1>3, <1>4, <1>5, <1>6, <1>7, <1>8 DEF Next

\* The daemon implements what it promises its clients, as far as safety goes: from
\* RequestReply's initial state, by steps of RequestReply and steps the clients do
\* not see.
THEOREM Implements == Spec => Abstract!Init /\ [][Abstract!Next]_<<client, answer>>
<1>1. Init => Abstract!Init
  BY DEF Init, Abstract!Init
<1>2. IInv /\ [Next]_vars => [Abstract!Next]_<<client, answer>>
  BY RefinementStep DEF Implemented
<1> QED
  BY <1>1, <1>2, Invariance, PTL DEF Spec
=============================================================================
