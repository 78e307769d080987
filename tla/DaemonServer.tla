------------------------------ MODULE DaemonServer ------------------------------
(***************************************************************************)
(* The daemon's event loop: how one bdg daemon routes the requests of many *)
(* CLI processes to the worker process that holds the browser session, and *)
(* how it starts, stops and loses workers.                                 *)
(*                                                                         *)
(* src/src/daemon/ipcServer.ts, daemon/handlers/*, daemon/server/          *)
(* WorkerManager.ts and daemon/startSession.ts run in the daemon's single  *)
(* thread: an action below is one callback of that thread (a frame, a      *)
(* timer, a message or the exit of a worker), so callbacks interleave but  *)
(* never overlap.  The CLI side (ipc/transport) and the worker processes   *)
(* run beside it.                                                          *)
(*                                                                         *)
(* Data left out: payloads.  A reply is "ok" or "error", an IPC request id *)
(* is the request itself (ids are fresh: ipc/utils/requestId.ts), and the  *)
(* pipes to and from a worker are sets, since every frame in them belongs  *)
(* to a different client and the worker answers in any order.              *)
(***************************************************************************)
EXTENDS Naturals, Sequences, FiniteSets

CONSTANTS
    Requests,       \* one per CLI invocation: a socket carries one request
    Workers,        \* worker processes the daemon may spawn, in all
    Kinds,          \* the request types the clients send
    NoWorker,
    NoRequest

AllKinds == {"handshake", "status", "peek", "command", "start", "stop"}

ASSUME KindsAssumption == Kinds \subseteq AllKinds
ASSUME NoWorkerAssumption == NoWorker \notin Workers
ASSUME NoRequestAssumption == NoRequest \notin Requests

VARIABLES
    client,     \* what sendRequest() of each CLI has come to
    kind,       \* the type of each request sent
    inbox,      \* requests written to their sockets, not yet handled
    replies,    \* every frame the daemon wrote to each socket
    daemon,     \* "up", "stopping" (stop answered, exit timer set), "down"
    pending,    \* PendingRequestManager.pending: awaiting a worker's answer
    timers,     \* armed response timeouts of pending requests
    deferred,   \* refused start requests, waiting for fetchCDPTargets()
    worker,     \* WorkerManager.worker
    awaiting,   \* worker -> the start request whose launch() awaits it
    listening,  \* workers whose exit event WorkerManager listens to
    proc,       \* the life of each worker process
    pidFile,    \* the process session.pid names
    inWorker,   \* requests written to a worker's stdin, not answered
    outbox      \* messages in a worker's stdout pipe

clientVars == <<client, kind>>
routing == <<pending, timers, deferred>>
manager == <<worker, awaiting, listening>>
processes == <<proc, pidFile, inWorker, outbox>>
vars == <<clientVars, inbox, replies, daemon, routing, manager, processes>>

Outcome == {"ok", "error"}
ClientState == {"idle", "waiting", "ok", "error", "closed", "timedOut"}
Settled == ClientState \ {"idle", "waiting"}

\* "spawned": before writePid; "launching": session.pid written, Chrome and CDP
\* being set up; "running": ready sent, signal handlers installed; "cleanup":
\* cleanupWorker in progress; "zombie": dead, exit event not yet delivered.
ProcState == {"unused", "spawned", "launching", "running", "cleanup", "zombie", "gone"}

Ready == [type |-> "ready"]
Answer == [type : {"answer"}, req : Requests, success : BOOLEAN]
Message == {Ready} \cup Answer

TypeOK ==
    /\ client \in [Requests -> ClientState]
    /\ kind \in [Requests -> AllKinds]
    /\ inbox \in SUBSET Requests
    /\ replies \in [Requests -> Seq(Outcome)]
    /\ daemon \in {"up", "stopping", "down"}
    /\ pending \in SUBSET Requests
    /\ timers \in SUBSET Requests
    /\ deferred \in SUBSET Requests
    /\ worker \in Workers \cup {NoWorker}
    /\ awaiting \in [Workers -> Requests \cup {NoRequest}]
    /\ listening \in SUBSET Workers
    /\ proc \in [Workers -> ProcState]
    /\ pidFile \in Workers \cup {NoWorker}
    /\ inWorker \in [Workers -> SUBSET Requests]
    /\ outbox \in [Workers -> SUBSET Message]

Init ==
    /\ client = [r \in Requests |-> "idle"]
    /\ kind = [r \in Requests |-> "handshake"]
    /\ inbox = {}
    /\ replies = [r \in Requests |-> <<>>]
    /\ daemon = "up"
    /\ pending = {} /\ timers = {} /\ deferred = {}
    /\ worker = NoWorker
    /\ awaiting = [w \in Workers |-> NoRequest]
    /\ listening = {}
    /\ proc = [w \in Workers |-> "unused"]
    /\ pidFile = NoWorker
    /\ inWorker = [w \in Workers |-> {}]
    /\ outbox = [w \in Workers |-> {}]

(***************************************************************************)
(* Helpers.                                                                *)
(***************************************************************************)
LoopRuns == daemon # "down"

\* isProcessAlive(): kill(pid, 0) also succeeds on a zombie.
Alive(w) == w # NoWorker /\ proc[w] \notin {"unused", "gone"}

Reply(r, out) == replies' = [replies EXCEPT ![r] = Append(@, out)]

ReplyAll(S, out) ==
    replies' = [r \in Requests |-> IF r \in S THEN Append(replies[r], out) ELSE replies[r]]

Take(r, k) == LoopRuns /\ r \in inbox /\ kind[r] = k /\ inbox' = inbox \ {r}

\* Mutant: the timeout of a removed request stays armed.
RemovePendingKeepTimer(S) == pending' = pending \ S /\ UNCHANGED timers

\* PendingRequestManager.remove: the entry goes and its timeout is cleared.
RemovePending(S) == pending' = pending \ S /\ timers' = timers \ S

\* Mutant: the listeners go, the reference to the worker stays.
DisposeKeepWorker == UNCHANGED worker /\ listening' = listening \ {worker}

\* WorkerManager.dispose: forget the current worker, whichever it is, and its
\* listeners (the data listener of its stdout stays).
Dispose == worker' = NoWorker /\ listening' = listening \ {worker}

(***************************************************************************)
(* CLI clients: sendRequest() settles once, on the first of an answer, an  *)
(* early close, a connection error or its own timeout.                     *)
(***************************************************************************)
\* The socket file is gone once a stop has been carried out, so a later
\* connection fails.
SendRequest(r, k) ==
    /\ client[r] = "idle"
    /\ kind' = [kind EXCEPT ![r] = k]
    /\ \/ /\ daemon = "up"
          /\ client' = [client EXCEPT ![r] = "waiting"]
          /\ inbox' = inbox \cup {r}
       \/ /\ daemon # "up"
          /\ client' = [client EXCEPT ![r] = "closed"]
          /\ UNCHANGED inbox
    /\ UNCHANGED <<replies, daemon, routing, manager, processes>>

Settle(r, outcome) ==
    /\ client[r] = "waiting"
    /\ client' = [client EXCEPT ![r] = outcome]
    /\ UNCHANGED <<kind, inbox, replies, daemon, routing, manager, processes>>

ReceiveReply(r) == replies[r] # <<>> /\ Settle(r, Head(replies[r]))

\* Mutant: the close event wins over bytes still to be read.
EarlyCloseUnread(r) == daemon = "down" /\ Settle(r, "closed")

\* Bytes already written are read before the end of the stream.
EarlyClose(r) == daemon = "down" /\ replies[r] = <<>> /\ Settle(r, "closed")

ClientTimeout(r) == Settle(r, "timedOut")

(***************************************************************************)
(* Request handlers.                                                       *)
(***************************************************************************)
HandleHandshake(r) ==
    /\ Take(r, "handshake")
    /\ Reply(r, "ok")
    /\ UNCHANGED <<clientVars, daemon, routing, manager, processes>>

\* A write to the stdin of a worker that has just died fails with EPIPE; nobody
\* listens to that stream's "error" event, so the failure can end the daemon.
WriteToWorker(r) ==
    \/ /\ proc[worker] # "zombie"
       /\ inWorker' = [inWorker EXCEPT ![worker] = @ \cup {r}]
       /\ UNCHANGED daemon
    \/ /\ proc[worker] = "zombie"
       /\ daemon' \in {daemon, "down"}
       /\ UNCHANGED inWorker

\* Mutant: no response timeout.
ForwardUntimed(r) ==
    /\ worker # NoWorker
    /\ pending' = pending \cup {r}
    /\ WriteToWorker(r)
    /\ UNCHANGED <<replies, timers>>

\* Arm the response timeout, register the request, write it to the worker.
Forward(r) ==
    /\ worker # NoWorker
    /\ timers' = timers \cup {r}
    /\ pending' = pending \cup {r}
    /\ WriteToWorker(r)
    /\ UNCHANGED replies

Respond(r, out) ==
    /\ Reply(r, out)
    /\ UNCHANGED <<pending, timers, daemon, inWorker>>

\* The same shape for cdp_call and worker_details (CommandHandlers) ...
HandleCommand(r) ==
    /\ Take(r, "command")
    /\ Forward(r) \/ (worker = NoWorker /\ Respond(r, "error"))
    /\ UNCHANGED <<clientVars, deferred, manager, proc, pidFile, outbox>>

\* ... and for peek (QueryHandlers).
HandlePeek(r) ==
    /\ Take(r, "peek")
    /\ Forward(r) \/ (worker = NoWorker /\ Respond(r, "error"))
    /\ UNCHANGED <<clientVars, deferred, manager, proc, pidFile, outbox>>

\* Status asks the worker only for a live session; otherwise the daemon's own
\* data is the answer.
HandleStatus(r) ==
    /\ Take(r, "status")
    /\ IF Alive(pidFile) /\ worker # NoWorker THEN Forward(r) ELSE Respond(r, "ok")
    /\ UNCHANGED <<clientVars, deferred, manager, proc, pidFile, outbox>>

\* The response timeout: a status answers with the base data it kept.
ResponseTimeout(r) ==
    /\ LoopRuns
    /\ r \in timers
    /\ RemovePending({r})
    /\ Reply(r, IF kind[r] = "status" THEN "ok" ELSE "error")
    /\ UNCHANGED <<clientVars, inbox, daemon, deferred, manager, processes>>

\* handleStartSession: refuse when session.pid names a live process (the answer
\* waits for fetchCDPTargets), or when a worker is attached; else spawn one and
\* await its ready signal.  URL validation and spawn may fail.
HandleStart(r) ==
    /\ Take(r, "start")
    /\ \/ /\ Alive(pidFile)
          /\ deferred' = deferred \cup {r}
          /\ UNCHANGED <<replies, awaiting, proc>>
       \/ /\ ~Alive(pidFile)
          /\ Reply(r, "error")
          /\ UNCHANGED <<deferred, awaiting, proc>>
       \/ /\ ~Alive(pidFile)
          /\ worker = NoWorker
          /\ \E w \in Workers :
                /\ proc[w] = "unused"
                /\ proc' = [proc EXCEPT ![w] = "spawned"]
                /\ awaiting' = [awaiting EXCEPT ![w] = r]
          /\ UNCHANGED <<replies, deferred>>
    /\ UNCHANGED <<clientVars, daemon, pending, timers, worker, listening,
                   pidFile, inWorker, outbox>>

RefuseStart(r) ==
    /\ LoopRuns
    /\ r \in deferred
    /\ deferred' = deferred \ {r}
    /\ Reply(r, "error")
    /\ UNCHANGED <<clientVars, inbox, daemon, pending, timers, manager, processes>>

\* SIGTERM: cleanup if the handlers are installed, sudden death before that.
Terminate(w) ==
    proc' = [proc EXCEPT ![w] = CASE @ \in {"spawned", "launching"} -> "zombie"
                                  [] @ = "running"                  -> "cleanup"
                                  [] OTHER                          -> @]

\* handleStopSession: SIGTERM to the process session.pid names, remove the
\* session's files, forget the worker, answer, and exit 100 ms later.
HandleStop(r) ==
    /\ Take(r, "stop")
    /\ \/ /\ ~Alive(pidFile)
          /\ Reply(r, "error")
          /\ UNCHANGED <<daemon, worker, listening, proc, pidFile>>
       \/ /\ Alive(pidFile)
          /\ Terminate(pidFile)
          /\ pidFile' = NoWorker
          /\ Dispose
          /\ Reply(r, "ok")
          /\ daemon' = "stopping"
    /\ UNCHANGED <<clientVars, routing, awaiting, inWorker, outbox>>

\* process.exit after a stop, or a signal to the daemon: its sockets close.
DaemonExit ==
    /\ LoopRuns
    /\ daemon' = "down"
    /\ UNCHANGED <<clientVars, inbox, replies, routing, manager, processes>>

(***************************************************************************)
(* Worker events, as the daemon sees them.                                 *)
(***************************************************************************)
\* Mutant: the launch stays awaited after the ready signal ...
AttachWorkerAwaited(w) ==
    /\ LoopRuns
    /\ Ready \in outbox[w]
    /\ outbox' = [outbox EXCEPT ![w] = @ \ {Ready}]
    /\ awaiting[w] # NoRequest
    /\ worker' = w
    /\ listening' = listening \cup {w}
    /\ Reply(awaiting[w], "ok")
    /\ UNCHANGED <<clientVars, inbox, daemon, routing, awaiting, proc, pidFile, inWorker>>

\* ... or is reset to the wrong "none".
AttachWorkerWrongNone(w) ==
    /\ LoopRuns
    /\ Ready \in outbox[w]
    /\ outbox' = [outbox EXCEPT ![w] = @ \ {Ready}]
    /\ awaiting[w] # NoRequest
    /\ worker' = w
    /\ listening' = listening \cup {w}
    /\ awaiting' = [awaiting EXCEPT ![w] = NoWorker]
    /\ Reply(awaiting[w], "ok")
    /\ UNCHANGED <<clientVars, inbox, daemon, routing, proc, pidFile, inWorker>>

\* launch() resumes: the worker becomes the current one, whatever was there.
AttachWorker(w) ==
    /\ LoopRuns
    /\ Ready \in outbox[w]
    /\ outbox' = [outbox EXCEPT ![w] = @ \ {Ready}]
    /\ \/ /\ awaiting[w] # NoRequest
          /\ worker' = w
          /\ listening' = listening \cup {w}
          /\ awaiting' = [awaiting EXCEPT ![w] = NoRequest]
          /\ Reply(awaiting[w], "ok")
       \/ /\ awaiting[w] = NoRequest
          /\ UNCHANGED <<replies, manager>>
    /\ UNCHANGED <<clientVars, inbox, daemon, routing, proc, pidFile, inWorker>>

\* Mutant: an answer nobody awaits any more is sent as well.
WorkerMessageUnmatched(w) ==
    /\ LoopRuns
    /\ \E m \in outbox[w] \cap Answer :
          /\ outbox' = [outbox EXCEPT ![w] = @ \ {m}]
          /\ RemovePending({m.req})
          /\ Reply(m.req, IF m.success THEN "ok" ELSE "error")
    /\ UNCHANGED <<clientVars, inbox, daemon, deferred, manager, proc, pidFile, inWorker>>

\* A worker answered: handleWorkerResponse drops an answer nobody awaits.
WorkerMessage(w) ==
    /\ LoopRuns
    /\ \E m \in outbox[w] \cap Answer :
          /\ outbox' = [outbox EXCEPT ![w] = @ \ {m}]
          /\ \/ /\ m.req \in pending
                /\ RemovePending({m.req})
                /\ Reply(m.req, IF m.success THEN "ok" ELSE "error")
             \/ /\ m.req \notin pending
                /\ UNCHANGED <<pending, timers, replies>>
    /\ UNCHANGED <<clientVars, inbox, daemon, deferred, manager, proc, pidFile, inWorker>>

\* Mutant: the pending requests of a lost worker are dropped, not failed.
WorkerExitSilent(w) ==
    /\ LoopRuns
    /\ proc[w] = "zombie"
    /\ proc' = [proc EXCEPT ![w] = "gone"]
    /\ awaiting' = [awaiting EXCEPT ![w] = NoRequest]
    /\ IF w \in listening
       THEN RemovePending(pending) /\ Dispose /\ UNCHANGED replies
       ELSE /\ UNCHANGED <<pending, timers, worker, listening>>
            /\ IF awaiting[w] # NoRequest THEN Reply(awaiting[w], "error")
                                          ELSE UNCHANGED replies
    /\ UNCHANGED <<clientVars, inbox, daemon, deferred, pidFile, inWorker, outbox>>

\* The exit event: before the ready signal it fails the launch; of a worker
\* WorkerManager listens to, it fails every pending request and disposes.
WorkerExit(w) ==
    /\ LoopRuns
    /\ proc[w] = "zombie"
    /\ proc' = [proc EXCEPT ![w] = "gone"]
    /\ awaiting' = [awaiting EXCEPT ![w] = NoRequest]
    /\ IF w \in listening
       THEN RemovePending(pending) /\ Dispose /\ ReplyAll(pending, "error")
       ELSE /\ UNCHANGED <<pending, timers, worker, listening>>
            /\ IF awaiting[w] # NoRequest THEN Reply(awaiting[w], "error")
                                          ELSE UNCHANGED replies
    /\ UNCHANGED <<clientVars, inbox, daemon, deferred, pidFile, inWorker, outbox>>

\* No ready signal in 40 s: SIGKILL, and the start request fails.
ReadyTimeout(w) ==
    /\ LoopRuns
    /\ awaiting[w] # NoRequest
    /\ proc' = [proc EXCEPT ![w] = "zombie"]
    /\ awaiting' = [awaiting EXCEPT ![w] = NoRequest]
    /\ Reply(awaiting[w], "error")
    /\ UNCHANGED <<clientVars, inbox, daemon, routing, worker, listening,
                   pidFile, inWorker, outbox>>

(***************************************************************************)
(* Worker processes.                                                       *)
(***************************************************************************)
WorkerWritesPid(w) ==
    /\ proc[w] = "spawned"
    /\ proc' = [proc EXCEPT ![w] = "launching"]
    /\ pidFile' = w
    /\ UNCHANGED <<clientVars, inbox, replies, daemon, routing, manager, inWorker, outbox>>

\* Chrome and CDP are up: the ready signal, then the signal handlers.
WorkerReady(w) ==
    /\ proc[w] = "launching"
    /\ proc' = [proc EXCEPT ![w] = "running"]
    /\ outbox' = [outbox EXCEPT ![w] = @ \cup {Ready}]
    /\ UNCHANGED <<clientVars, inbox, replies, daemon, routing, manager, pidFile, inWorker>>

\* handleWorkerIPC: each request is handled on its own and answered in any
\* order; calls fail once cleanup has closed the CDP connection.
WorkerAnswers(w) ==
    /\ proc[w] \in {"running", "cleanup"}
    /\ \E r \in inWorker[w], success \in BOOLEAN :
          /\ success => proc[w] = "running"
          /\ inWorker' = [inWorker EXCEPT ![w] = @ \ {r}]
          /\ outbox' = [outbox EXCEPT ![w] = @ \cup
                            {[type |-> "answer", req |-> r, success |-> success]}]
    /\ UNCHANGED <<clientVars, inbox, replies, daemon, routing, manager, proc, pidFile>>

\* The session timeout, a lost CDP connection or a signal starts the cleanup.
WorkerCleanup(w) ==
    /\ proc[w] = "running"
    /\ proc' = [proc EXCEPT ![w] = "cleanup"]
    /\ UNCHANGED <<clientVars, inbox, replies, daemon, routing, manager, pidFile,
                   inWorker, outbox>>

\* The process ends: after its cleanup, on a failed setup, or by a crash.
WorkerDies(w) ==
    /\ proc[w] \in {"spawned", "launching", "running", "cleanup"}
    /\ proc' = [proc EXCEPT ![w] = "zombie"]
    /\ inWorker' = [inWorker EXCEPT ![w] = {}]
    /\ UNCHANGED <<clientVars, inbox, replies, daemon, routing, manager, pidFile, outbox>>

Handle(r) ==
    \/ HandleHandshake(r) \/ HandleCommand(r) \/ HandlePeek(r)
    \/ HandleStatus(r) \/ HandleStart(r) \/ HandleStop(r)

Next ==
    \/ \E r \in Requests :
          \/ \E k \in Kinds : SendRequest(r, k)
          \/ ReceiveReply(r) \/ EarlyClose(r) \/ ClientTimeout(r)
          \/ Handle(r) \/ ResponseTimeout(r) \/ RefuseStart(r)
    \/ \E w \in Workers :
          \/ AttachWorker(w) \/ WorkerMessage(w) \/ WorkerExit(w) \/ ReadyTimeout(w)
          \/ WorkerWritesPid(w) \/ WorkerReady(w) \/ WorkerAnswers(w)
          \/ WorkerCleanup(w) \/ WorkerDies(w)
    \/ DaemonExit

Spec == Init /\ [][Next]_vars

(***************************************************************************)
(* Fairness.  Node dispatches every event that stays ready and fires every *)
(* timer that stays armed; a client reads its socket.  No fairness is      *)
(* assumed of the workers (a hung worker is what the timeouts are for) nor *)
(* of the client's own 45 s timeout.                                       *)
(***************************************************************************)
\* Mutant: the exit waits for the workers to be gone.
StopTimerAfterWorkers ==
    /\ daemon = "stopping" /\ \A w \in Workers : proc[w] \in {"unused", "gone"}
    /\ DaemonExit

StopTimer == daemon = "stopping" /\ DaemonExit

Fairness ==
    /\ \A r \in Requests :
          /\ WF_vars(Handle(r))
          /\ WF_vars(ResponseTimeout(r))
          /\ WF_vars(RefuseStart(r))
          /\ WF_vars(ReceiveReply(r))
          /\ WF_vars(EarlyClose(r))
    /\ \A w \in Workers : WF_vars(ReadyTimeout(w))
    /\ WF_vars(StopTimer)

FairSpec == Spec /\ Fairness

(***************************************************************************)
(* Properties.                                                             *)
(***************************************************************************)
Answered == {r \in Requests : replies[r] # <<>>}
Starting == {awaiting[w] : w \in Workers} \ {NoRequest}

\* A request is answered at most once, however its answer, its timeout, the
\* worker's exit, a failed launch and a stop are interleaved
\* (pendingRequests.ts, responseHandler.ts).
OneReplyPerRequest == \A r \in Requests : Len(replies[r]) <= 1

\* A client that waits is owed its answer by exactly one part of the daemon:
\* its frame is unread, it is pending, its start is being refused or its
\* worker launched, or the answer is already in its socket.
OwedByExactlyOne ==
    /\ \A r \in Requests : client[r] = "waiting" =>
          r \in inbox \cup pending \cup deferred \cup Starting \cup Answered
    /\ inbox \cap (pending \cup deferred \cup Starting \cup Answered) = {}
    /\ pending \cap (deferred \cup Starting \cup Answered) = {}
    /\ deferred \cap (Starting \cup Answered) = {}
    /\ Starting \cap Answered = {}
    /\ \A v, w \in Workers : awaiting[v] = awaiting[w] => v = w \/ awaiting[v] = NoRequest

\* The pending table and the armed timeouts are the same requests: no entry
\* can wait for ever, and no timeout fires for a request already answered.
PendingIsTimed == pending = timers

\* While the daemon is up, no request is pending on a worker whose exit it has
\* already seen: the exit handler fails them all and none is added afterwards.
NoPendingOnLostWorker ==
    daemon = "up" /\ pending # {} =>
        worker # NoWorker /\ worker \in listening /\ proc[worker] # "gone"

\* No step drops a request without answering it: what leaves the pending table,
\* the refusals or the launches leaves an answer in its socket.
NoSilentDrop ==
    [][\A r \in pending \cup deferred \cup Starting :
          r \notin (pending \cup deferred \cup Starting)' => r \in Answered']_vars

\* Every client settles, without the help of its own timeout: the daemon
\* answers each request or goes away.
EveryRequestSettles ==
    \A r \in Requests : client[r] = "waiting" ~> client[r] \in Settled

\* A carried-out stop ends the daemon.
StopEndsDaemon == daemon = "stopping" ~> daemon = "down"

\* Whatever happens between the two: one owner owes a waiting client its answer,
\* and it is sent once.
OneOwnerOneReply == OneReplyPerRequest /\ OwedByExactlyOne

\* The table of pending requests holds what can still end: each entry timed, none
\* of a worker that is gone.
PendingCanEnd == PendingIsTimed /\ NoPendingOnLostWorker

\* Every client settles, and a stop ends the daemon.
ClientsSettle == EveryRequestSettles /\ StopEndsDaemon

(***************************************************************************)
(* The inductive invariant behind the safety properties.                   *)
(***************************************************************************)
\* Nobody owes an answer to a client that has not asked.
SentBeforeOwed ==
    \A r \in Requests : client[r] = "idle" =>
        r \notin inbox \cup pending \cup deferred \cup Starting \cup Answered

\* A launch is awaited only for a process that was spawned and whose exit has
\* not been seen, and is over once the worker is attached.
LaunchOfLiveWorker ==
    \A w \in Workers : awaiting[w] # NoRequest =>
        proc[w] \notin {"unused", "gone"} /\ w \notin listening

\* WorkerManager listens to processes that exist, and to the current worker
\* until its exit.
AttachedIsObserved ==
    /\ \A w \in listening : proc[w] # "unused"
    /\ worker # NoWorker => worker \in listening /\ proc[worker] # "gone"

PendingOnAttached == daemon = "up" /\ pending # {} => worker # NoWorker

IInv ==
    /\ TypeOK
    /\ OneReplyPerRequest
    /\ OwedByExactlyOne
    /\ PendingIsTimed
    /\ SentBeforeOwed
    /\ LaunchOfLiveWorker
    /\ AttachedIsObserved
    /\ PendingOnAttached

(***************************************************************************)
(* The daemon implements RequestReply.                                     *)
(***************************************************************************)
Abstract == INSTANCE RequestReply WITH
    answer <- [r \in Requests |-> IF replies[r] = <<>> THEN "none" ELSE Head(replies[r])]

Refinement == Abstract!Spec
=============================================================================
