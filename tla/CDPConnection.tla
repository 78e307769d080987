------------------------------ MODULE CDPConnection ------------------------------
(***************************************************************************)
(* connection/cdp.ts: the worker's WebSocket connection to the browser,    *)
(* with its connect() retry loop, the calls awaiting a response, the       *)
(* keepalive, automatic reconnection and close().                          *)
(*                                                                         *)
(* One thread: an action is one callback, run with the continuations it    *)
(* resolves.  A WebSocket that fails or aborts its handshake emits "error" *)
(* and "close" in one callback; an open one that is closed stays "closing" *)
(* until its close event, and still delivers messages.                     *)
(*                                                                         *)
(* Left out: message contents, event handlers, delays (a timer may fire    *)
(* any time after it is set), the pong timeout, which only logs.           *)
(***************************************************************************)
EXTENDS Integers, FiniteSets

CONSTANTS
    Sockets,            \* WebSocket instances; bounds the attempts, in all
    Calls,              \* calls of send()
    NoSocket,
    Options,            \* what connect() may be called with
    MaxReconnects,      \* config.maxReconnectAttempts
    MaxMissedPongs      \* config.maxMissedPongs

ASSUME NoSocketAssumption == NoSocket \notin Sockets
ASSUME OptionsAssumption == Options \subseteq [maxRetries : Nat \ {0}, autoReconnect : BOOLEAN]
\* The worker does not reconnect; with several attempts as well, connect() and
\* a reconnection would make sockets side by side.
ASSUME OneRetryAssumption == \A o \in Options : o.autoReconnect => o.maxRetries = 1
ASSUME ReconnectsAssumption == MaxReconnects \in Nat
ASSUME PongsAssumption == MaxMissedPongs \in Nat \ {0}

VARIABLES
    ws,                 \* this.ws
    sock,               \* the state of each WebSocket
    attempt,            \* who awaits the attempt each socket was made for
    connecting,         \* where connect() stands
    retries,            \* its loop variable
    delayed,            \* reconnections sleeping before their attempt
    reconnectAttempts,
    options,            \* connectionOptions
    autoReconnect,
    closed,             \* isIntentionallyClosed
    pendingMessages,
    timers,             \* armed command timeouts
    call,               \* what the promise of each call has come to
    via,                \* the socket each call was written to
    intervals,          \* live keepalive intervals, by the socket that opened
    pingInterval,       \* the one this.pingInterval refers to
    missedPongs,
    unanswered          \* pings sent since the last pong or open

sockets == <<ws, sock, attempt>>
retrying == <<connecting, retries, delayed, reconnectAttempts>>
flags == <<options, autoReconnect, closed>>
commands == <<pendingMessages, timers, call, via>>
keepalive == <<intervals, pingInterval, missedPongs, unanswered>>
vars == <<sockets, retrying, flags, commands, keepalive>>

CallState == {"new", "pending", "answered", "timedOut", "closed", "notConnected"}

TypeOK ==
    /\ ws \in Sockets \cup {NoSocket}
    /\ sock \in [Sockets -> {"unused", "connecting", "open", "closing", "closed"}]
    /\ attempt \in [Sockets -> {"none", "connect", "reconnect"}]
    /\ connecting \in {"idle", "attempt", "delay", "done", "failed"}
    /\ options \in Options
    /\ retries \in 0..options.maxRetries
    /\ delayed \in Nat
    /\ reconnectAttempts \in 0..MaxReconnects
    /\ autoReconnect \in BOOLEAN /\ closed \in BOOLEAN
    /\ pendingMessages \subseteq Calls /\ timers \subseteq Calls
    /\ call \in [Calls -> CallState]
    /\ via \in [Calls -> Sockets \cup {NoSocket}]
    /\ intervals \subseteq Sockets
    /\ pingInterval \in Sockets \cup {NoSocket}
    /\ missedPongs \in 0..MaxMissedPongs
    /\ unanswered \in Nat

Init ==
    /\ ws = NoSocket
    /\ sock = [s \in Sockets |-> "unused"]
    /\ attempt = [s \in Sockets |-> "none"]
    /\ connecting = "idle" /\ retries = 0
    /\ delayed = 0 /\ reconnectAttempts = 0
    /\ options \in Options
    /\ autoReconnect = FALSE /\ closed = FALSE
    /\ pendingMessages = {} /\ timers = {}
    /\ call = [c \in Calls |-> "new"]
    /\ via = [c \in Calls |-> NoSocket]
    /\ intervals = {} /\ pingInterval = NoSocket
    /\ missedPongs = 0 /\ unanswered = 0

IsOpen == ws # NoSocket /\ sock[ws] = "open"

(***************************************************************************)
(* Attempts.                                                               *)
(***************************************************************************)
\* attemptConnection: a new WebSocket replaces this.ws.
NewAttempt(who) ==
    \E s \in Sockets :
        /\ sock[s] = "unused"
        /\ ws' = s
        /\ sock' = [sock EXCEPT ![s] = "connecting"]
        /\ attempt' = [attempt EXCEPT ![s] = who]

Connect ==
    /\ connecting = "idle"
    /\ autoReconnect' = options.autoReconnect /\ closed' = FALSE
    /\ UNCHANGED options
    /\ NewAttempt("connect")
    /\ connecting' = "attempt"
    /\ UNCHANGED <<retries, delayed, reconnectAttempts, commands, keepalive>>

\* Mutant: the next attempt does not wait for the last one to fail.
RetryConnectEager ==
    /\ connecting \in {"delay", "attempt"}
    /\ NewAttempt("connect")
    /\ connecting' = "attempt"
    /\ UNCHANGED <<retries, delayed, reconnectAttempts, flags, commands, keepalive>>

RetryConnect ==
    /\ connecting = "delay"
    /\ NewAttempt("connect")
    /\ connecting' = "attempt"
    /\ UNCHANGED <<retries, delayed, reconnectAttempts, flags, commands, keepalive>>

\* Mutant: one close event reconnects again and again.
ReconnectRepeated ==
    /\ delayed > 0
    /\ NewAttempt("reconnect")
    /\ UNCHANGED <<retrying, flags, commands, keepalive>>

\* attemptReconnection after its delay.
Reconnect ==
    /\ delayed > 0
    /\ delayed' = delayed - 1
    /\ NewAttempt("reconnect")
    /\ UNCHANGED <<connecting, retries, reconnectAttempts, flags, commands, keepalive>>

\* The promise of attemptConnection resolves, or rejects: then connect() tries
\* again after a delay, and a reconnection just ends.  An attempt that has timed
\* out ("none") is settled already.
Succeed(s) ==
    /\ attempt' = [attempt EXCEPT ![s] = "none"]
    /\ reconnectAttempts' = IF attempt[s] = "none" THEN reconnectAttempts ELSE 0
    /\ connecting' = IF attempt[s] = "connect" THEN "done" ELSE connecting
    /\ UNCHANGED retries

Reject(S) ==
    /\ attempt' = [s \in Sockets |-> IF s \in S THEN "none" ELSE attempt[s]]
    /\ IF \E s \in S : attempt[s] = "connect"
       THEN /\ retries' = retries + 1
            /\ connecting' = IF retries + 1 < options.maxRetries THEN "delay" ELSE "failed"
       ELSE UNCHANGED <<retries, connecting>>

\* Mutant: the interval is started, its handle is not kept.
StartKeepaliveUntracked(s) ==
    /\ intervals' = intervals \cup {s}
    /\ missedPongs' = 0 /\ unanswered' = 0
    /\ UNCHANGED pingInterval

StartKeepalive(s) ==
    /\ intervals' = intervals \cup {s}
    /\ pingInterval' = s
    /\ missedPongs' = 0 /\ unanswered' = 0

Open(s) ==
    /\ sock[s] = "connecting"
    /\ sock' = [sock EXCEPT ![s] = "open"]
    /\ StartKeepalive(s)
    /\ Succeed(s)
    /\ UNCHANGED <<ws, delayed, flags, commands>>

(***************************************************************************)
(* The "close" event.                                                      *)
(***************************************************************************)
StopKeepalive ==
    /\ intervals' = intervals \ {pingInterval}
    /\ pingInterval' = NoSocket
    /\ UNCHANGED <<missedPongs, unanswered>>

\* clearPendingMessages: reject every pending call.
ClearPending ==
    /\ pendingMessages' = {}
    /\ timers' = timers \ pendingMessages
    /\ call' = [c \in Calls |-> IF c \in pendingMessages THEN "closed" ELSE call[c]]
    /\ UNCHANGED via

\* Mutant: pending calls are left to their timeouts.
OnCloseKeepPending(s) ==
    /\ StopKeepalive
    /\ UNCHANGED <<commands, reconnectAttempts, delayed>>

\* The close handler: after close() it only stops the keepalive; otherwise the
\* pending calls are rejected, onDisconnect is told (WorkerLifecycle models what the
\* worker does then), and a reconnection begins.
OnClose(s) ==
    /\ StopKeepalive
    /\ IF closed
       THEN UNCHANGED <<commands, reconnectAttempts, delayed>>
       ELSE /\ ClearPending
            /\ IF autoReconnect /\ reconnectAttempts < MaxReconnects
               THEN reconnectAttempts' = reconnectAttempts + 1 /\ delayed' = delayed + 1
               ELSE UNCHANGED <<reconnectAttempts, delayed>>

\* The browser refuses or drops the handshake: error and close.
HandshakeFails(s) ==
    /\ sock[s] = "connecting"
    /\ sock' = [sock EXCEPT ![s] = "closed"]
    /\ Reject({s})
    /\ OnClose(s)
    /\ UNCHANGED <<ws, flags>>

\* An open socket is closed by the browser, or finishes its own close.
SocketCloses(s) ==
    /\ sock[s] \in {"open", "closing"}
    /\ sock' = [sock EXCEPT ![s] = "closed"]
    /\ OnClose(s)
    /\ UNCHANGED <<ws, attempt, connecting, retries, flags>>

\* Mutant: no timeout on an attempt.
ConnectTimeoutOff(s) == FALSE

\* The connection timeout of an attempt rejects it and closes this.ws, which
\* is another socket by now if another attempt has begun.
ConnectTimeout(s) ==
    /\ sock[s] = "connecting" /\ attempt[s] # "none"
    /\ IF ws # NoSocket /\ sock[ws] = "connecting"
       THEN /\ sock' = [sock EXCEPT ![ws] = "closed"]
            /\ Reject({s, ws})
            /\ OnClose(ws)
       ELSE /\ sock' = [t \in Sockets |->
                           IF t = ws /\ sock[t] = "open" THEN "closing" ELSE sock[t]]
            /\ Reject({s})
            /\ UNCHANGED <<commands, intervals, pingInterval, missedPongs, unanswered,
                           reconnectAttempts, delayed>>
    /\ UNCHANGED <<ws, flags>>

(***************************************************************************)
(* Calls.                                                                  *)
(***************************************************************************)
Send(c) ==
    /\ call[c] = "new"
    /\ IF IsOpen
       THEN /\ call' = [call EXCEPT ![c] = "pending"]
            /\ pendingMessages' = pendingMessages \cup {c}
            /\ timers' = timers \cup {c}
            /\ via' = [via EXCEPT ![c] = ws]
       ELSE /\ call' = [call EXCEPT ![c] = "notConnected"]
            /\ UNCHANGED <<pendingMessages, timers, via>>
    /\ UNCHANGED <<sockets, retrying, flags, keepalive>>

Settle(c, outcome) ==
    /\ pendingMessages' = pendingMessages \ {c}
    /\ timers' = timers \ {c}
    /\ call' = [call EXCEPT ![c] = outcome]
    /\ UNCHANGED via

\* A response is routed by its id, whichever socket brings it; one nobody
\* awaits changes nothing.
Response(c) ==
    /\ c \in pendingMessages
    /\ sock[via[c]] \in {"open", "closing"}
    /\ Settle(c, "answered")
    /\ UNCHANGED <<sockets, retrying, flags, keepalive>>

\* Mutant: no timeout on a command.
CommandTimeoutOff(c) == FALSE

CommandTimeout(c) ==
    /\ c \in timers
    /\ Settle(c, "timedOut")
    /\ UNCHANGED <<sockets, retrying, flags, keepalive>>

(***************************************************************************)
(* Keepalive and close().                                                  *)
(***************************************************************************)
\* Mutants: the connection is never given up, or one ping later.
PingForEver(i) ==
    /\ i \in intervals
    /\ IsOpen
    /\ missedPongs < MaxMissedPongs
    /\ missedPongs' = missedPongs + 1 /\ unanswered' = unanswered + 1
    /\ UNCHANGED <<sockets, retrying, flags, commands, intervals, pingInterval>>

PingLate(i) ==
    /\ i \in intervals
    /\ IsOpen
    /\ missedPongs' = missedPongs + 1
    /\ IF missedPongs + 1 > MaxMissedPongs
       THEN sock' = [sock EXCEPT ![ws] = "closing"] /\ UNCHANGED unanswered
       ELSE unanswered' = unanswered + 1 /\ UNCHANGED sock
    /\ UNCHANGED <<ws, attempt, retrying, flags, commands, intervals, pingInterval>>

\* A tick of a live interval, on whatever this.ws is.
Ping(i) ==
    /\ i \in intervals
    /\ IsOpen
    /\ missedPongs < MaxMissedPongs
    /\ missedPongs' = missedPongs + 1
    /\ IF missedPongs + 1 >= MaxMissedPongs
       THEN sock' = [sock EXCEPT ![ws] = "closing"] /\ UNCHANGED unanswered
       ELSE unanswered' = unanswered + 1 /\ UNCHANGED sock
    /\ UNCHANGED <<ws, attempt, retrying, flags, commands, intervals, pingInterval>>

Pong(s) ==
    /\ sock[s] \in {"open", "closing"} /\ unanswered > 0
    /\ missedPongs' = 0 /\ unanswered' = 0
    /\ UNCHANGED <<sockets, retrying, flags, commands, intervals, pingInterval>>

\* close() and terminate().  A handshake under way is aborted: its error event
\* rejects the attempt, its close event finds isIntentionallyClosed.
Close ==
    /\ ~closed
    /\ closed' = TRUE /\ autoReconnect' = FALSE /\ UNCHANGED options
    /\ StopKeepalive
    /\ ClearPending
    /\ ws' = NoSocket
    /\ IF ws = NoSocket
       THEN UNCHANGED <<sock, attempt, retries, connecting>>
       ELSE /\ sock' = [sock EXCEPT ![ws] = CASE @ = "connecting" -> "closed"
                                             [] @ = "open"       -> "closing"
                                             [] OTHER            -> @]
            /\ IF sock[ws] = "connecting" THEN Reject({ws})
                                          ELSE UNCHANGED <<attempt, retries, connecting>>
    /\ UNCHANGED <<delayed, reconnectAttempts>>

Next ==
    \/ Connect \/ RetryConnect \/ Reconnect \/ Close
    \/ \E s \in Sockets :
          \/ Open(s) \/ HandshakeFails(s) \/ SocketCloses(s) \/ ConnectTimeout(s)
          \/ Ping(s) \/ Pong(s)
    \/ \E c \in Calls : Send(c) \/ Response(c) \/ CommandTimeout(c)

Spec == Init /\ [][Next]_vars

\* Timers fire and a socket that is closing closes (the library gives up on the
\* peer after 30 s).  The browser need not answer, nor send a pong.
Fairness ==
    /\ WF_vars(RetryConnect)
    /\ \A s \in Sockets :
          /\ WF_vars(ConnectTimeout(s))
          /\ WF_vars(Ping(s))
          /\ WF_vars(sock[s] = "closing" /\ SocketCloses(s))
    /\ \A c \in Calls : WF_vars(CommandTimeout(c))

FairSpec == Spec /\ Fairness

(***************************************************************************)
(* Properties.                                                             *)
(***************************************************************************)
Live(s) == sock[s] \in {"connecting", "open", "closing"}

\* The pending calls are the timed ones, no timeout outlives its call, and a call
\* waits only for a socket that can still answer: until close(), the close of a
\* socket rejects the calls written to it.
PendingIsOwed ==
    /\ pendingMessages = timers
    /\ \A c \in Calls : call[c] = "pending" <=> c \in timers
    /\ ~closed => \A c \in pendingMessages : Live(via[c])

\* The close event of one socket never rejects a call written to another
\* (cdp.ts: every handler acts on this.ws and the shared table).
NoCollateralReject ==
    [][\A c \in pendingMessages, s \in Sockets :
          call'[c] = "closed" /\ s # via[c] /\ Live(s) => sock'[s] # "closed"]_vars

\* While the connection is open exactly its own keepalive runs, none leaks, and
\* none survives it.
KeepaliveIsOwn ==
    /\ intervals \subseteq {pingInterval}
    /\ IsOpen => pingInterval = ws
    /\ (\A s \in Sockets : ~Live(s)) => intervals = {}

\* connect() ends, with a connection or an error.
ConnectEnds == connecting = "attempt" ~> connecting \in {"done", "failed"}

\* A browser that stops answering pings is noticed: the count of missed pongs
\* is cleared by a pong or the connection ends.
SilenceIsNoticed == missedPongs > 0 ~> missedPongs = 0 \/ ~IsOpen

\* The tick that finds MaxMissedPongs - 1 pings unanswered gives the browser up instead
\* of sending another: not earlier, whatever pongs and connections came between, and
\* not later.  (The comment at cdp.ts:494 says one later.)
GivenUpInTime ==
    [][/\ (\E i \in Sockets : Ping(i)) /\ sock' # sock => unanswered = MaxMissedPongs - 1
       /\ unanswered' > unanswered => unanswered' < MaxMissedPongs]_vars

\* The two resources of a connection: a call is in the table with its timer or
\* in neither, a keepalive runs exactly while its connection is open.
NothingLeaks == PendingIsOwed /\ KeepaliveIsOwn

\* What send() promises, put in terms of RemoteCalls.
Remote == INSTANCE RemoteCalls WITH Links <- Sockets, NoLink <- NoSocket

\* Whatever becomes of the sockets, the callers are served: a connection that closes
\* rejects all the calls it carries and no other, a settled call stays settled, and every
\* call settles though the browser may never answer (RemoteCalls); connect() ends; and a
\* silent browser is noticed, when it is due.
CallersAreServed == Remote!Spec /\ ConnectEnds /\ SilenceIsNoticed /\ GivenUpInTime
=============================================================================
