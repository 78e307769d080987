-------------------------- MODULE CDPConnectionProofs --------------------------
(***************************************************************************)
(* Proofs about CDPConnection, for any sockets, calls and options: nothing  *)
(* leaks, the close of one socket rejects no call of another, a silent     *)
(* browser is given up when it is due, and send() keeps the promise of     *)
(* RemoteCalls, as far as safety goes.  Most of it rests on there being one *)
(* live socket at a time, which the code nowhere tests: every attempt       *)
(* begins after the last socket has closed.                                *)
(***************************************************************************)
EXTENDS CDPConnection, TLAPS

\* One socket at a time, and while there is one nobody waits to make another.
OneSocket ==
    /\ \A s, t \in Sockets : Live(s) /\ Live(t) => s = t
    /\ \A s \in Sockets : Live(s) => delayed = 0 /\ connecting \notin {"idle", "delay"}
    /\ delayed \in 0..1 /\ (delayed = 1 => connecting # "delay")

\* this.ws is the live socket, except after close(), which forgets it.
WsIsLive ==
    \A s \in Sockets : Live(s) => s = ws \/ (closed /\ ws = NoSocket /\ sock[s] = "closing")

\* An attempt is awaited only while its handshake is under way, and connect()
\* is at an attempt when one of its own is.
Attempts ==
    /\ \A s \in Sockets : attempt[s] # "none" => sock[s] = "connecting"
    /\ \A s \in Sockets : attempt[s] = "connect" => connecting = "attempt"
    /\ connecting \in {"attempt", "delay"} => retries < options.maxRetries

\* Before connect() there is nothing; a connection that reconnects makes one
\* attempt, so its connect() never waits for the next.
Beginning ==
    /\ connecting = "idle" => /\ delayed = 0 /\ retries = 0
                              /\ pendingMessages = {} /\ intervals = {}
    /\ autoReconnect => options.autoReconnect
    /\ delayed > 0 => options.autoReconnect
    /\ connecting = "delay" => options.maxRetries > 1

\* An interval runs only beside a socket that has opened.
IntervalsNeedSocket ==
    (\A s \in Sockets : sock[s] \notin {"open", "closing"}) => intervals = {}

\* A pending call was written to a socket.
PendingIsWritten == \A c \in pendingMessages : via[c] \in Sockets

IInv ==
    /\ TypeOK /\ NothingLeaks
    /\ OneSocket /\ WsIsLive /\ Attempts /\ Beginning /\ IntervalsNeedSocket /\ PendingIsWritten

\* Types: the loop variable needs that only an attempt of connect() adds to it.
LEMMA TypeStep == IInv /\ [Next]_vars => TypeOK'
<1> SUFFICES ASSUME IInv, [Next]_vars PROVE TypeOK'
  OBVIOUS
<1> USE OptionsAssumption, ReconnectsAssumption, PongsAssumption
<1> USE DEF IInv, TypeOK, CallState, Live, OneSocket, Attempts, vars, sockets, retrying, flags, commands, keepalive
<1>1. CASE Connect
  <2>1. ws' \in Sockets
    BY <1>1 DEF Connect, NewAttempt
  <2>2. sock' \in [Sockets -> {"unused", "connecting", "open", "closing", "closed"}]
    BY <1>1 DEF Connect, NewAttempt
  <2>3. attempt' \in [Sockets -> {"none", "connect", "reconnect"}]
    BY <1>1 DEF Connect, NewAttempt
  <2>4. autoReconnect' \in BOOLEAN
    BY <1>1 DEF Connect
  <2> QED
    BY <1>1, <2>1, <2>2, <2>3, <2>4 DEF Connect
<1>2. CASE RetryConnect
  BY <1>2 DEF RetryConnect, NewAttempt
<1>3. CASE Reconnect
  BY <1>3 DEF Reconnect, NewAttempt
<1>4. CASE Close
  <2>1. sock' \in [Sockets -> {"unused", "connecting", "open", "closing", "closed"}]
    BY <1>4 DEF Close
  <2>2. /\ attempt' \in [Sockets -> {"none", "connect", "reconnect"}]
        /\ retries' \in 0..options'.maxRetries
        /\ connecting' \in {"idle", "attempt", "delay", "done", "failed"}
    BY <1>4 DEF Close, Reject
  <2>3. /\ call' \in [Calls -> CallState] /\ via' \in [Calls -> Sockets \cup {NoSocket}]
        /\ pendingMessages' \subseteq Calls /\ timers' \subseteq Calls
    BY <1>4 DEF Close, ClearPending
  <2> QED
    BY <1>4, <2>1, <2>2, <2>3 DEF Close, StopKeepalive
<1>5. ASSUME NEW s \in Sockets, Open(s) PROVE TypeOK'
  BY <1>5 DEF Open, StartKeepalive, Succeed
<1>6. ASSUME NEW s \in Sockets, HandshakeFails(s) PROVE TypeOK'
  BY <1>6 DEF HandshakeFails, Reject, OnClose, StopKeepalive, ClearPending
<1>7. ASSUME NEW s \in Sockets, SocketCloses(s) PROVE TypeOK'
  BY <1>7 DEF SocketCloses, OnClose, StopKeepalive, ClearPending
<1>8. ASSUME NEW s \in Sockets, ConnectTimeout(s) PROVE TypeOK'
  BY <1>8 DEF ConnectTimeout, Reject, OnClose, StopKeepalive, ClearPending
<1>9. ASSUME NEW s \in Sockets, Ping(s) PROVE TypeOK'
  BY <1>9 DEF Ping, IsOpen
<1>10. ASSUME NEW s \in Sockets, Pong(s) PROVE TypeOK'
  BY <1>10 DEF Pong
<1>11. ASSUME NEW c \in Calls, Send(c) PROVE TypeOK'
  BY <1>11 DEF Send, IsOpen
<1>12. ASSUME NEW c \in Calls, Response(c) PROVE TypeOK'
  BY <1>12 DEF Response, Settle
<1>13. ASSUME NEW c \in Calls, CommandTimeout(c) PROVE TypeOK'
  BY <1>13 DEF CommandTimeout, Settle
<1>14. CASE UNCHANGED vars
  BY <1>14
<1> QED
  BY <1>1, <1>2, <1>3, <1>4, <1>5, <1>6, <1>7, <1>8, <1>9, <1>10, <1>11, <1>12, <1>13, <1>14 DEF Next

\* A new socket is made only when the last one has closed.
LEMMA SocketStep == IInv /\ [Next]_vars => (OneSocket /\ WsIsLive)'
<1> SUFFICES ASSUME IInv, [Next]_vars PROVE (OneSocket /\ WsIsLive)'
  OBVIOUS
<1> USE NoSocketAssumption, OptionsAssumption, OneRetryAssumption
<1> USE DEF IInv, TypeOK, Live, OneSocket, WsIsLive, Attempts, Beginning, vars, sockets, retrying, flags, commands, keepalive
<1>1. CASE Connect
  BY <1>1 DEF Connect, NewAttempt
<1>2. CASE RetryConnect
  BY <1>2 DEF RetryConnect, NewAttempt
<1>3. CASE Reconnect
  BY <1>3 DEF Reconnect, NewAttempt
<1>4. CASE Close
  BY <1>4 DEF Close, StopKeepalive, ClearPending, Reject
<1>5. ASSUME NEW s \in Sockets, Open(s) PROVE (OneSocket /\ WsIsLive)'
  BY <1>5 DEF Open, StartKeepalive, Succeed
<1>6. ASSUME NEW s \in Sockets, HandshakeFails(s) PROVE (OneSocket /\ WsIsLive)'
  BY <1>6 DEF HandshakeFails, Reject, OnClose, StopKeepalive, ClearPending
<1>7. ASSUME NEW s \in Sockets, SocketCloses(s) PROVE (OneSocket /\ WsIsLive)'
  BY <1>7 DEF SocketCloses, OnClose, StopKeepalive, ClearPending
<1>8. ASSUME NEW s \in Sockets, ConnectTimeout(s) PROVE (OneSocket /\ WsIsLive)'
  BY <1>8 DEF ConnectTimeout, Reject, OnClose, StopKeepalive, ClearPending
<1>9. ASSUME NEW s \in Sockets, Ping(s) PROVE (OneSocket /\ WsIsLive)'
  BY <1>9 DEF Ping, IsOpen
<1>10. ASSUME NEW s \in Sockets, Pong(s) PROVE (OneSocket /\ WsIsLive)'
  BY <1>10 DEF Pong
<1>11. ASSUME NEW c \in Calls, Send(c) PROVE (OneSocket /\ WsIsLive)'
  BY <1>11 DEF Send, IsOpen
<1>12. ASSUME NEW c \in Calls, Response(c) PROVE (OneSocket /\ WsIsLive)'
  BY <1>12 DEF Response, Settle
<1>13. ASSUME NEW c \in Calls, CommandTimeout(c) PROVE (OneSocket /\ WsIsLive)'
  BY <1>13 DEF CommandTimeout, Settle
<1>14. CASE UNCHANGED vars
  BY <1>14
<1> QED
  BY <1>1, <1>2, <1>3, <1>4, <1>5, <1>6, <1>7, <1>8, <1>9, <1>10, <1>11, <1>12, <1>13, <1>14 DEF Next

\* Where connect() stands follows from whose attempt has failed.
LEMMA AttemptStep == IInv /\ [Next]_vars => (Attempts /\ Beginning)'
<1> SUFFICES ASSUME IInv, [Next]_vars PROVE (Attempts /\ Beginning)'
  OBVIOUS
<1> USE OptionsAssumption, OneRetryAssumption
<1> USE DEF IInv, TypeOK, Live, OneSocket, WsIsLive, Attempts, Beginning, NothingLeaks, PendingIsOwed, vars, sockets, retrying, flags, commands, keepalive
<1>1. CASE Connect
  BY <1>1 DEF Connect, NewAttempt
<1>2. CASE RetryConnect
  BY <1>2 DEF RetryConnect, NewAttempt
<1>3. CASE Reconnect
  BY <1>3 DEF Reconnect, NewAttempt
<1>4. CASE Close
  BY <1>4 DEF Close, StopKeepalive, ClearPending, Reject
<1>5. ASSUME NEW s \in Sockets, Open(s) PROVE (Attempts /\ Beginning)'
  BY <1>5 DEF Open, StartKeepalive, Succeed
<1>6. ASSUME NEW s \in Sockets, HandshakeFails(s) PROVE (Attempts /\ Beginning)'
  BY <1>6 DEF HandshakeFails, Reject, OnClose, StopKeepalive, ClearPending
<1>7. ASSUME NEW s \in Sockets, SocketCloses(s) PROVE (Attempts /\ Beginning)'
  BY <1>7 DEF SocketCloses, OnClose, StopKeepalive, ClearPending
<1>8. ASSUME NEW s \in Sockets, ConnectTimeout(s) PROVE (Attempts /\ Beginning)'
  BY <1>8 DEF ConnectTimeout, Reject, OnClose, StopKeepalive, ClearPending
<1>9. ASSUME NEW s \in Sockets, Ping(s) PROVE (Attempts /\ Beginning)'
  BY <1>9 DEF Ping, IsOpen
<1>10. ASSUME NEW s \in Sockets, Pong(s) PROVE (Attempts /\ Beginning)'
  BY <1>10 DEF Pong
<1>11. ASSUME NEW c \in Calls, Send(c) PROVE (Attempts /\ Beginning)'
  BY <1>11 DEF Send, IsOpen
<1>12. ASSUME NEW c \in Calls, Response(c) PROVE (Attempts /\ Beginning)'
  BY <1>12 DEF Response, Settle
<1>13. ASSUME NEW c \in Calls, CommandTimeout(c) PROVE (Attempts /\ Beginning)'
  BY <1>13 DEF CommandTimeout, Settle
<1>14. CASE UNCHANGED vars
  BY <1>14
<1> QED
  BY <1>1, <1>2, <1>3, <1>4, <1>5, <1>6, <1>7, <1>8, <1>9, <1>10, <1>11, <1>12, <1>13, <1>14 DEF Next

\* clearPendingMessages leaves nothing pending and nothing timed.
LEMMA Cleared ==
    TypeOK /\ PendingIsOwed /\ ClearPending => (PendingIsOwed /\ PendingIsWritten)'
<1> SUFFICES ASSUME TypeOK, PendingIsOwed, ClearPending
             PROVE (PendingIsOwed /\ PendingIsWritten)'
  OBVIOUS
<1>1. pendingMessages' = {} /\ timers' = {}
  BY DEF ClearPending, PendingIsOwed
<1>2. \A c \in Calls : call'[c] # "pending"
  BY DEF ClearPending, PendingIsOwed, TypeOK
<1> QED
  BY <1>1, <1>2 DEF PendingIsOwed, PendingIsWritten

\* A socket that closes is the one every pending call was written to.
LEMMA CallStep == IInv /\ [Next]_vars => (PendingIsOwed /\ PendingIsWritten)'
<1> SUFFICES ASSUME IInv, [Next]_vars PROVE (PendingIsOwed /\ PendingIsWritten)'
  OBVIOUS
<1> USE NoSocketAssumption
<1> USE DEF IInv, TypeOK, CallState, Live, OneSocket, WsIsLive, Beginning, NothingLeaks, PendingIsOwed, PendingIsWritten, vars, sockets, retrying, flags, commands, keepalive
<1>1. CASE Connect
  BY <1>1 DEF Connect, NewAttempt
<1>2. CASE RetryConnect
  BY <1>2 DEF RetryConnect, NewAttempt
<1>3. CASE Reconnect
  BY <1>3 DEF Reconnect, NewAttempt
<1>4. CASE Close
  BY <1>4, Cleared DEF Close
<1>5. ASSUME NEW s \in Sockets, Open(s) PROVE (PendingIsOwed /\ PendingIsWritten)'
  BY <1>5 DEF Open, StartKeepalive, Succeed
<1>6. ASSUME NEW s \in Sockets, HandshakeFails(s) PROVE (PendingIsOwed /\ PendingIsWritten)'
  <2>1. CASE closed
    BY <1>6, <2>1 DEF HandshakeFails, OnClose, StopKeepalive
  <2>2. CASE ~closed
    BY <1>6, <2>2, Cleared DEF HandshakeFails, OnClose
  <2> QED
    BY <2>1, <2>2
<1>7. ASSUME NEW s \in Sockets, SocketCloses(s) PROVE (PendingIsOwed /\ PendingIsWritten)'
  <2>1. CASE closed
    BY <1>7, <2>1 DEF SocketCloses, OnClose, StopKeepalive
  <2>2. CASE ~closed
    BY <1>7, <2>2, Cleared DEF SocketCloses, OnClose
  <2> QED
    BY <2>1, <2>2
<1>8. ASSUME NEW s \in Sockets, ConnectTimeout(s) PROVE (PendingIsOwed /\ PendingIsWritten)'
  <2>1. s = ws
    BY <1>8 DEF ConnectTimeout
  <2>2. CASE closed
    BY <1>8, <2>1, <2>2 DEF ConnectTimeout, OnClose, StopKeepalive
  <2>3. CASE ~closed
    BY <1>8, <2>1, <2>3, Cleared DEF ConnectTimeout, OnClose
  <2> QED
    BY <2>2, <2>3
<1>9. ASSUME NEW s \in Sockets, Ping(s) PROVE (PendingIsOwed /\ PendingIsWritten)'
  BY <1>9 DEF Ping, IsOpen
<1>10. ASSUME NEW s \in Sockets, Pong(s) PROVE (PendingIsOwed /\ PendingIsWritten)'
  BY <1>10 DEF Pong
<1>11. ASSUME NEW c \in Calls, Send(c) PROVE (PendingIsOwed /\ PendingIsWritten)'
  <2>1. CASE IsOpen
    BY <1>11, <2>1 DEF Send, IsOpen
  <2>2. CASE ~IsOpen
    BY <1>11, <2>2 DEF Send
  <2> QED
    BY <2>1, <2>2
<1>12. ASSUME NEW c \in Calls, Response(c) PROVE (PendingIsOwed /\ PendingIsWritten)'
  BY <1>12 DEF Response, Settle
<1>13. ASSUME NEW c \in Calls, CommandTimeout(c) PROVE (PendingIsOwed /\ PendingIsWritten)'
  BY <1>13 DEF CommandTimeout, Settle
<1>14. CASE UNCHANGED vars
  BY <1>14
<1> QED
  BY <1>1, <1>2, <1>3, <1>4, <1>5, <1>6, <1>7, <1>8, <1>9, <1>10, <1>11, <1>12, <1>13, <1>14 DEF Next

\* The keepalive that a close event stops is that of the socket that closed.
LEMMA KeepaliveStep == IInv /\ [Next]_vars => (KeepaliveIsOwn /\ IntervalsNeedSocket)'
<1> SUFFICES ASSUME IInv, [Next]_vars PROVE (KeepaliveIsOwn /\ IntervalsNeedSocket)'
  OBVIOUS
<1> USE NoSocketAssumption
<1> USE DEF IInv, TypeOK, Live, IsOpen, OneSocket, WsIsLive, Beginning, NothingLeaks, KeepaliveIsOwn, IntervalsNeedSocket, vars, sockets, retrying, flags, commands, keepalive
<1>1. CASE Connect
  BY <1>1 DEF Connect, NewAttempt
<1>2. CASE RetryConnect
  BY <1>2 DEF RetryConnect, NewAttempt
<1>3. CASE Reconnect
  BY <1>3 DEF Reconnect, NewAttempt
<1>4. CASE Close
  BY <1>4 DEF Close, StopKeepalive, ClearPending, Reject
<1>5. ASSUME NEW s \in Sockets, Open(s) PROVE (KeepaliveIsOwn /\ IntervalsNeedSocket)'
  BY <1>5 DEF Open, StartKeepalive, Succeed
<1>6. ASSUME NEW s \in Sockets, HandshakeFails(s) PROVE (KeepaliveIsOwn /\ IntervalsNeedSocket)'
  BY <1>6 DEF HandshakeFails, Reject, OnClose, StopKeepalive, ClearPending
<1>7. ASSUME NEW s \in Sockets, SocketCloses(s) PROVE (KeepaliveIsOwn /\ IntervalsNeedSocket)'
  BY <1>7 DEF SocketCloses, OnClose, StopKeepalive, ClearPending
<1>8. ASSUME NEW s \in Sockets, ConnectTimeout(s) PROVE (KeepaliveIsOwn /\ IntervalsNeedSocket)'
  BY <1>8 DEF ConnectTimeout, Reject, OnClose, StopKeepalive, ClearPending
<1>9. ASSUME NEW s \in Sockets, Ping(s) PROVE (KeepaliveIsOwn /\ IntervalsNeedSocket)'
  BY <1>9 DEF Ping, IsOpen
<1>10. ASSUME NEW s \in Sockets, Pong(s) PROVE (KeepaliveIsOwn /\ IntervalsNeedSocket)'
  BY <1>10 DEF Pong
<1>11. ASSUME NEW c \in Calls, Send(c) PROVE (KeepaliveIsOwn /\ IntervalsNeedSocket)'
  BY <1>11 DEF Send, IsOpen
<1>12. ASSUME NEW c \in Calls, Response(c) PROVE (KeepaliveIsOwn /\ IntervalsNeedSocket)'
  BY <1>12 DEF Response, Settle
<1>13. ASSUME NEW c \in Calls, CommandTimeout(c) PROVE (KeepaliveIsOwn /\ IntervalsNeedSocket)'
  BY <1>13 DEF CommandTimeout, Settle
<1>14. CASE UNCHANGED vars
  BY <1>14
<1> QED
  BY <1>1, <1>2, <1>3, <1>4, <1>5, <1>6, <1>7, <1>8, <1>9, <1>10, <1>11, <1>12, <1>13, <1>14 DEF Next

(***************************************************************************)
(* The invariant.                                                          *)
(***************************************************************************)
LEMMA InitInv == Init => IInv
<1> SUFFICES ASSUME Init PROVE IInv
  OBVIOUS
<1> USE NoSocketAssumption, OptionsAssumption, ReconnectsAssumption, PongsAssumption
<1> USE DEF Init, Live
<1>1. TypeOK
  <2>1. options.maxRetries \in Nat /\ retries \in 0..options.maxRetries
    OBVIOUS
  <2>2. /\ sock \in [Sockets -> {"unused", "connecting", "open", "closing", "closed"}]
        /\ attempt \in [Sockets -> {"none", "connect", "reconnect"}]
    OBVIOUS
  <2>3. call \in [Calls -> CallState] /\ via \in [Calls -> Sockets \cup {NoSocket}]
    BY DEF CallState
  <2>4. reconnectAttempts \in 0..MaxReconnects /\ missedPongs \in 0..MaxMissedPongs
    OBVIOUS
  <2> QED
    BY <2>1, <2>2, <2>3, <2>4 DEF TypeOK
<1>2. NothingLeaks
  BY DEF NothingLeaks, PendingIsOwed, KeepaliveIsOwn, IsOpen
<1>3. OneSocket /\ WsIsLive /\ Attempts
  BY DEF OneSocket, WsIsLive, Attempts
<1>4. Beginning /\ IntervalsNeedSocket /\ PendingIsWritten
  BY DEF Beginning, IntervalsNeedSocket, PendingIsWritten
<1> QED
  BY <1>1, <1>2, <1>3, <1>4 DEF IInv

LEMMA NextInv == IInv /\ [Next]_vars => IInv'
  BY TypeStep, SocketStep, AttemptStep, CallStep, KeepaliveStep DEF IInv, NothingLeaks

\* The strengthened invariant: one live socket at a time and what follows from it
\* for the attempts, the calls and the keepalive.
THEOREM Invariance == Spec => []IInv
  BY InitInv, NextInv, PTL DEF Spec

\* The state of the connection keeps its types for any sockets and calls.
THEOREM TypeCorrect == Spec => []TypeOK
<1>1. IInv => TypeOK
  BY DEF IInv
<1> QED
  BY <1>1, Invariance, PTL

\* A call is in the table with its timer or in neither and waits for a socket that
\* can still answer; a keepalive runs exactly beside its open connection.
THEOREM NothingLeaked == Spec => []NothingLeaks
<1>1. IInv => NothingLeaks
  BY DEF IInv
<1> QED
  BY <1>1, Invariance, PTL

(***************************************************************************)
(* What the close of a socket may not do.                                  *)
(***************************************************************************)
\* After close() no event of a socket rejects a call.
LEMMA ClosedRejectsNone ==
    ASSUME IInv, [Next]_vars, closed, NEW c \in pendingMessages
    PROVE  call'[c] # "closed"
<1> USE DEF IInv, TypeOK, NothingLeaks, PendingIsOwed, vars, sockets, retrying, flags, commands, keepalive
<1>1. c \in Calls /\ call[c] = "pending"
  OBVIOUS
<1>2. CASE Connect \/ RetryConnect \/ Reconnect
  BY <1>1, <1>2 DEF Connect, RetryConnect, Reconnect
<1>3. CASE Close
  BY <1>3 DEF Close
<1>4. ASSUME NEW s \in Sockets, Open(s) \/ Ping(s) \/ Pong(s)
      PROVE  call'[c] # "closed"
  BY <1>1, <1>4 DEF Open, Ping, Pong
<1>5. ASSUME NEW s \in Sockets, HandshakeFails(s) \/ SocketCloses(s) \/ ConnectTimeout(s)
      PROVE  call'[c] # "closed"
  BY <1>1, <1>5 DEF HandshakeFails, SocketCloses, ConnectTimeout, OnClose
<1>6. ASSUME NEW d \in Calls, Send(d) \/ Response(d) \/ CommandTimeout(d)
      PROVE  call'[c] # "closed"
  BY <1>1, <1>6 DEF Send, Response, CommandTimeout, Settle
<1>7. CASE UNCHANGED vars
  BY <1>1, <1>7
<1> QED
  BY <1>2, <1>3, <1>4, <1>5, <1>6, <1>7 DEF Next

LEMMA CloseIsOwn ==
    IInv /\ [Next]_vars =>
        \A c \in pendingMessages, s \in Sockets :
            call'[c] = "closed" /\ s # via[c] /\ Live(s) => sock'[s] # "closed"
<1> SUFFICES ASSUME IInv, [Next]_vars, NEW c \in pendingMessages, NEW s \in Sockets,
                    call'[c] = "closed", s # via[c], Live(s)
             PROVE  FALSE
  OBVIOUS
<1>1. ~closed
  BY ClosedRejectsNone
<1>2. via[c] \in Sockets /\ Live(via[c])
  BY <1>1 DEF IInv, PendingIsWritten, NothingLeaks, PendingIsOwed
<1> QED
  BY <1>2 DEF IInv, OneSocket

\* The close event of one socket never rejects a call written to another, although
\* every handler acts on the shared table.
THEOREM NoCollateral == Spec => NoCollateralReject
<1>1. IInv /\ [Next]_vars =>
          [\A c \in pendingMessages, s \in Sockets :
              call'[c] = "closed" /\ s # via[c] /\ Live(s) => sock'[s] # "closed"]_vars
  BY CloseIsOwn
<1> QED
  BY <1>1, Invariance, PTL DEF Spec, NoCollateralReject

(***************************************************************************)
(* When a silent browser is given up.                                      *)
(***************************************************************************)
\* While the connection is open its count of missed pongs is that of the pings it
\* sent since the last pong.
CountIsTrue == IsOpen => missedPongs = unanswered

LEMMA CountStep == IInv /\ CountIsTrue /\ [Next]_vars => CountIsTrue'
<1> SUFFICES ASSUME IInv, CountIsTrue, [Next]_vars PROVE CountIsTrue'
  OBVIOUS
<1> USE NoSocketAssumption
<1> USE DEF IInv, TypeOK, CountIsTrue, IsOpen, vars, sockets, retrying, flags, commands, keepalive
<1>1. CASE Connect \/ RetryConnect \/ Reconnect
  BY <1>1 DEF Connect, RetryConnect, Reconnect, NewAttempt
<1>2. CASE Close
  BY <1>2 DEF Close
<1>3. ASSUME NEW s \in Sockets, Open(s) \/ Pong(s) PROVE CountIsTrue'
  BY <1>3 DEF Open, StartKeepalive, Pong
<1>4. ASSUME NEW s \in Sockets, HandshakeFails(s) \/ SocketCloses(s) PROVE CountIsTrue'
  BY <1>4 DEF HandshakeFails, SocketCloses, OnClose, StopKeepalive
<1>5. ASSUME NEW s \in Sockets, ConnectTimeout(s) PROVE CountIsTrue'
  BY <1>5 DEF ConnectTimeout, OnClose, StopKeepalive
<1>6. ASSUME NEW s \in Sockets, Ping(s) PROVE CountIsTrue'
  BY <1>6 DEF Ping
<1>7. ASSUME NEW c \in Calls, Send(c) \/ Response(c) \/ CommandTimeout(c) PROVE CountIsTrue'
  BY <1>7 DEF Send, Response, CommandTimeout
<1>8. CASE UNCHANGED vars
  BY <1>8
<1> QED
  BY <1>1, <1>2, <1>3, <1>4, <1>5, <1>6, <1>7, <1>8 DEF Next

\* Only a tick adds to the unanswered pings.
LEMMA OnlyTicksAdd == IInv /\ [Next]_vars /\ unanswered' > unanswered => \E s \in Sockets : Ping(s)
<1> SUFFICES ASSUME IInv, [Next]_vars, ~\E s \in Sockets : Ping(s) PROVE ~(unanswered' > unanswered)
  OBVIOUS
<1>1. unanswered \in Nat
  BY DEF IInv, TypeOK
<1>2. unanswered' \in {0, unanswered}
  BY DEF Next, vars, keepalive, Connect, RetryConnect, Reconnect, Close, Open, StartKeepalive, HandshakeFails,
         SocketCloses, ConnectTimeout, OnClose, StopKeepalive, Pong, Send, Response, CommandTimeout
<1> QED
  BY <1>1, <1>2

\* The browser is given up by the tick that finds MaxMissedPongs - 1 pings unanswered,
\* and no tick sends one more than that, for any sockets and any number of pongs.
THEOREM SilenceIsTimed == Spec => GivenUpInTime
<1>1. Init => CountIsTrue
  BY DEF Init, CountIsTrue
<1>2. ASSUME IInv, CountIsTrue, NEW s \in Sockets, Ping(s)
      PROVE  /\ sock' # sock => unanswered = MaxMissedPongs - 1
             /\ unanswered' > unanswered => unanswered' < MaxMissedPongs
  BY <1>2, PongsAssumption DEF IInv, TypeOK, CountIsTrue, Ping
<1>3. IInv /\ CountIsTrue /\ [Next]_vars =>
          [/\ (\E i \in Sockets : Ping(i)) /\ sock' # sock => unanswered = MaxMissedPongs - 1
           /\ unanswered' > unanswered => unanswered' < MaxMissedPongs]_vars
  BY <1>2, OnlyTicksAdd
<1> QED
  BY <1>1, <1>3, CountStep, Invariance, PTL DEF Spec, GivenUpInTime

(***************************************************************************)
(* The promise to the callers: every step is one of RemoteCalls, or leaves *)
(* the calls alone.                                                        *)
(***************************************************************************)
Served == [Remote!Next]_<<call, via>>

\* While the connection has not been closed, the calls written to its live socket
\* are all the calls that are pending.
LEMMA CarriedAreAll ==
    ASSUME IInv, ~closed, NEW s \in Sockets, Live(s)
    PROVE  Remote!Carried(s) = pendingMessages
<1> USE DEF IInv, TypeOK, OneSocket, NothingLeaks, PendingIsOwed, PendingIsWritten
<1>1. \A c \in pendingMessages : via[c] = s
  <2> SUFFICES ASSUME NEW c \in pendingMessages PROVE via[c] = s
    OBVIOUS
  <2>1. via[c] \in Sockets /\ Live(via[c])
    OBVIOUS
  <2> QED
    BY <2>1
<1>2. \A c \in Calls : call[c] = "pending" <=> c \in pendingMessages
  OBVIOUS
<1> QED
  BY <1>1, <1>2 DEF Remote!Carried

\* Rejecting every pending call is the loss of the live socket, if there is any.
LEMMA ClearingIsLoss == IInv /\ ~closed /\ ClearPending => Served
<1> SUFFICES ASSUME IInv, ~closed, ClearPending PROVE Served
  OBVIOUS
<1>1. CASE pendingMessages = {}
  <2>1. call' = [c \in Calls |-> call[c]] /\ via' = via
    BY <1>1 DEF ClearPending
  <2>2. call' = call
    BY <2>1 DEF IInv, TypeOK
  <2> QED
    BY <2>1, <2>2 DEF Served
<1>2. CASE pendingMessages # {}
  <2>1. PICK c \in pendingMessages : via[c] \in Sockets /\ Live(via[c])
    BY <1>2 DEF IInv, NothingLeaks, PendingIsOwed, PendingIsWritten
  <2>2. Remote!Carried(via[c]) = pendingMessages
    BY <2>1, CarriedAreAll
  <2>3. Remote!Lose(via[c])
    BY <1>2, <2>2 DEF Remote!Lose, ClearPending
  <2> QED
    BY <2>1, <2>3 DEF Served, Remote!Next
<1> QED
  BY <1>1, <1>2

\* The close event loses the live socket, or after close() rejects nothing.
LEMMA CloseEventServes == ASSUME IInv, NEW s, OnClose(s) PROVE Served
<1>1. CASE closed
  BY <1>1 DEF OnClose, Served, commands
<1>2. CASE ~closed
  BY <1>2, ClearingIsLoss DEF OnClose
<1> QED
  BY <1>1, <1>2

\* One call begins, is refused, or settles.
LEMMA CallServes ==
    ASSUME IInv, NEW c \in Calls, Send(c) \/ Response(c) \/ CommandTimeout(c)
    PROVE  Served
<1>1. CASE Send(c)
  <2>1. CASE IsOpen
    <3>1. ws \in Sockets
      BY <2>1 DEF IsOpen, IInv, TypeOK
    <3>2. Remote!Begin(c, ws)
      BY <1>1, <2>1 DEF Send, Remote!Begin
    <3> QED
      BY <3>1, <3>2 DEF Served, Remote!Next
  <2>2. CASE ~IsOpen
    <3>1. Remote!Refuse(c)
      BY <1>1, <2>2 DEF Send, Remote!Refuse
    <3> QED
      BY <3>1 DEF Served, Remote!Next
  <2> QED
    BY <2>1, <2>2
<1>2. CASE Response(c) \/ CommandTimeout(c)
  <2>1. c \in timers
    BY <1>2 DEF Response, CommandTimeout, IInv, NothingLeaks, PendingIsOwed
  <2>2. call[c] = "pending"
    BY <2>1 DEF IInv, NothingLeaks, PendingIsOwed
  <2>3. Remote!Settle(c)
    BY <1>2, <2>2 DEF Response, CommandTimeout, Settle, Remote!Settle
  <2> QED
    BY <2>3 DEF Served, Remote!Next
<1> QED
  BY <1>1, <1>2

LEMMA ServedStep == IInv /\ [Next]_vars => Served
<1> SUFFICES ASSUME IInv, [Next]_vars PROVE Served
  OBVIOUS
<1>1. CASE Connect \/ RetryConnect \/ Reconnect \/ UNCHANGED vars
  BY <1>1 DEF Connect, RetryConnect, Reconnect, vars, commands, Served
<1>2. CASE Close
  BY <1>2, ClearingIsLoss DEF Close
<1>3. ASSUME NEW s \in Sockets, Open(s) \/ Ping(s) \/ Pong(s) PROVE Served
  BY <1>3 DEF Open, Ping, Pong, commands, Served
<1>4. ASSUME NEW s \in Sockets, HandshakeFails(s) \/ SocketCloses(s) PROVE Served
  BY <1>4, CloseEventServes DEF HandshakeFails, SocketCloses
<1>5. ASSUME NEW s \in Sockets, ConnectTimeout(s) PROVE Served
  <2>1. CASE ws # NoSocket /\ sock[ws] = "connecting"
    <3>1. OnClose(ws)
      BY <1>5, <2>1 DEF ConnectTimeout
    <3> QED
      BY <3>1, CloseEventServes
  <2>2. CASE ~(ws # NoSocket /\ sock[ws] = "connecting")
    BY <1>5, <2>2 DEF ConnectTimeout, commands, Served
  <2> QED
    BY <2>1, <2>2
<1>6. ASSUME NEW c \in Calls, Send(c) \/ Response(c) \/ CommandTimeout(c) PROVE Served
  BY <1>6, CallServes
<1> QED
  BY <1>1, <1>2, <1>3, <1>4, <1>5, <1>6 DEF Next

\* The connection keeps the promise of RemoteCalls as far as safety goes (the part of
\* CallersAreServed without fairness), for any sockets, calls and options: a call settles
\* once, and a connection that closes rejects all the calls written to it and no
\* other, through every retry, reconnection and close().
THEOREM CallsServed == Spec => Remote!Init /\ [][Remote!Next]_<<call, via>>
<1>1. Init => Remote!Init
  BY DEF Init, Remote!Init
<1>2. IInv /\ [Next]_vars => [Remote!Next]_<<call, via>>
  BY ServedStep DEF Served
<1> QED
  BY <1>1, <1>2, Invariance, PTL DEF Spec
================================================================================
