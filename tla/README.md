# Verification of bdg (browser-debugger-cli)

TLA+ specifications of bdg's own core logic, written from the TypeScript under
`src/src/`, with TLC runs on small instances and TLAPS proofs for every value of
the constants. `PROJECT.json` lists components, runs, mutants, the lines each
definition models, findings, hazards and theorems.

## The system

    bdg (one process per command)
      |  index.ts: find or launch the daemon  (daemon/launcher.ts, session/lock.ts, session/cleanup.ts)
      |  ipc/transport: one request per socket, JSONL frames, 45 s timeout
      v
    daemon (one process, one event loop)      daemon/ipcServer.ts, daemon/handlers/*, daemon/server/*
      |  WorkerManager: spawn, stdin/stdout JSONL, exit event
      v
    worker (one process per session)          daemon/worker.ts, daemon/lifecycle/*, daemon/worker/*
      |  CDPConnection: WebSocket, pending calls, reconnection, keepalive
      v
    Chrome, telemetry collectors (telemetry/*), page readiness (connection/pageReadiness.ts)

State on disk, in `~/.bdg`: `daemon.pid`, `daemon.sock`, `daemon.lock`,
`session.pid`, `session.lock`, `session.meta.json`, `session.json`, `chrome.pid`.

| Component | State | Operations | Hard behaviour | What makes it correct |
|---|---|---|---|---|
| Launcher and locks (`index.ts`, `daemon/launcher.ts`, `session/lock.ts`, `session/cleanup.ts`) | lock, pid and socket files | find, lock, clean up, spawn, wait, time out | separate processes, one file call at a time; crashes between any two | one reachable daemon; leftovers never block; every launch ends |
| Daemon server (`daemon/ipcServer.ts`, `handlers/*`, `WorkerManager`, `startSession.ts`) | pending table, timers, current worker, launches | six request types, worker messages and exit, timeouts | callbacks in any order; workers hang, die and answer late | each request one owner, one answer; nobody waits for ever |
| IPC client (`ipc/transport`) | one promise per request | send, data, close, error, timeout | several events may settle it | settles once, never loses an answer |
| Worker (`daemon/worker.ts`, `daemon/lifecycle/*`) | Chrome, CDP connection, telemetry | setup, commands, cleanup, output | signals during setup, double cleanup | Chrome ends with its session, the output is complete |
| CDP connection (`connection/cdp.ts`) | socket, pending calls, retry counters | connect, send, receive, reconnect, keepalive, close | stale sockets' events, close while reconnecting | every call settles once; one socket at a time |
| Page readiness (`connection/pageReadiness.ts`) | a counter, two clocks, an observer in the page | three phases of waiting | events of one phase missed in another, failing calls, the deadline | what it calls stable is stable; it returns; it leaves nothing behind |
| Network collector (`telemetry/network.ts`) | map of requests in flight, list of entries | CDP events, body fetches, stale cleanup, stop | redirects reuse an id, late bodies, a map cleaned behind an event's back, limits | every entry tells what happened to its request; nothing is lost below the limits |
| Other telemetry (`console.ts`, `navigation.ts`, `dialogs.ts`, `dom.ts`) | bounded lists | CDP events | cached object values, navigation ids | bounds hold |
| Concurrency limiter (`utils/concurrency.ts`) | counter, queue of waiters | `run()` | a newcomer overtakes a woken waiter | bound, no lost wake-up |
| Chrome launcher and its records (`connection/launcher.ts`, `portReservation.ts`, `session/chrome.ts`, `session/cleanup.ts`) | port, `chrome.pid`, `session.meta.json` | reserve, spawn, search for a target, record, kill by record, clear | ports are released before they are bound; one file for every session's browser | a worker talks to its own browser; a browser left running is named |
| Viewers (`commands/peek.ts`, `tail.ts`, `console.ts`, `details.ts`; `daemon/worker/plugins.ts`) | the printed list, the polls under way | ask, print, follow | answers overtake each other, navigations renumber, limits at three places | what is shown is what there is; following catches up |
| DOM queries (`commands/dom/index.ts`, `helpers.ts`) | node ids, results | document, match, describe under the limiter | node ids are renewed by other commands and navigations | a description is that of the element asked for |
| Form commands (`commands/dom/form*.ts`, `evalHelpers.ts`) | the element, the counter of requests | fill, click, submit, eval, wait | requests already under way, redirects, navigation during the wait | done what was typed; ends with a code that tells why |
| Command line (`commands/shared/*`, `CommandRunner`) | none | options, outcomes, exit codes, paging | every command meets every failure | the code tells the cause |
| `bdg cdp` (`commands/cdp.ts`, `cdp/schema.ts`, `cdp/protocol.ts`, `utils/levenshtein.ts`) | none | list, describe, search, normalise, suggest, execute | five ways to name a method | what is offered can be used |
| URLs, filters, framing (`utils/url.ts`, `telemetry/filters.ts`, `ipc/transport/jsonl.ts`, `daemon/server/JsonlParser.ts`) | a buffer | normalise, validate, match, split | precedence of options; a character cut in two | agree with a reference definition |
| Formatting and messages (`ui/*`) | - | - | text | not modelled |

## Modules

| Module | Models | Extended by |
|---|---|---|
| `RequestReply` | the abstract promise to the clients | instantiated by `DaemonServer` |
| `DaemonServer` | the daemon's event loop, its clients and workers | `MCDaemonServer`, `DaemonServerProofs` |
| `RemoteCalls` | the abstract promise of `send()` to its callers | instantiated by `CDPConnection` |
| `DaemonStartup` | processes and files around finding, launching and stopping the daemon | `MCDaemonStartup`, `DaemonStartupProofs` |
| `WorkerLifecycle` | the worker's setup, events, cleanup and exit, with its browser | `MCWorkerLifecycle`, `WorkerLifecycleProofs` |
| `ChromeSessions` | the browsers of successive sessions, their ports and `chrome.pid` | `MCWorkerLifecycle`, `ChromeSessionsProofs` |
| `CDPConnection` | the WebSocket to the browser, calls, keepalive, reconnection, close | `MCCDPConnection`, `CDPConnectionProofs` |
| `BrowserTraffic` | the requests of a page as CDP reports them (external) | `NetworkCollector`, `PageReadiness` |
| `NetworkCollector` | the network collector | `MCNetworkCollector`, `NetworkCollectorProofs` |
| `PageReadiness` | `waitForPageReady()` | `MCPageReadiness`, `PageReadinessProofs` |
| `ConcurrencyLimiter` | `ConcurrencyLimiter.run()` | `DomQuery` |
| `DomQuery` | `bdg dom query` and `get` through the limiter | `MCCommandLine`, `CommandLineProofs` |
| `FormCommand` | `bdg dom fill`, `click`, `submit` and `eval` | `MCCommandLine`, `CommandLineProofs` |
| `CliCommands` | options, exit codes, windows and paging of the commands | `TelemetryViews`, `CommandLineCalls` |
| `TelemetryViews` | the console's way from the page to the viewers | `MCCommandLine`, `CommandLineProofs` |
| `Text` | the string operations relied on | `CdpCommand`, `UrlFilters`, `JsonlFraming` |
| `CdpCommand` | `bdg cdp`: look-up, schemas, suggestions, modes | `CommandLineCalls` |
| `UrlFilters` | URLs as typed, filters of requests and bodies | `CommandLineCalls` |
| `CommandLineCalls` | the calls of the functions of `CdpCommand`, `UrlFilters` and `CliCommands`, with what is promised of each | `MCCommandLine`, `CommandLineProofs` |
| `JsonlFraming` | frames over a byte stream: writers, chunks, a reader | `MCCommandLine`, `CommandLineProofs` |

### DaemonServer

Node runs one callback at a time, so one action is one callback of the daemon: a
frame from a client (`Handle...`), a timer (`ResponseTimeout`, `ReadyTimeout`,
`DaemonExit`), a line or an exit event from a worker (`AttachWorker`,
`WorkerMessage`, `WorkerExit`), the continuation of an `await` (`RefuseStart`).
Clients and workers are other processes: `SendRequest`, `ReceiveReply`,
`EarlyClose`, `ClientTimeout`; `WorkerWritesPid` to `WorkerDies`.

* `pending` and `timers` are `PendingRequestManager.pending` and the timeouts its
  entries carry, kept apart because code could disarm one without the other.
* `awaiting[w]` is the start request whose `launchSessionInWorker()` promise
  waits for worker `w`; `worker` and `listening` are `WorkerManager.worker` and
  the processes it listens to. A second launch may replace `worker`: two start requests
  both pass the test for a running session, because it comes before an await and the
  worker is recorded after it (`WorkerManager.ts:57`).
* `pidFile` is `session.pid`. A process that has died is a `"zombie"` until the
  daemon has seen its exit: `kill(pid, 0)` still succeeds.
* Payloads are left out; a reply is `"ok"` or `"error"`. The pipes are sets: the
  worker answers in any order, and each frame belongs to a different client.
* Requests of the same control shape share a kind: `cdp_call` and
  `worker_details` are `"command"`.

`Abstract` maps it to `RequestReply`: the answer of a request is the first frame
the daemon wrote to its socket.

### DaemonStartup

One step is one file-system call. `at[p]` is the next step of process `p`,
`file[f]` whose file it is; `blank` are lock files created but not written yet
(`writeFileSync` opens, then writes). Steps that only remove a file are rows of
tables (`CleanupRemoval`, `AbortRemoval`, `StartRemoval`, `StopRemoval`,
`TermRemoval`) whose order is the order of the calls. A removal takes whatever
file is there, as `rmSync` does. `session` is `session.pid`: absent, or naming a live
or a dead worker; no worker removes it when its session ends. Process ids are not
reused; I/O errors other than EEXIST, ENOENT and EADDRINUSE do not occur. Invocations
and daemons are interchangeable, so the next to begin is a `CHOOSE`.

A behaviour belongs to one of `Scenarios`. With `overlap = FALSE` there is one user at
one terminal: an invocation begins when no start is under way. A daemon that has
answered a stop counts as gone, although it still removes the daemon lock and lives
for 100 ms. With `overlap = TRUE` invocations race. `cleanup` allows `bdg cleanup`,
plain or with `--force`: it runs once its daemon answers, and removes files by steps of
its own (`Cleanup`, `Sweep`). `swept` is history: the live daemons it took a file from.

The model shows what no property forbids: a cleanup given up while a killed worker
still counts as alive leaves `daemon.sock`, which the next launch takes for its own
daemon's (`launcher.ts:128`); and two processes may both hold a lock whose pid was not
written yet when the second read it (`lock.ts:96`).

### ChromeSessions

`WorkerLifecycle` is one worker in detail; here a worker is the stage its browser is at
(`stage[s]`), so that several sessions share the ports (`listener`) and the files
(`slot` is `chrome.pid`, `meta` the browser named by `session.meta.json`). Each look at a
port and each file operation is a step. The command that reads, kills and clears (`cli`) is
the clean-up of the next invocation, `bdg cleanup` or `bdg stop --kill-chrome`. With
`overlap` the user may type one while a session starts. Other programs may take a port
at any time; Chrome may die. `taken` and `by` are history: somebody took the port after
Chrome was spawned, and the sessions that wrote over a session's name.

`OwnBrowser` says that a worker asks its own browser for a page or the port was taken from it behind
its back; `OrphanIsNamed` that, of commands that wait for each other, none loses the name of a browser
whose worker is gone, except to a session on another port or to the late cleanup of an earlier one.

### ConcurrencyLimiter, DomQuery

A task is one call of `run()`. The code between two awaits is one action; a
resolved waiter resumes in a later microtask (`"woken"`), and a new call may take
the slot in between.

In `DomQuery` a task is a position in the list of matches. `bindings` counts how often the
browser has renewed its node ids, which `DOM.getDocument` of any command and a navigation
do; an id carries the count it was handed out under. An id that is stale makes the two
calls of `fn` fail, and the description stays bare, without a word (`Bare`): `QueryTells`
is about what may then be printed.

### FormCommand

These commands open a connection of their own. A script is modelled by what it does to an
element and which of its handlers it runs, with the value they see (`seen`); handlers look and change
nothing. `fill` focuses the field before it looks whether it is a file input and before it sets the
value, so the page's focus handlers see the old value, another field may be told that it lost the focus
(`Focused`), and a file input that is refused with 81 has been focused all the same. A quote in the
selector or the value breaks the script of `fill`, `click` and `submit`: nothing runs and the exit is 110.
A connection that fails is 104, or 83 when the message holds ECONNREFUSED. `ActsOnce` states what
is left of a user's expectation: an exit code that blames the user or the session comes with nothing filled or clicked,
and with no focus moved except for that file input; one element at most is acted on; whoever is told of a value (`Tells`) saw the
one the field holds in the end.

The wait after a submit is modelled by its handlers and its two timers. Only `Network` is enabled, so the navigation it waits for is never reported:
`--wait-navigation` always ends in the timeout. A request that was under way before is
subtracted but was never added, and a redirect is added again: the wait then ends too early
or not before its deadline. `FormsDoWhatTheySay` states what holds in spite of this.

### CliCommands, TelemetryViews

`CliCommands` are functions: numeric options, the exit code of a command for every outcome of
its request, the part of a list a command asks for and prints. `TelemetryViews` puts them
in motion: plugins subscribe one after the other, the page logs and navigates, the store
is bounded, and a viewer asks and prints. A viewer that follows asks at every tick whether
or not the last answer has come, so answers may be printed out of order (`polls`); an interrupt
ends it at any point.

### CdpCommand, UrlFilters, CommandLineCalls

Pure functions on sequences of characters or tokens. Each property is stated for one input
(`...For(x)`). `CommandLineCalls` makes a state of an input: `sample` is one of `Calls`, never
changes, and an invariant says that the property holds of it; `MCCommandLine` takes a bounded
set of calls, the theorems any set.
The reference definitions are written another way than the code: the edit distance as the cheapest
alignment, a pattern as a way to cut the string. The code's loops are recursive functions (the matrix
row by row, the set of lengths a pattern can consume token by token), a sort is the rank of
each element, a filter `Keep`s the elements at some positions.

### JsonlFraming

A writer appends frames to the stream (`Write`), chunks of any length reach the reader (`OnData`), which
decodes them, adds them to its buffer, delivers the complete lines that are not blank and keeps
the rest. The reader of the client lets its socket decode the stream (`setEncoding`), so half a
character at the end of a chunk waits for the other half (`held`). The daemon's readers, of its
sockets and of the worker's output, and the worker's decode chunk by chunk: they may replace the
halves of a character that was cut in two, but neither lose nor join frames. `decoder` is which.

### CDPConnection

One action is one callback of a WebSocket or a timer, with the continuations it
resolves. `sock[s]` is the state of each WebSocket ever made, `ws` the one `this.ws`
refers to: the handlers of an older socket act on the newer one and on the shared
table of calls, which is what `NoCollateralReject` is about. `attempt[s]` says who
awaits the promise of `attemptConnection()`, `intervals` the keepalive intervals
that run, `pingInterval` the one whose handle is kept. `via` and `unanswered` are
history: the socket a call was written to, and the pings in a row without a pong.
`SilenceIsNoticed` says that a silent browser is given up in the end, `GivenUpInTime` when: a keepalive closes its
socket at the tick that finds the last allowed pings unanswered, never a tick before or after, over
pongs that come late and sockets that are replaced.

`Remote` maps it to `RemoteCalls`, which knows calls and the link each went out over and nothing
of retries, tables and timers: a call is carried or refused, settles once, and the loss of a link
settles all the calls it carries and no other. The loss is a step a link may take, not one it
must: a socket opened after `close()` (below) closes without rejecting anything, and its calls end by
their timeouts.

The model shows three things the properties leave out: `close()` during the backoff
of `connect()` does not stop its loop; the third tick of the keepalive closes after
two unanswered pings, not three (`cdp.ts:494`, `cdp.ts:501`); and with
`autoReconnect` and `maxRetries > 1` a failed first attempt starts a reconnection
beside the loop, so two sockets live at once. The run therefore pairs
`autoReconnect` with a single attempt; the worker passes `autoReconnect: false`.

### WorkerLifecycle

One action is the code between two awaits. `setup` is where `main()` stands; `chrome`
and `cdp` are its globals, which a run of `cleanupWorker()` captures when it begins
(`run[r].chrome`, `run[r].cdp`). `chromeProc` is the browser process, launched or
borrowed. The first run to end exits the process, in the microtasks after its
output. A signal finds no handler before `setup = "active"`. `lost` is history: the
browser has failed a snapshot or ended the connection.

Two things happen in the model that no property forbids. When no page target is
found, `chrome` is not set yet and the exit leaves the launched Chrome running
(`chrome.pid` names it). And a connection lost during the wait for the page does not
stop `main()` from reporting the worker ready.

### BrowserTraffic, NetworkCollector, PageReadiness

`BrowserTraffic` is the browser: every request is sent, perhaps redirected under the
same id, answered, and finishes or fails. Both components extend it and let each event
and its handler be one step, because a connection handles events in order.

`NetworkCollector`: `requestMap` is the map of the closure, `requests` is
`TelemetryStore.networkRequests`. An entry keeps the redirect its URL comes from, its
status and its body. `Ages` says that 60 s have passed for a tracked request.
`Filtered` holds pairs of request and redirect, because the filter looks at the URL.
`unseen`, `squeezed` and `expired` are history: the requests begun before the handlers
were registered, met by a full map, and given up as stale. `NothingLost` is about the
others. A full map drops the redirect of a request it already holds, so such an entry
keeps an older URL (`EntriesAgree` excepts it).

`PageReadiness`: `loaded` tells a page whose `readyState` is already complete from one that has fired
its load event: the first question may be answered in between. `phase` is the await the function is at; frames that arrive in one chunk
are handled before the continuation of the first, hence `"evaluated"`, in which a load
event finds no handler and the wait lasts until the deadline. `quiet` counts the ticks
since `lastActivity`, `empty` (history) those since nothing was in flight; `missed` and
`extra` are the two ways in which the counter parts from the number of open requests.
`cut` (history) says that the script that sets the observer, or the one that removes it, was rejected: a rejected script may have
run or not, so what is left in the page is then not known. Every other rejected call, and the
deadline, leaves `ObserverRemoved` to hold.
A request open at the subscription is never counted but is subtracted when it ends, so
the phase then waits out the deadline; `CounterDrift` is the exact account. Whether the
DOM was still is a nondeterministic answer; a page that navigates by itself is left out.

## Runs

| Run | Question | Bounds | Result |
|---|---|---|---|
| `daemon_safety` | one owner and one answer per request? | 3 clients, 2 workers, all request types | holds, 423 693 states |
| `daemon_liveness` | does every client settle, does a stop end the daemon, does the daemon implement `RequestReply`? | 2 clients, 2 workers | holds, 34 646 states |
| `startup` | one daemon, reachable, nobody refused, no lock leaked, every launch ends? | three scenarios: 3 invocations and 2 crashes; 2 with `bdg cleanup --force` and a crash; 2 racing and a crash | holds, 344 768 states |
| `two_daemons` | does the daemon lock prevent two daemons (launcher.ts:36)? | 2 racing invocations, no crash | violated |
| `cleanup_orphan` | is there only one daemon (launcher.ts:8) when `bdg cleanup` removes stale files (CLI_REFERENCE.md:63)? | 3 invocations, no overlap, no crash | violated |
| `command_line` | is what the user types what is done, and what is shown what there is? does every command end, with a code that tells why? | samples of each function; viewers with 3 messages, 1 navigation, 2 polls, 1 fault; queries of up to 4 nodes, limit 2, 1 change; forms with 2 elements and 3 requests; streams of 3 frames | holds, 677 901 states |
| `cdp` | does `send()` implement `RemoteCalls`, does a socket's close reject only its own calls, does `connect()` end, is a silent browser noticed? | 3 sockets, 2 calls, the worker's options and reconnecting ones | holds, 52 924 states |
| `worker` | is the browser ended by its owner and recorded, is a stop's output complete, do setup and cleanup end? which browser does a worker use, which is named afterwards? | 3 overlapping cleanups, all configurations; 2 sessions, 2 ports | holds, 1 624 000 states |
| `stop_in_setup` | does a stop write session.json (stop.ts:64)? | 2 cleanups | violated |
| `network` | does every entry agree with the browser, is nothing lost, do stale requests go? | 3 requests, 1 redirect each, map and list of 2 | holds, 839 971 states |
| `readiness` | what does the counter count, when is "stable" true, what is left in the page, does the wait end? | 3 requests, 1 redirect each, threshold of 2 ticks | holds, 1 237 443 states |
| `idle_network` | does stable mean no active request for 200 ms (pageReadiness.ts:149)? | 2 requests, no redirect | violated |

Why the bounds are enough. In the daemon the interesting cases are the fate of one
request against another that stops the daemon or starts a second worker, hence
three clients and two workers (a replaced worker needs no third; a run with four
clients of the kinds command, start and stop, 2.8 million states, found nothing
more). In the startup a race needs two processes, and recovery from what two
crashes left needs a third invocation. In the collector three requests against a map
and a list of two make both limits bite; one redirect is enough to replace an entry.
The readiness wait needs a request missed, one counted and one still to come; two ticks
tell "since the last activity" from "since the network emptied". In the limiter four calls give two
running, one that waits and a newcomer.

In `command_line` the samples are every string up to a length over an alphabet with
one letter in both cases, another and the separators: method names of up to four characters and a
set of longer ones in reach of a long name; URLs of every preserved prefix, some
unknown ones, hosts and rests; patterns of up to three tokens against strings of up to
three (a star between two letters, two stars, a dot); lists of up to nine items
with pages of up to six. The processes need: streams of up to three frames of up to three bytes, cut
anywhere, the cut between the two halves of a character among them; a store of two against three messages; two
polls, so that one answer overtakes another; one renewal of the node ids between the match
and the description; a request before, during and after the click. For the browsers two
sessions on two ports give one that is left over and one that begins; three sessions exceed the time of a run.

`worker` and `command_line` each hold models that share no state, told apart by `mode` and
`sample`: in one mode the others stand still.

The violations are disagreements between a statement of the repository and
the code; `PROJECT.json` "findings" quotes both.

## Fairness

`DaemonServer`: Node dispatches each event that stays ready and fires each timer
that stays armed (`Handle`, `ResponseTimeout`, `RefuseStart`, `ReadyTimeout`, the
exit timer), and a client reads its socket. Nothing is assumed of workers: a hung
one is what the timeouts are for. Nor of the client's own timeout, so
`ClientsSettle` says that the daemon does not rely on it.
`DaemonStartup`: a process that can take a step takes it, and the 5 s wait runs
out; nobody has to invoke bdg, begin or end a session or crash.
`CDPConnection`: timers fire, the connection timeout included, and a closing socket
closes (`ws` gives up on the peer after 30 s). The browser need not answer anything.
`WorkerLifecycle`: every await of the setup and of a cleanup has a timeout; the browser
may hang, survive its kill and keep its connection.
`NetworkCollector`: the cleanup interval fires. `PageReadiness`: CDP calls settle (by their
own 30 s timeout), awaits continue and the deadline passes; the page may never load and
its requests never end.
`ConcurrencyLimiter`: a woken waiter resumes and an operation settles (every CDP
call has a timeout); nobody has to call. `DomQuery` adds that a query goes on once its calls have
answered. `FormCommand`: a script returns and the two timers of the wait fire; the page need not
finish any request. `TelemetryViews`: requests are answered or fail (the timeouts of daemon and client), and the tick of a
following viewer fires until it is interrupted; the page and the session need do nothing.
`ChromeSessions` is checked for safety only.

## Proofs

`DaemonServerProofs` proves for any sets of requests and workers that
`DaemonServer!Spec` keeps its types and the safety invariants `OneReplyPerRequest`,
`OwedByExactlyOne` (together `OneOwnerOneReply`), `PendingIsTimed` and
`NoPendingOnLostWorker` (together `PendingCanEnd`), and the action property `NoSilentDrop`: a
step that takes a request from its owner answers it or leaves it with another owner. None is
inductive alone. `IInv` adds: nothing is owed to a client that has not asked
(`SentBeforeOwed`); a launch is awaited only for a process that lives and is not
attached yet (`LaunchOfLiveWorker`, without which an exit could answer a start
request a second time); the current worker is one whose exit will be seen
(`AttachedIsObserved`, without which a pending request could outlive its worker);
requests are pending only while there is a worker (`PendingOnAttached`). The
argument goes by parts: `OwnershipStep` (who owes an answer), `WorkersStep`
(processes, launches, listeners), `TimersStep`, each by cases on the actions.

`NoSilentDrop` follows from the invariant in one step per action: `NothingLeaves` says for which
actions a request stays where it is, `ReplyAnswers` that a reply is an answer, and
`LaunchAnswered` that the end of a launch answers the start that waited for it.

Its theorem `Implements` is the safety half of the refinement: from an initial state of
`RequestReply`, every step of the daemon is a step of `RequestReply` or changes nothing a client
sees. What it needs of `IInv` is that whoever is owed an answer has asked and has none yet
(`OwedUnanswered`), so the first frame on a socket is the answer and never changes; an exit that
fails all pending requests is one abstract step (`AnswerSome`). That every client settles, the
other half, is liveness and stays with `daemon_liveness`.

`DaemonStartupProofs` proves, for any invocations and daemons, any number of crashes and every
scenario, `NoLeakedLock`, and from it and the rest `OneReachableDaemon` and `LeftoversAreHarmless`.
That no lock leaks needs little: who may hold the session lock at which step (`SessionLockHeld`) and
when the child has taken over the daemon lock (`ChildReleases`). That there is one daemon needs the order of
everybody's steps, so `Orderly` holds only while starts do not overlap and `bdg cleanup` has taken no
file from a live daemon (`Undisturbed`, which a step may end but never begin): one invocation starts
at a time and finds no live daemon until it has spawned its own (`OneStart`); any daemon lock it
meets is stale (`DaemonLockIsStale`); of all daemons that may still touch a file there is one, and from its
bind on the files are its own (`OneActive`, `FilesAreOwn`). The removals are read off their tables, which
six lemmas write out.

`ChromeSessionsProofs` proves, for any number of sessions and ports, `OrphanIsNamed` and the action
property `OwnBrowser`. `OwnBrowser` rests on `PortIsWatched`: from the spawn to the search for a page the
listener is the session's own Chrome or has been seen to take the port. `OrphanIsNamed` is not inductive:
`NamesAreKept` says of every recorded browser, not only of an orphan, that its name is in
`chrome.pid` or was written over by a session on another port or an earlier one. The cases that need work are the
writes and the removals: a start writes over the name of a browser on another port (`PortWasFree`, because
the port it reserved had nobody listening), and a command clears a name only after it has killed that
browser or the name was displaced. `InTurn` and `OnRecord` say what waiting for each other means.

`CommandLineProofs` holds what is proved of the command line's processes and functions. They share no
state, so each has its own invariant.

* The limiter: the bound, the exactness of the queue and the absence of lost wake-ups for every
  finite set of calls and every limit; `IInv` is the conjunction, and the counting steps rest on the
  cardinality of the set of running and of woken tasks.
* `DomQuery`: `QueryTells`, from `DomInv`. A result is written by the calls for its position only, and what
  a call has fetched so far is of the node it was made for (`Describes`), of a binding not from the
  future. `QueryUsesLimiter` proves that every step of a query is a step of the limiter or leaves it
  alone, so `IInv` and what follows from it hold of a query too.
* `FormCommand`: `FormsDoWhatTheySay`, from `FormInv`: no element is touched before the script
  runs; afterwards all are as they were, or a file input was focused and refused, or one element was clicked
  once, or the first match was filled, its handlers told after the value was set (`ActsInTurn`). That the focus step disturbs no
  field's value is `FocusIsQuiet`. And the counter of requests is
  that of those heard of unless one was missed or redirected (`CountsHeard`).
* `TelemetryViews`: `ConsoleTells` and `WholeIndexFinds` (together `ConsoleIsTrue`), from `ViewInv`. The
  navigation counter is the page the browser is at; a list that was the whole store once begins the store ever after
  (`BeginsConsole`), so an answer under way is still right when it comes (`AnswersHold`).
* `JsonlFraming`: `FramesReassembled` for any frames and any cuts, from `FramingInv`. `LaidOut` says where in
  the stream each written frame lies, `ReadSoFar` that what the reader has delivered and buffered is the decoded
  stream up to what has arrived, cut after its newlines. The step of a chunk is `Split` of the buffer with the
  chunk behind it, which has as many parts as frames end in it (`CutsOf`, `SplitAt`).
* `ExitTells` for every command and outcome.
* `UrlFilters`: `ValidatedIsNavigated` for typed URLs of any length; `FiltersMean` for patterns and
  strings of any length and any options (`WildcardsMean`, `OptionsAreMonotone`). A wildcard is followed
  token by token in both directions: from the lengths that can be consumed to the places of the pieces,
  and back.
* `CdpCommand`: `ProtocolAgrees` for any protocol without two names that differ by case only and any typed
  name, from what a look-up finds (`FindsDomain`, `FindsCommand`) and from the parts a dotted name is split
  into (`TwoParts`); `SuggestionsAreClosest`, from `DistanceIsMinimal` and from the ranks of candidates: each has a
  rank of its own from 1 on (`RankIs`), so the chosen ones are the first of the sort (`ClosestIs`). `DistanceIsMinimal` is
  Wagner and Fischer's theorem: the cell of two prefixes is the price of their cheapest alignment, because the last
  pair of an alignment, or the missing one, leads to one of the three neighbours (`AlignedEnds`) and back (`AlignedMore`).
* `CliCommands`: `ListsAreWhole` for lists and pages of any length. The first page without more is the one that
  begins the list, and every page ends where the next further back begins (`PageIs`).

No prover here can instantiate an induction over a predicate. What a recursive function computes is proved
by `Stepwise` instead: a set that holds 0 and with n also n + 1 holds all numbers up to a bound, which follows from the
least number it lacks (`LeastElement`, from the well-foundedness of inclusion on finite sets). That such a function exists
is proved the same way, on the set of n for which it does.

`WorkerLifecycleProofs` proves, for any set of overlapping cleanup runs and every
configuration, `BrowserIsAccounted` and `StopIsComplete`. Neither is inductive: both
speak of the moment of the exit, and what makes them true was decided steps before.
`IInv` adds that no run captures a browser or a connection before `main()` has them
(`BeforeConnection`); where the browser can stand at each stage of `main()` and of the
runs (`BrowserStages`); that a run's captured context is the worker's own
(`ContextIsCurrent`); that a clean exit has a finished run behind it (`CleanEnd`); that
signals reach a cleanup only once `main()` is active (`SignalsAreLate`); and that a
run past its snapshot has it or the browser failed (`Snapshots`).

`PageReadinessProofs` proves, for every finite set of requests, any number of redirects
and every threshold, `CounterDrift`, `ObserverRemoved` and the action property
`StableIsEarned`. Its `IInv` relates the two clocks (`EmptyIsOlder`: while the counter
counts right, an empty network is at least as old as the last activity), without which
the guard of the polling loop says nothing of the network; that a missed request had
begun (`MissedBegan`); and the order of load event and observer (`LoadedFirst`,
`NoObserverYet`). The step of `CounterDrift` is arithmetic on the sizes of two sets, each
of which an event changes by at most one request.

`NetworkCollectorProofs` proves `EntriesAgree` and `NothingLost` for every set of requests,
any number of redirects, every limit and every filter. Neither is inductive: an entry is
written from the map, so `MapAgrees` says what the map knows (a tracked request is in
flight, has its status exactly when it was answered, and stands at the redirect it is at
unless an event found the map full), and `EarlierIsUnseen` that nothing seen precedes the
handlers. That no request is recorded twice follows because only requests in flight are in
the map and only those that are over are in the list.

`CDPConnectionProofs` proves `NothingLeaks` and the action property `NoCollateralReject` for any sockets,
calls and limits, provided a connection that reconnects makes a single attempt
(`OneRetryAssumption`). The handlers of `cdp.ts` never look at whose socket an event belongs to; what
makes them right is that there is one live socket at a time (`OneSocket`), that it is `this.ws`
until `close()` forgets it (`WsIsLive`), and that nobody waits to make another while there is one. That in turn needs
to know where `connect()` stands (`Attempts`, `Beginning`).

`SilenceIsTimed` is the theorem that a silent browser is given up when due (`GivenUpInTime`): the counter of
`keepalive()` is the number of pings since the last pong of the socket it belongs to (`CountIsTrue`), and only a tick raises it.

Its theorem `CallsServed` is the safety half of the refinement of `RemoteCalls`. The close handler
rejects the whole table, `RemoteCalls` only what one link carried; `CarriedAreAll` says that, until
`close()`, the two are the same, again because there is one live socket.

Assumptions: the named ASSUMEs of the modules, which TLC evaluates. Most give constants their
types. Those that say more: `OneRetryAssumption` (above); `LowerAssumption`, that lower case is
idempotent and `http://` is its own; `DomAssumption`, that there is a task for every match;
`ProtocolAssumption`, that names in the protocol files are not empty, have no dot and are told apart without
their case (which the look-up by `toLowerCase` needs); `FramesAssumption`, that a frame is what JSON.stringify
gives: not empty, without a newline and of whole characters. The proofs take
the types of options from what the parsers accept.

Model-checked only: every liveness property, with the liveness half of the two refinements, because ENABLED is out of
the prover's reach. Every safety invariant and action property a passing run checks is a theorem.

## Where the code and its documents part

Seen in the models beside the four violations, in the order of the components.

* Daemon and startup. `BDG_EXECUTION_FLOW.md:367` gives a second start the code of a running daemon,
  `start` ends with 104. After `bdg stop` the next invocation kills the Chrome that `chrome.pid`
  names while the old worker may still take its snapshot. `cleanup.ts:143` takes the number of errors
  `cleanupStaleChrome()` returns for a number of kills. `launcher.ts` computes a `baseDir` that
  `buildChromeOptions` does not use. A program that takes the port between Chrome's spawn and its bind is not noticed.
* Exit codes. Without a session `console`, `details`, `cdp` and `network` end with 104, `peek` and `stop` with 83; `peek`
  says the daemon is not running when it only timed out. A bad `--last` of `peek` or `console` ends as an unhandled
  rejection with 1 instead of 81. The code an `IPCError` carries (`IPCError.ts:12`) is not looked at. A daemon's
  message that contains ENOENT is read as "no daemon".
* Lists. `peek` and `console` show at most ten items whatever `--last` says (`CLI_REFERENCE.md:34`,
  `commonOptions.ts:48` "0 = all"). The index `console` prints counts within those ten, the one `details` takes counts
  from the first (`CLI_REFERENCE.md:56`, `details.ts:24`). `navigation.ts` calls the first page
  load navigation 0; it is 1. `dom query` prints an index from 0, `--nth` counts from 1, and an invalid selector is 0 matches.
* URLs. `not-a-url` is valid (`url.ts:92` says it is not) and `ftp://x` becomes `http://ftp://x`; the examples at `url.ts:194`,
  `url.ts:221` and `url.ts:244` are not what the functions return. `TYPO_DETECTION.md` speaks of a distance of at most
  three, the code of half the length when that is more.
* Network. `network.ts:168` says that a full map drops new requests; it drops the redirects of requests it holds as well, and their
  entries keep the URL from before.
* Cleanup. `bdg cleanup --aggressive` kills the browser `chrome.pid` names (`cleanup.ts:67`), not all Chrome processes
  (`CLI_REFERENCE.md:66`).
* Forms. A value with `'` breaks the script of `fill` (`UX_IMPROVEMENTS.md:168`), a selector with one breaks `click` and
  `submit` too. The script of `--index` is
  TypeScript and never runs, the command ends with 110. `submit --wait-navigation` never sees a navigation
  (`UX_IMPROVEMENTS_STATUS.md:86`, `FORM_INTERACTION_PLAN.md:201`). `verifyTargetExists` looks at port 9222 whatever the session's port.

## Not modelled

The wording and layout of output, help and its machine-readable form, headers and bodies, the rendering of
console arguments, the dialog handler (it answers each dialog and keeps nothing), the screenshot, Chrome's flags
and profiles, the vendored protocol description (a constant of `CdpCommand`). I/O errors other than
those named above. Reuse of process ids: `chrome.pid` and the pid files are tested for liveness only, so a reused id is
taken for the old process.

Hazards no property covers: `cdp.ts:173`, a `close()` during the backoff of `connect()` does not stop the loop. The model
shows it, and no statement of the repository says otherwise. `network.ts:167`, a full map drops the redirect of a request it
holds: the entry is wrong by design of the limit, so `EntriesAgree` leaves such requests (`squeezed`) out. Two
commands that overlap may displace a browser's name in `chrome.pid`; `OrphanIsNamed` is about commands that wait
for each other, and `OwnBrowser` alone covers the overlap.

## Plan

1. `CDPConnection`: the registry of event handlers.
2. `ChromeSessions` with three sessions, once a constraint is found that loses no order of writers of `chrome.pid`.
3. Rendering of console arguments with the cache of object values; the screenshot.
