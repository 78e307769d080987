------------------------------ MODULE ChromeSessions ------------------------------
(***************************************************************************)
(* The browsers of successive sessions on one machine: the debugging port  *)
(* each is launched on (connection/launcher.ts, portReservation.ts), the   *)
(* one file chrome.pid that names a browser for later (session/chrome.ts), *)
(* and the commands and cleanups that read it, kill and clear it           *)
(* (session/cleanup.ts, commands/cleanup.ts, commands/stop.ts).            *)
(*                                                                         *)
(* WorkerLifecycle is one worker in detail; here a worker is the stage its *)
(* browser is at.  Each file operation and each look at a port is a step.  *)
(* External: Chrome, chrome-launcher and the other programs of the machine. *)
(***************************************************************************)
EXTENDS Naturals

CONSTANTS
    Sessions,       \* 1 .. n, in the order in which they begin
    Ports

Nobody == 0
Other  == 1000      \* any other program

ASSUME SessionsAssumption == Sessions \subseteq Nat \ {Nobody, Other} /\ Ports # {}

VARIABLES
    overlap,        \* commands may be typed while a session is starting
    daemon,         \* a daemon is up and can be reached
    sessionPid,     \* session.pid
    meta,           \* session.meta.json: whose chromePid it holds
    slot,           \* chrome.pid
    stage,          \* of each session's worker
    port,           \* the port each session was started with
    browser,        \* each session's Chrome process
    listener,       \* who listens on each port
    taken,          \* history: somebody took the port after Chrome was spawned
    by,             \* history: the sessions that wrote over a session's name
    cli             \* the command that is reading, killing and clearing

files == <<sessionPid, meta, slot, by>>
chromeVars == <<overlap, daemon, files, stage, port, browser, listener, taken, cli>>

Launching == {"begun", "spawn", "bind", "ready", "target", "connect"}
Stages == {"none", "up", "asked", "snapshot", "closing", "over", "lost"} \cup Launching

ChromeTypeOK ==
    /\ overlap \in BOOLEAN /\ daemon \in BOOLEAN
    /\ {sessionPid, meta, slot} \subseteq Sessions \cup {Nobody}
    /\ stage \in [Sessions -> Stages]
    /\ browser \in [Sessions -> {"none", "running", "dying", "dead"}]
    /\ \A p \in Ports : listener[p] \in Sessions => browser[listener[p]] \in {"running", "dying"}

NoCommand == [at |-> "idle", signal |-> "", target |-> Nobody]

ChromeInit ==
    /\ overlap \in BOOLEAN
    /\ daemon = FALSE
    /\ sessionPid = Nobody /\ meta = Nobody /\ slot = Nobody
    /\ stage = [s \in Sessions |-> "none"]
    /\ port = [s \in Sessions |-> CHOOSE p \in Ports : TRUE]
    /\ browser = [s \in Sessions |-> "none"]
    /\ listener = [p \in Ports |-> Nobody]
    /\ taken = [s \in Sessions |-> FALSE]
    /\ by = [s \in Sessions |-> {}]
    /\ cli = NoCommand

WorkerAlive(s) == s # Nobody /\ stage[s] \notin {"none", "over", "lost"}
Living(s) == s # Nobody /\ browser[s] \in {"running", "dying"}

\* A command waits for the one before; without overlap also for a start.
Free ==
    /\ cli = NoCommand
    /\ overlap \/ \A s \in Sessions : stage[s] \notin Launching

\* Between the spawn of its Chrome and the search for a page on the port.
Exposed(s) == stage[s] \in {"bind", "ready", "target"}

To(s, next) == stage' = [stage EXCEPT ![s] = next]

Freed(S) == listener' = [p \in Ports |-> IF listener[p] \in S THEN Nobody ELSE listener[p]]

\* Mutant: what is killed still listens.
KillListening(S) ==
    /\ browser' = [s \in Sessions |-> IF s \in S /\ Living(s) THEN "dead" ELSE browser[s]]
    /\ UNCHANGED listener

\* SIGKILL ends a browser, SIGTERM asks it to end.
Kill(S) ==
    /\ browser' = [s \in Sessions |-> IF s \in S /\ Living(s) THEN "dead" ELSE browser[s]]
    /\ Freed(S)
Terminate(S) ==
    /\ browser' = [s \in Sessions |-> IF s \in S /\ browser[s] = "running" THEN "dying" ELSE browser[s]]
    /\ UNCHANGED listener

WriteChromePid(s) ==
    /\ slot' = s
    /\ by' = IF slot = s \/ ~Living(slot) THEN by ELSE [by EXCEPT ![slot] = @ \cup {s}]

\* The name of a living browser, or none: a stale name is removed by the reader.
ReadChromePid == IF Living(slot) THEN slot ELSE Nobody

(***************************************************************************)
(* The daemon and the beginning of a session.                              *)
(***************************************************************************)
\* Any invocation finds no daemon and launches one.  cleanupStaleSession kills
\* the browser chrome.pid names and a worker left alone, and removes the files.
LaunchDaemon ==
    /\ ~daemon /\ Free
    /\ daemon' = TRUE
    /\ Kill({ReadChromePid} \ {Nobody})
    /\ slot' = Nobody /\ sessionPid' = Nobody /\ meta' = Nobody
    /\ stage' = [s \in Sessions |->
                    IF s = sessionPid /\ WorkerAlive(s)
                    THEN (IF stage[s] \in {"bind", "ready"} THEN "lost" ELSE "over")
                    ELSE stage[s]]
    /\ UNCHANGED <<overlap, by, port, taken, cli>>

DaemonDies ==
    /\ daemon
    /\ daemon' = FALSE
    /\ UNCHANGED <<overlap, files, stage, port, browser, listener, taken, cli>>

\* handleStartSession: no living worker is on record.
StartSession(s) ==
    /\ daemon /\ Free
    /\ stage[s] = "none" /\ \A t \in Sessions : t < s => stage[t] # "none"
    /\ ~WorkerAlive(sessionPid)
    /\ To(s, "begun")
    /\ \E p \in Ports : port' = [port EXCEPT ![s] = p]
    /\ UNCHANGED <<overlap, daemon, files, browser, listener, taken, cli>>

(***************************************************************************)
(* launchChrome.                                                           *)
(***************************************************************************)
\* The worker writes session.pid; reservePort binds the port and releases it.
ReservePort(s) ==
    /\ stage[s] = "begun"
    /\ sessionPid' = s
    /\ To(s, IF listener[port[s]] = Nobody THEN "spawn" ELSE "over")
    /\ UNCHANGED <<overlap, daemon, meta, slot, by, port, browser, listener, taken, cli>>

\* Mutant: a browser chrome-launcher finds there, without a pid, will do.
SpawnOrReuse(s) ==
    /\ stage[s] = "spawn"
    /\ IF listener[port[s]] = Nobody
       THEN browser' = [browser EXCEPT ![s] = "running"] /\ To(s, "bind")
       ELSE UNCHANGED browser /\ To(s, "target")
    /\ UNCHANGED <<overlap, daemon, files, port, listener, taken, cli>>

\* chrome-launcher takes whatever listens there already for a browser to use:
\* it has no pid then, and launchChrome throws.
Spawn(s) ==
    /\ stage[s] = "spawn"
    /\ IF listener[port[s]] = Nobody
       THEN browser' = [browser EXCEPT ![s] = "running"] /\ To(s, "bind")
       ELSE UNCHANGED browser /\ To(s, "over")
    /\ UNCHANGED <<overlap, daemon, files, port, listener, taken, cli>>

\* Chrome takes its port; if it cannot it runs on without.
Bind(s) ==
    /\ stage[s] = "bind" /\ browser[s] = "running"
    /\ listener' = [listener EXCEPT ![port[s]] = IF @ = Nobody THEN s ELSE @]
    /\ taken' = [t \in Sessions |->
                    taken[t] \/ (t # s /\ Exposed(t) /\ port[t] = port[s])]
    /\ To(s, "ready")
    /\ UNCHANGED <<overlap, daemon, files, port, browser, cli>>

\* Mutant: the browser is not recorded.
ReadyUnrecorded(s) ==
    /\ stage[s] = "ready" /\ listener[port[s]] # Nobody
    /\ To(s, "target")
    /\ UNCHANGED <<overlap, daemon, files, port, browser, listener, taken, cli>>

\* waitUntilReady sees somebody listen and the process lives.
Ready(s) ==
    /\ stage[s] = "ready" /\ listener[port[s]] # Nobody /\ Living(s)
    /\ WriteChromePid(s)
    /\ To(s, "target")
    /\ UNCHANGED <<overlap, daemon, sessionPid, meta, port, browser, listener, taken, cli>>

\* Nobody listens in time, or the process is dead: kill what was spawned.
LaunchFails(s) ==
    /\ stage[s] \in {"bind", "ready"}
    /\ Kill({s})
    /\ To(s, "over")
    /\ taken' = [taken EXCEPT ![s] = FALSE]
    /\ UNCHANGED <<overlap, daemon, files, port, cli>>

\* fetchCDPTargets asks whoever listens on the port; with no page target the
\* error leaves the browser to itself.
FetchTargets(s) ==
    /\ stage[s] = "target"
    /\ \/ listener[port[s]] # Nobody /\ To(s, "connect")
       \/ To(s, "over")
    /\ taken' = [taken EXCEPT ![s] = FALSE]
    /\ UNCHANGED <<overlap, daemon, files, port, browser, listener, cli>>

\* The session is set up and its metadata written.
SessionUp(s) ==
    /\ stage[s] = "connect"
    /\ meta' = s
    /\ To(s, "up")
    /\ UNCHANGED <<overlap, daemon, sessionPid, slot, by, port, browser, listener, taken, cli>>

(***************************************************************************)
(* The end of a worker.                                                    *)
(***************************************************************************)
\* cleanupWorker writes chrome.pid first; after a stop it takes its snapshot
\* before it kills the browser.
CleanupBegins(s) ==
    /\ stage[s] \in {"connect", "up", "asked"}
    /\ WriteChromePid(s)
    /\ IF stage[s] = "asked"
       THEN To(s, "snapshot") /\ UNCHANGED <<browser, listener>>
       ELSE To(s, "closing") /\ Terminate({s})
    /\ UNCHANGED <<overlap, daemon, sessionPid, meta, port, taken, cli>>

SnapshotEnds(s) ==
    /\ stage[s] = "snapshot"
    /\ Terminate({s})
    /\ To(s, "closing")
    /\ UNCHANGED <<overlap, daemon, files, port, taken, cli>>

WorkerExits(s) ==
    /\ stage[s] = "closing"
    /\ To(s, "over")
    /\ UNCHANGED <<overlap, daemon, files, port, browser, listener, taken, cli>>

\* A crash, a kill: the worker leaves its browser as it is.
WorkerDies(s) ==
    /\ WorkerAlive(s)
    /\ To(s, IF stage[s] \in {"bind", "ready"} THEN "lost" ELSE "over")
    /\ UNCHANGED <<overlap, daemon, files, port, browser, listener, taken, cli>>

(***************************************************************************)
(* The commands.                                                           *)
(***************************************************************************)
\* bdg stop: the daemon reads the metadata, signals the worker, which has its
\* handlers once the session is up, removes the files and goes.
Stop(kill) ==
    /\ daemon /\ Free
    /\ WorkerAlive(sessionPid)
    /\ cli' = IF kill /\ meta # Nobody THEN [at |-> "kill", signal |-> "SIGTERM", target |-> meta] ELSE NoCommand
    /\ To(sessionPid, CASE stage[sessionPid] = "up" -> "asked"
                        [] stage[sessionPid] \in {"bind", "ready"} -> "lost"
                        [] stage[sessionPid] \in Launching \ {"bind", "ready"} -> "over"
                        [] OTHER -> stage[sessionPid])
    /\ daemon' = FALSE
    /\ sessionPid' = Nobody /\ meta' = Nobody
    /\ UNCHANGED <<overlap, slot, by, port, browser, listener, taken>>

\* bdg cleanup --aggressive; any command ensures a daemon first (what it does
\* with the session files is in DaemonStartup).
CleanupStaleChrome ==
    /\ daemon /\ Free
    /\ slot' = ReadChromePid
    /\ cli' = IF ReadChromePid = Nobody THEN NoCommand
              ELSE [at |-> "kill", signal |-> "SIGKILL", target |-> ReadChromePid]
    /\ UNCHANGED <<overlap, daemon, sessionPid, meta, by, stage, port, browser, listener, taken>>

\* killChromeProcess throws if the process is gone; the name stays then.
KillChromeProcess ==
    /\ cli.at = "kill"
    /\ IF Living(cli.target)
       THEN /\ cli' = [cli EXCEPT !.at = "clear"]
            /\ IF cli.signal = "SIGKILL" THEN Kill({cli.target}) ELSE Terminate({cli.target})
       ELSE cli' = NoCommand /\ UNCHANGED <<browser, listener>>
    /\ UNCHANGED <<overlap, daemon, files, stage, port, taken>>

\* clearChromePid, whatever the file names by now.
ClearChromePid ==
    /\ cli.at = "clear"
    /\ slot' = Nobody
    /\ cli' = NoCommand
    /\ UNCHANGED <<overlap, daemon, sessionPid, meta, by, stage, port, browser, listener, taken>>

(***************************************************************************)
(* The machine.                                                            *)
(***************************************************************************)
ChromeProcessEnds(s) ==
    /\ Living(s)
    /\ Kill({s})
    /\ UNCHANGED <<overlap, daemon, files, stage, port, taken, cli>>

OtherTakesPort(p) ==
    /\ listener[p] = Nobody
    /\ listener' = [listener EXCEPT ![p] = Other]
    /\ taken' = [s \in Sessions |-> taken[s] \/ (Exposed(s) /\ port[s] = p)]
    /\ UNCHANGED <<overlap, daemon, files, stage, port, browser, cli>>

OtherLeavesPort(p) ==
    /\ listener[p] = Other
    /\ listener' = [listener EXCEPT ![p] = Nobody]
    /\ UNCHANGED <<overlap, daemon, files, stage, port, browser, taken, cli>>

ChromeNext ==
    \/ LaunchDaemon \/ DaemonDies
    \/ \E s \in Sessions :
           \/ StartSession(s) \/ ReservePort(s) \/ Spawn(s) \/ Bind(s) \/ Ready(s) \/ LaunchFails(s)
           \/ FetchTargets(s) \/ SessionUp(s)
           \/ CleanupBegins(s) \/ SnapshotEnds(s) \/ WorkerExits(s) \/ WorkerDies(s)
           \/ ChromeProcessEnds(s)
    \/ \E kill \in BOOLEAN : Stop(kill)
    \/ CleanupStaleChrome \/ KillChromeProcess \/ ClearChromePid
    \/ \E p \in Ports : OtherTakesPort(p) \/ OtherLeavesPort(p)

ChromeSpec == ChromeInit /\ [][ChromeNext]_chromeVars

(***************************************************************************)
(* Properties.                                                             *)
(***************************************************************************)
\* A browser bdg launched that nobody has asked to end and whose worker is gone.
Orphan(s) == browser[s] = "running" /\ stage[s] = "over" /\ listener[port[s]] = s

\* chrome.pid has room for one name, and any start may write over it.  Of
\* commands that wait for each other none loses an orphan that keeps its port,
\* so that bdg cleanup --aggressive finds it: only a session on another port, or
\* the late cleanup of an earlier session, takes its place.  (A worker killed
\* while Chrome comes up has not recorded it yet.)
OrphanIsNamed ==
    ~overlap =>
        \A s \in Sessions : Orphan(s) =>
            slot = s \/ \E t \in by[s] : port[t] # port[s] \/ t < s

\* A worker talks to the browser it launched.  The port is free for a moment
\* between its reservation and Chrome's own bind; whoever takes it before Chrome
\* is spawned is noticed; whoever takes it before Chrome has it, or after Chrome
\* has died, until the worker asks for a page there, is not.
OwnBrowser ==
    [][\A s \in Sessions :
           stage[s] = "target" /\ stage'[s] = "connect" => listener[port[s]] = s \/ taken[s]]_chromeVars
=============================================================================
