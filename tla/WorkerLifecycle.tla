----------------------------- MODULE WorkerLifecycle -----------------------------
(***************************************************************************)
(* daemon/worker.ts and daemon/lifecycle: one worker from its start to its *)
(* exit, with the browser it launches or borrows.  main() sets up Chrome,  *)
(* the CDP connection, the collectors and the page; a signal, the session  *)
(* timeout, a lost connection and an error of the setup each start a run   *)
(* of cleanupWorker(), and the first run to end exits the process.         *)
(*                                                                         *)
(* One thread: an action is the code between two awaits.  Left out: the    *)
(* telemetry itself, the retry delays, commands on stdin (DaemonServer).   *)
(***************************************************************************)
EXTENDS FiniteSets

CONSTANTS
    Runs,           \* runs of cleanupWorker(); bounds the events that start one
    Configs         \* what the worker may be started with

ASSUME ConfigsAssumption ==
    Configs \subseteq [external : BOOLEAN, dom : BOOLEAN, timeout : BOOLEAN]

VARIABLES
    config,
    setup,          \* where main() stands
    chromeProc,     \* the browser process
    chromeFile,     \* chrome.pid names it
    chrome, cdp,    \* the globals are set
    socket,         \* the WebSocket of the CDP connection
    run,            \* the runs of cleanupWorker
    domData,        \* the DOM snapshot is in the telemetry store
    output,         \* session.json as this worker has written it
    exited,
    stopped,        \* the daemon has carried out a stop
    lost            \* the browser has failed a snapshot or ended the connection

globals == <<chrome, cdp>>
results == <<domData, output, exited>>
vars == <<config, setup, chromeProc, chromeFile, globals, socket, run, results,
          stopped, lost>>

SetupStates ==
    {"start", "launch", "target", "connect", "collect", "navigate", "readiness",
     "active", "failed"}
Reasons == {"normal", "crash", "timeout"}
NoRun == [at |-> "none", reason |-> "crash", chrome |-> FALSE, cdp |-> FALSE]

TypeOK ==
    /\ config \in Configs
    /\ setup \in SetupStates
    /\ chromeProc \in {"none", "running", "dying", "dead"}
    /\ chromeFile \in BOOLEAN /\ chrome \in BOOLEAN /\ cdp \in BOOLEAN
    /\ socket \in {"none", "open", "closed"}
    /\ run \in [Runs -> [at : {"none", "dom", "wait", "force", "done"},
                         reason : Reasons, chrome : BOOLEAN, cdp : BOOLEAN]]
    /\ domData \in BOOLEAN
    /\ output \in {"none", "partial", "complete"}
    /\ exited \in {"no", "clean", "signal", "killed"}
    /\ stopped \in BOOLEAN /\ lost \in BOOLEAN

\* A borrowed browser runs already.
Init ==
    /\ config \in Configs
    /\ setup = "start"
    /\ chromeProc = IF config.external THEN "running" ELSE "none"
    /\ chromeFile = FALSE /\ chrome = FALSE /\ cdp = FALSE
    /\ socket = "none"
    /\ run = [r \in Runs |-> NoRun]
    /\ domData = FALSE /\ output = "none" /\ exited = "no"
    /\ stopped = FALSE /\ lost = FALSE

Up == exited = "no"

(***************************************************************************)
(* cleanupWorker().                                                        *)
(***************************************************************************)
\* Mutant: session.json says why the cleanup began.
FinishReason(r, ctx) ==
    /\ run' = [run EXCEPT ![r] = [ctx EXCEPT !.at = "done"]]
    /\ output' = ctx.reason
    /\ exited' = "clean"

\* writeOutput, then process.exit when the run has returned.
Finish(r, ctx) ==
    /\ run' = [run EXCEPT ![r] = [ctx EXCEPT !.at = "done"]]
    /\ output' = IF ctx.reason = "normal" THEN "complete" ELSE "partial"
    /\ exited' = "clean"

Signalled(proc) == IF proc = "running" THEN "dying" ELSE proc

\* Mutant: only a stop waits for Chrome and kills it.
CloseAndKillOnStop(r, ctx) ==
    IF ctx.chrome /\ ctx.reason = "normal"
    THEN /\ chromeProc' = Signalled(chromeProc)
         /\ run' = [run EXCEPT ![r] = [ctx EXCEPT !.at = "wait"]]
         /\ UNCHANGED <<output, exited>>
    ELSE /\ Finish(r, ctx)
         /\ UNCHANGED chromeProc

\* Close the connection, if the context has it, then kill Chrome and wait.
CloseAndKill(r, ctx) ==
    IF ctx.chrome
    THEN /\ chromeProc' = Signalled(chromeProc)
         /\ run' = [run EXCEPT ![r] = [ctx EXCEPT !.at = "wait"]]
         /\ UNCHANGED <<output, exited>>
    ELSE /\ Finish(r, ctx)
         /\ UNCHANGED chromeProc

\* Mutant: the connection is closed before the snapshot.
BeginByClosing(reason) ==
    \E r \in Runs :
        LET ctx == [at |-> "dom", reason |-> reason, chrome |-> chrome, cdp |-> cdp]
            snapshot == reason = "normal" /\ config.dom /\ cdp
        IN  /\ run[r].at = "none"
            /\ chromeFile' = (chromeFile \/ chrome)
            /\ IF snapshot
               THEN /\ run' = [run EXCEPT ![r] = ctx]
                    /\ UNCHANGED <<chromeProc, output, exited>>
               ELSE CloseAndKill(r, ctx)
            /\ socket' = IF cdp THEN "closed" ELSE socket
            /\ UNCHANGED <<config, globals, domData>>

Begin(reason) ==
    \E r \in Runs :
        LET ctx == [at |-> "dom", reason |-> reason, chrome |-> chrome, cdp |-> cdp]
            snapshot == reason = "normal" /\ config.dom /\ cdp
        IN  /\ run[r].at = "none"
            /\ chromeFile' = (chromeFile \/ chrome)
            /\ IF snapshot
               THEN /\ run' = [run EXCEPT ![r] = ctx]
                    /\ UNCHANGED <<chromeProc, output, exited>>
               ELSE CloseAndKill(r, ctx)
            /\ socket' = IF cdp /\ ~snapshot THEN "closed" ELSE socket
            /\ UNCHANGED <<config, globals, domData>>

\* collectDOM ends: with a snapshot, or with the error of a call, which the
\* connection or its 5 s timeouts give.
CollectDOM(r) ==
    /\ Up /\ run[r].at = "dom"
    /\ \/ socket = "open" /\ domData' = TRUE /\ UNCHANGED lost
       \/ /\ UNCHANGED domData
          /\ lost' = (lost \/ socket = "open")
    /\ CloseAndKill(r, run[r])
    /\ socket' = "closed"
    /\ UNCHANGED <<config, setup, chromeFile, globals, stopped>>

\* terminateChrome: Chrome is seen dead.
ChromeSeenDead(r) ==
    /\ Up /\ run[r].at = "wait" /\ chromeProc = "dead"
    /\ Finish(r, run[r])
    /\ UNCHANGED <<config, setup, chromeProc, chromeFile, globals, socket, domData,
                   stopped, lost>>

\* Mutant: the wait for Chrome has no end.
ForceKillNever(r) == FALSE

\* It survives ten polls: SIGKILL and 500 ms more.
ForceKill(r) ==
    /\ Up /\ run[r].at = "wait" /\ chromeProc # "dead"
    /\ chromeProc' = Signalled(chromeProc)
    /\ run' = [run EXCEPT ![r].at = "force"]
    /\ UNCHANGED <<config, setup, chromeFile, globals, socket, results, stopped, lost>>

ForceWaitEnds(r) ==
    /\ Up /\ run[r].at = "force"
    /\ Finish(r, run[r])
    /\ UNCHANGED <<config, setup, chromeProc, chromeFile, globals, socket, domData,
                   stopped, lost>>

(***************************************************************************)
(* main().                                                                 *)
(***************************************************************************)
\* main() goes on to its next await and changes nothing else.
Proceed(from, to) ==
    /\ Up /\ setup = from
    /\ setup' = to
    /\ UNCHANGED <<config, run, results, stopped, lost>>

\* parseWorkerConfig and writePid; an external Chrome needs no launch.
Start ==
    /\ Proceed("start", IF config.external THEN "connect" ELSE "launch")
    /\ UNCHANGED <<chromeProc, chromeFile, globals, socket>>

SpawnChrome ==
    /\ Up /\ setup = "launch" /\ chromeProc = "none"
    /\ chromeProc' = "running"
    /\ UNCHANGED <<config, setup, chromeFile, globals, socket, run, results, stopped, lost>>

\* launchChrome returns; chrome.pid is written.
ChromeReady ==
    /\ chromeProc = "running"
    /\ Proceed("launch", "target")
    /\ chromeFile' = TRUE
    /\ UNCHANGED <<chromeProc, globals, socket>>

\* A page target: setupChromeConnection returns and the global is set.
FindTarget ==
    /\ chromeProc = "running"
    /\ Proceed("target", "connect")
    /\ chrome' = TRUE
    /\ UNCHANGED <<chromeProc, chromeFile, cdp, socket>>

Connect ==
    /\ chromeProc = "running"
    /\ Proceed("connect", "collect")
    /\ socket' = "open"
    /\ UNCHANGED <<chromeProc, chromeFile, globals>>

\* startTelemetryCollectors, then Page.navigate: calls on the connection.
Collect ==
    /\ socket = "open"
    /\ Proceed("collect", "navigate")
    /\ UNCHANGED <<chromeProc, chromeFile, globals, socket>>

Navigate ==
    /\ socket = "open"
    /\ Proceed("navigate", "readiness")
    /\ UNCHANGED <<chromeProc, chromeFile, globals, socket>>

\* waitForPageReady and fetchCDPTargets never throw: whatever has happened,
\* main() publishes the connection, sends worker_ready, installs the handlers.
BecomeReady ==
    /\ Proceed("readiness", "active")
    /\ cdp' = TRUE
    /\ UNCHANGED <<chromeProc, chromeFile, chrome, socket>>

\* Mutant: a launch has no timeout and its failure is not noticed.
SetupFailsButLaunch ==
    /\ Up /\ setup \in {"start", "target", "connect", "collect", "navigate"}
    /\ setup' = "failed"
    /\ Begin("crash")
    /\ UNCHANGED <<stopped, lost>>

\* Any step before that may throw.  A launch that fails has killed what it
\* spawned.
SetupFails ==
    /\ Up /\ setup \in {"start", "launch", "target", "connect", "collect", "navigate"}
    /\ setup' = "failed"
    /\ IF setup = "launch"
       THEN \E r \in Runs :
               /\ run[r].at = "none"
               /\ Finish(r, [NoRun EXCEPT !.reason = "crash"])
               /\ chromeProc' = Signalled(chromeProc)
               /\ UNCHANGED <<config, chromeFile, globals, socket, domData>>
       ELSE Begin("crash")
    /\ UNCHANGED <<stopped, lost>>

(***************************************************************************)
(* Events.                                                                 *)
(***************************************************************************)
\* onDisconnect: an attempt to connect fails, or the connection is lost.
Disconnect ==
    /\ Up
    /\ \/ setup = "connect" /\ socket # "open"
       \/ socket = "open"
    /\ \E r \in Runs :
          LET ctx == [at |-> "wait", reason |-> "crash", chrome |-> chrome, cdp |-> cdp]
          IN  run[r].at = "none" /\ CloseAndKill(r, ctx)
    /\ socket' = "closed"
    /\ chromeFile' = (chromeFile \/ chrome)
    /\ lost' = TRUE
    /\ UNCHANGED <<config, setup, globals, domData, stopped>>

\* SIGTERM or SIGINT.  Until the handlers are installed it ends the process.
Signal ==
    /\ Up
    /\ IF setup = "active"
       THEN Begin("normal")
       ELSE /\ exited' = "signal"
            /\ UNCHANGED <<config, chromeProc, chromeFile, globals, socket, run, domData,
                           output>>
    /\ stopped' = (stopped \/ setup # "start")
    /\ UNCHANGED <<setup, lost>>

\* The session timeout, one timer.
SessionTimeout ==
    /\ Up /\ setup = "active" /\ config.timeout
    /\ \A r \in Runs : run[r].reason # "timeout"
    /\ Begin("timeout")
    /\ UNCHANGED <<setup, stopped, lost>>

\* SIGKILL: the ready timeout of the daemon, or the cleanup of a later start.
Killed ==
    /\ Up
    /\ exited' = "killed"
    /\ UNCHANGED <<config, setup, chromeProc, chromeFile, globals, socket, run, domData,
                   output, stopped, lost>>

\* The browser ends, asked to or not.
ChromeDies ==
    /\ chromeProc \in {"running", "dying"}
    /\ chromeProc' = "dead"
    /\ UNCHANGED <<config, setup, chromeFile, globals, socket, run, results, stopped, lost>>

MainStep ==
    \/ Start \/ SpawnChrome \/ ChromeReady \/ FindTarget \/ Connect
    \/ Collect \/ Navigate \/ BecomeReady \/ SetupFails

CleanupStep(r) ==
    CollectDOM(r) \/ ChromeSeenDead(r) \/ ForceKill(r) \/ ForceWaitEnds(r)

Next ==
    \/ MainStep
    \/ \E r \in Runs : CleanupStep(r)
    \/ Disconnect \/ Signal \/ SessionTimeout \/ Killed \/ ChromeDies

Spec == Init /\ [][Next]_vars

\* Every await of the setup and of a cleanup has a timeout.  The browser may
\* hang, survive and never lose its connection.
Fairness == WF_vars(MainStep) /\ \A r \in Runs : WF_vars(CleanupStep(r))

FairSpec == Spec /\ Fairness

(***************************************************************************)
(* Properties.                                                             *)
(***************************************************************************)
Begun(reason) == {r \in Runs : run[r].at # "none" /\ run[r].reason = reason}

\* What happens to the browser: one the worker has launched is recorded for a
\* later `bdg cleanup --aggressive` while it runs, and an orderly exit has asked
\* it to end, whichever run of the cleanup was first; a borrowed one is left
\* alone (docs/DOCKER.md:114).
BrowserIsAccounted ==
    /\ chromeProc = "running" /\ ~config.external /\ setup # "launch" => chromeFile
    /\ exited = "clean" /\ chrome => chromeProc # "running"
    /\ config.external => chromeProc # "dying"

\* If nothing but signals ended the session, session.json is the complete output,
\* with the DOM snapshot unless the browser failed to give it: a second signal
\* must not spoil the snapshot of the first.
StopIsComplete ==
    exited = "clean" /\ Begun("crash") = {} /\ Begun("timeout") = {} =>
        output = "complete" /\ (config.dom => domData \/ lost)

\* A cleanup, once begun, ends the process, though the browser may hang and
\* survive.
CleanupEnds == (\E r \in Runs : run[r].at # "none") ~> exited # "no"

\* main() comes to an end.
SetupEnds == <>(setup = "active" \/ exited # "no")

\* The setup comes to an end, and so does the process once a cleanup has begun.
WorkerEnds == CleanupEnds /\ SetupEnds

\* `bdg stop` writes the collected telemetry to session.json
\* (commands/stop.ts:64).
StopWritesOutput == stopped /\ exited \in {"clean", "signal"} => output # "none"
=============================================================================
