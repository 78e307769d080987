------------------------------ MODULE DaemonStartup ------------------------------
(***************************************************************************)
(* How CLI processes find or launch the daemon, and how daemons come and   *)
(* go, through the files of ~/.bdg: two lock files, daemon.pid and         *)
(* daemon.sock.                                                            *)
(*                                                                         *)
(* index.ts ensureDaemonRunning, daemon/launcher.ts, session/lock.ts,      *)
(* session/cleanup.ts, commands/cleanup.ts, daemon.ts, daemon/ipcServer.ts *)
(* start and stop, and the exit path of handleStopSession.                 *)
(*                                                                         *)
(* These are separate processes, so a step is one file-system call.  A     *)
(* file's content is the process whose id it holds; for the socket, the    *)
(* daemon that bound it.  Process ids are not reused.  Of the file         *)
(* session.pid only matters whether it is there and whether the worker it  *)
(* names lives: a worker that ends leaves it behind.                       *)
(***************************************************************************)
EXTENDS Naturals, FiniteSets

CONSTANTS
    Clis,           \* bdg invocations
    Daemons,        \* daemon processes they may spawn, in all
    Absent,         \* no such file, no such process
    Scenarios       \* what a behaviour may contain, one of these:
                    \*   overlap    an invocation may begin while a start is under way
                    \*   cleanup    invocations of bdg cleanup: none, plain or with --force
                    \*   starts     bound: how many invocations begin
                    \*   crashes    bound: processes that die without cleaning up

ASSUME ScenariosAssumption ==
    Scenarios \subseteq 
        [overlap : BOOLEAN, cleanup : {"none", "plain", "force"}, starts : Nat, crashes : Nat]
ASSUME ProcessesAssumption ==
    Clis \cap Daemons = {} /\ Absent \notin Clis \cup Daemons

VARIABLES
    at,         \* the next step of every process
    file,       \* the owner of every file
    blank,      \* lock files created whose pid is not written yet
    lock,       \* the lock acquireLock() is called for
    again,      \* cleanupStaleSession() acquires the session lock a second time
    child,      \* the daemon a CLI has spawned
    signalled,  \* daemons with a SIGTERM to handle
    session,    \* session.pid: none, or its worker is alive or dead
    crashes,
    swept,      \* history: live daemons that bdg cleanup has taken a file from
    scenario

local == <<lock, again, child>>
history == <<crashes, swept, scenario>>
vars == <<at, file, blank, local, signalled, session, history>>

Procs == Clis \cup Daemons
Locks == {"DAEMON_LOCK", "LOCK"}
Files == Locks \cup {"DAEMON_PID", "DAEMON_SOCKET"}

\* Steps that only remove a file, whoever's it is, and what comes next: in
\* cleanupStaleSession() and on the error path of launchDaemon() ...
CleanupRemoval ==
    [drop        |-> [file |-> "LOCK",          next |-> "create"],
     cleanPid    |-> [file |-> "DAEMON_PID",    next |-> "cleanSocket"],
     cleanSocket |-> [file |-> "DAEMON_SOCKET", next |-> "cleanLock"],
     cleanLock   |-> [file |-> "DAEMON_LOCK",   next |-> "unlock"],
     unlock      |-> [file |-> "LOCK",          next |-> "verify"]]

AbortRemoval ==
    [abortRunning |-> [file |-> "DAEMON_LOCK", next |-> "running"],
     abortTimeout |-> [file |-> "DAEMON_LOCK", next |-> "timedOut"]]

\* ... in cleanupSession() on behalf of bdg cleanup, after session.pid ...
SweepRemoval ==
    [sweepLock   |-> [file |-> "LOCK",          next |-> "sweepPid"],
     sweepPid    |-> [file |-> "DAEMON_PID",    next |-> "sweepSocket"],
     sweepSocket |-> [file |-> "DAEMON_SOCKET", next |-> "sweepDLock"],
     sweepDLock  |-> [file |-> "DAEMON_LOCK",   next |-> "gone"]]

\* Mutants of the next two: the daemon releases the wrong lock; it does not
\* exit after a stop.
StartRemovalWrongLock ==
    [unlinkSocket |-> [file |-> "DAEMON_SOCKET", next |-> "bind"],
     release      |-> [file |-> "LOCK",          next |-> "up"]]

StopRemovalStaysUp ==
    [quitSession |-> [file |-> "LOCK",          next |-> "quitPid"],
     quitPid     |-> [file |-> "DAEMON_PID",    next |-> "quitSocket"],
     quitSocket  |-> [file |-> "DAEMON_SOCKET", next |-> "quitLock"],
     quitLock    |-> [file |-> "DAEMON_LOCK",   next |-> "quitRelease"],
     quitRelease |-> [file |-> "DAEMON_LOCK",   next |-> "up"]]

\* ... in the daemon's start, in its exit after a stop request, on SIGTERM.
StartRemoval ==
    [unlinkSocket |-> [file |-> "DAEMON_SOCKET", next |-> "bind"],
     release      |-> [file |-> "DAEMON_LOCK",   next |-> "up"]]

StopRemoval ==
    [quitSession |-> [file |-> "LOCK",          next |-> "quitPid"],
     quitPid     |-> [file |-> "DAEMON_PID",    next |-> "quitSocket"],
     quitSocket  |-> [file |-> "DAEMON_SOCKET", next |-> "quitLock"],
     quitLock    |-> [file |-> "DAEMON_LOCK",   next |-> "quitRelease"],
     quitRelease |-> [file |-> "DAEMON_LOCK",   next |-> "linger"]]

TermRemoval ==
    [termSocket |-> [file |-> "DAEMON_SOCKET", next |-> "termPid"],
     termPid    |-> [file |-> "DAEMON_PID",    next |-> "gone"]]

\* The ways an invocation of bdg ends before its command runs.
Failed == {"busy", "running", "timedOut"}
Dead == Failed \cup {"idle", "unused", "gone"}

CliSteps == DOMAIN CleanupRemoval \cup DOMAIN AbortRemoval \cup DOMAIN SweepRemoval \cup Dead \cup
    {"create", "write", "inspect", "unlinkStale", "recheck", "judge", "cleanSession", "verify",
     "spawn", "wait", "ready", "cleanup", "dropPid", "sweep"}
DaemonSteps == DOMAIN StartRemoval \cup DOMAIN StopRemoval \cup DOMAIN TermRemoval \cup
    {"unused", "bind", "writePid", "up", "linger", "gone"}

TypeOK ==
    /\ at \in [Procs -> CliSteps \cup DaemonSteps]
    /\ \A c \in Clis : at[c] \in CliSteps
    /\ \A d \in Daemons : at[d] \in DaemonSteps
    /\ file \in [Files -> Procs \cup {Absent}]
    /\ \A f \in Locks : file[f] \in Clis \cup {Absent}
    /\ file["DAEMON_PID"] \in Daemons \cup {Absent}
    /\ file["DAEMON_SOCKET"] \in Daemons \cup {Absent}
    /\ blank \subseteq Locks
    /\ lock \in [Clis -> Locks]
    /\ again \in [Clis -> BOOLEAN]
    /\ child \in [Clis -> Daemons \cup {Absent}]
    /\ signalled \subseteq Daemons
    /\ session \in {"none", "alive", "dead"}
    /\ scenario \in Scenarios
    /\ crashes \in 0..scenario.crashes
    /\ swept \subseteq Daemons

Init ==
    /\ at = [p \in Procs |-> IF p \in Clis THEN "idle" ELSE "unused"]
    /\ file = [f \in Files |-> Absent]
    /\ blank = {}
    /\ lock = [c \in Clis |-> "DAEMON_LOCK"]
    /\ again = [c \in Clis |-> FALSE]
    /\ child = [c \in Clis |-> Absent]
    /\ signalled = {}
    /\ session = "none"
    /\ crashes = 0
    /\ swept = {}
    /\ scenario \in Scenarios

\* isProcessAlive() of the process a file names.
Alive(p) == p # Absent /\ at[p] \notin Dead
\* Mutant: the owner of a file counts as alive whenever it is named.
LiveIfNamed(f) == f \notin blank /\ file[f] # Absent

Live(f) == f \notin blank /\ Alive(file[f])

Go(p, step) == at' = [at EXCEPT ![p] = step]

\* No start is under way.  A daemon that has answered a stop counts as gone,
\* though it still has a lock to release and lingers for 100 ms; a CLI whose
\* daemon died before it released the daemon lock counts until it ends.
Quiet ==
    /\ \A c \in Clis : at[c] \in Dead \/ (at[c] = "ready" /\ file["DAEMON_LOCK"] # c)
    /\ \A d \in Daemons : at[d] \in {"unused", "up", "quitRelease", "linger", "gone"}

(***************************************************************************)
(* Removing a file: rmSync with force, or unlinkSync with its error        *)
(* ignored.                                                                *)
(***************************************************************************)
RemoveFile(f) == file' = [file EXCEPT ![f] = Absent] /\ blank' = blank \ {f}

Removes(p, table) ==
    /\ at[p] \in DOMAIN table
    /\ RemoveFile(table[at[p]].file)
    /\ Go(p, table[at[p]].next)
    /\ UNCHANGED <<local, signalled, session, crashes, scenario>>

CleanupRemoves(c) == Removes(c, CleanupRemoval) /\ UNCHANGED swept
AbortRemoves(c) == Removes(c, AbortRemoval) /\ UNCHANGED swept
StartRemoves(d) == Removes(d, StartRemoval) /\ UNCHANGED swept
StopRemoves(d) == Removes(d, StopRemoval) /\ UNCHANGED swept
TermRemoves(d) == Removes(d, TermRemoval) /\ UNCHANGED swept

(***************************************************************************)
(* session/lock.ts.                                                        *)
(***************************************************************************)
Acquire(c, f, second) ==
    /\ Go(c, "create")
    /\ lock' = [lock EXCEPT ![c] = f]
    /\ again' = [again EXCEPT ![c] = second]

\* writeFileSync with flag wx opens the file (O_EXCL) ...
CreateLock(c) ==
    /\ at[c] = "create"
    /\ IF file[lock[c]] = Absent
       THEN /\ file' = [file EXCEPT ![lock[c]] = c]
            /\ blank' = blank \cup {lock[c]}
            /\ Go(c, "write")
       ELSE Go(c, "inspect") /\ UNCHANGED <<file, blank>>
    /\ UNCHANGED <<local, signalled, session, history>>

\* ... then writes the pid, into the file it opened, which may be unlinked by
\* now.  The daemon lock comes first, then the session lock for the cleanup.
WriteLock(c) ==
    /\ at[c] = "write"
    /\ blank' = IF file[lock[c]] = c THEN blank \ {lock[c]} ELSE blank
    /\ \/ lock[c] = "DAEMON_LOCK" /\ Acquire(c, "LOCK", FALSE)
       \/ lock[c] = "LOCK" /\ Go(c, "judge") /\ UNCHANGED <<lock, again>>
    /\ UNCHANGED <<file, child, signalled, session, history>>

\* handleExistingLock: a live owner keeps the lock; an unreadable pid or a dead
\* owner makes it stale.
InspectLock(c) ==
    /\ at[c] = "inspect"
    /\ IF ~Live(lock[c])
       THEN Go(c, "unlinkStale")
       ELSE Go(c, CASE lock[c] = "DAEMON_LOCK" -> "busy"
                    [] again[c]                -> "verify"
                    [] OTHER                   -> "recheck")
    /\ UNCHANGED <<file, blank, local, signalled, session, history>>

UnlinkStale(c) ==
    /\ at[c] = "unlinkStale"
    /\ RemoveFile(lock[c])
    /\ Go(c, "create")
    /\ UNCHANGED <<local, signalled, session, history>>

(***************************************************************************)
(* CLI: ensureDaemonRunning and launchDaemon.                              *)
(***************************************************************************)
\* Which of the invocations not made yet comes next makes no difference.
NextCli == CHOOSE c \in Clis : at[c] = "idle"

Start(c) ==
    /\ at[c] = "idle" /\ c = NextCli
    /\ scenario.overlap \/ Quiet
    /\ Cardinality({b \in Clis : at[b] # "idle"}) < scenario.starts
    /\ IF Live("DAEMON_PID")
       THEN Go(c, "ready") /\ UNCHANGED <<lock, again>>
       ELSE Acquire(c, "DAEMON_LOCK", FALSE)
    /\ UNCHANGED <<file, blank, child, signalled, session, history>>

\* cleanupStaleSession without the session lock looks at the owner once more:
\* give up, or drop the lock file and acquire again.
Recheck(c) ==
    /\ at[c] = "recheck"
    /\ Go(c, IF Live("LOCK") THEN "verify" ELSE "drop")
    /\ again' = [again EXCEPT ![c] = ~Live("LOCK")]
    /\ UNCHANGED <<file, blank, lock, child, signalled, session, history>>

\* With the lock: a live daemon stops the cleanup.  A worker without a daemon
\* is killed, but may still count as alive when its pid is tested again.
Judge(c) ==
    /\ at[c] = "judge"
    /\ \/ Live("DAEMON_PID") /\ Go(c, "unlock") /\ UNCHANGED session
       \/ /\ ~Live("DAEMON_PID") /\ session = "alive"
          /\ session' = "dead"
          /\ Go(c, "cleanSession") \/ Go(c, "unlock")
       \/ /\ ~Live("DAEMON_PID") /\ session # "alive"
          /\ Go(c, "cleanSession") /\ UNCHANGED session
    /\ UNCHANGED <<file, blank, local, signalled, history>>

CleanSession(c) ==
    /\ at[c] = "cleanSession"
    /\ session' = "none"
    /\ Go(c, "cleanPid")
    /\ UNCHANGED <<file, blank, local, signalled, history>>

Verify(c) ==
    /\ at[c] = "verify"
    /\ Go(c, IF Live("DAEMON_PID") THEN "abortRunning" ELSE "spawn")
    /\ UNCHANGED <<file, blank, local, signalled, session, history>>

\* Processes that have not run yet are interchangeable, so it spawns one of them.
Fresh == CHOOSE d \in Daemons : at[d] = "unused"

SpawnDaemon(c) ==
    /\ at[c] = "spawn"
    /\ \E d \in Daemons : at[d] = "unused"
    /\ at' = [at EXCEPT ![c] = "wait", ![Fresh] = "unlinkSocket"]
    /\ child' = [child EXCEPT ![c] = Fresh]
    /\ UNCHANGED <<file, blank, lock, again, signalled, session, history>>

SocketAppears(c) ==
    /\ at[c] = "wait"
    /\ file["DAEMON_SOCKET"] # Absent
    /\ Go(c, "ready")
    /\ UNCHANGED <<file, blank, local, signalled, session, history>>

\* Mutant: no deadline on the wait.
WaitForEver(c) == FALSE

\* After 5 s: SIGTERM to the daemon, which ends it before its handlers are
\* installed and is handled later otherwise.
WaitTimeout(c) ==
    /\ at[c] = "wait"
    /\ \/ /\ at[child[c]] \in {"unlinkSocket", "gone"}
          /\ at' = [at EXCEPT ![c] = "abortTimeout", ![child[c]] = "gone"]
          /\ UNCHANGED signalled
       \/ /\ at[child[c]] # "gone"
          /\ Go(c, "abortTimeout")
          /\ signalled' = signalled \cup {child[c]}
    /\ UNCHANGED <<file, blank, local, session, history>>

\* The command of an invocation that found its daemon is over.
Leave(c) ==
    /\ at[c] = "ready"
    /\ Go(c, "gone")
    /\ UNCHANGED <<file, blank, local, signalled, session, history>>

(***************************************************************************)
(* CLI: bdg cleanup.                                                       *)
(***************************************************************************)
\* It removes a daemon.pid whose daemon is dead ...
Cleanup(c) ==
    /\ at[c] = "ready" /\ scenario.cleanup # "none"
    /\ Go(c, IF file["DAEMON_PID"] # Absent /\ ~Live("DAEMON_PID") THEN "dropPid" ELSE "sweep")
    /\ UNCHANGED <<file, blank, local, signalled, session, history>>

Sweeps(c, f, next) ==
    /\ RemoveFile(f)
    /\ swept' = swept \cup ({file[f]} \cap {d \in Daemons : Alive(d)})
    /\ Go(c, next)
    /\ UNCHANGED <<local, signalled, session, crashes, scenario>>

DropPid(c) == at[c] = "dropPid" /\ Sweeps(c, "DAEMON_PID", "sweep")

\* ... and, if session.pid is there, everything cleanupSession() removes: for a
\* live worker only with --force.  It does not ask whether a daemon lives.
Sweep(c) ==
    /\ at[c] = "sweep"
    /\ IF session = "dead" \/ (session = "alive" /\ scenario.cleanup = "force")
       THEN session' = "none" /\ Go(c, "sweepLock")
       ELSE Go(c, "gone") /\ UNCHANGED session
    /\ UNCHANGED <<file, blank, local, signalled, history>>

SweepRemoves(c) ==
    /\ at[c] \in DOMAIN SweepRemoval
    /\ Sweeps(c, SweepRemoval[at[c]].file, SweepRemoval[at[c]].next)

(***************************************************************************)
(* Daemon.                                                                 *)
(***************************************************************************)
\* listen(): fails with EADDRINUSE if the path exists, and the daemon exits.
Bind(d) ==
    /\ at[d] = "bind"
    /\ IF file["DAEMON_SOCKET"] = Absent
       THEN file' = [file EXCEPT !["DAEMON_SOCKET"] = d] /\ Go(d, "writePid")
       ELSE Go(d, "gone") /\ UNCHANGED file
    /\ UNCHANGED <<blank, local, signalled, session, history>>

\* Mutants: a failed write is ignored; the id of the parent is written.
WritePidFileFails(d) ==
    /\ at[d] = "writePid"
    /\ Go(d, "release")
    /\ UNCHANGED <<file, blank, local, signalled, session, history>>

WriteParentPid(d) ==
    /\ at[d] = "writePid"
    /\ \E c \in Clis : child[c] = d /\ file' = [file EXCEPT !["DAEMON_PID"] = c]
    /\ Go(d, "release")
    /\ UNCHANGED <<blank, local, signalled, session, history>>

WritePidFile(d) ==
    /\ at[d] = "writePid"
    /\ file' = [file EXCEPT !["DAEMON_PID"] = d]
    /\ Go(d, "release")
    /\ UNCHANGED <<blank, local, signalled, session, history>>

\* A start request that reached this daemon has led to a session ...
BeginSession(d) ==
    /\ at[d] = "up" /\ file["DAEMON_SOCKET"] = d
    /\ session # "alive"
    /\ session' = "alive"
    /\ UNCHANGED <<at, file, blank, local, signalled, history>>

\* ... and a stop request ends it, and then the daemon.
StopSession(d) ==
    /\ at[d] = "up" /\ file["DAEMON_SOCKET"] = d
    /\ session = "alive"
    /\ session' = "none"
    /\ Go(d, "quitSession")
    /\ UNCHANGED <<file, blank, local, signalled, history>>

Exit(d) ==
    /\ at[d] = "linger"
    /\ Go(d, "gone")
    /\ UNCHANGED <<file, blank, local, signalled, session, history>>

HandleSigterm(d) ==
    /\ at[d] = "up" /\ d \in signalled
    /\ signalled' = signalled \ {d}
    /\ Go(d, "termSocket")
    /\ UNCHANGED <<file, blank, local, session, history>>

(***************************************************************************)
(* The worker of a session ends on its own, and any process may die.       *)
(***************************************************************************)
SessionEnds ==
    /\ session = "alive"
    /\ session' = "dead"
    /\ UNCHANGED <<at, file, blank, local, signalled, history>>

Crash(p) ==
    /\ Alive(p)
    /\ crashes < scenario.crashes
    /\ crashes' = crashes + 1
    /\ Go(p, "gone")
    /\ signalled' = signalled \ {p}
    /\ UNCHANGED <<file, blank, local, session, swept, scenario>>

CliStep(c) ==
    \/ CreateLock(c) \/ WriteLock(c) \/ InspectLock(c) \/ UnlinkStale(c)
    \/ Recheck(c) \/ Judge(c) \/ CleanSession(c) \/ Verify(c) \/ SpawnDaemon(c)
    \/ SocketAppears(c) \/ WaitTimeout(c) \/ CleanupRemoves(c) \/ AbortRemoves(c)
    \/ DropPid(c) \/ Sweep(c) \/ SweepRemoves(c)

DaemonStep(d) ==
    \/ StartRemoves(d) \/ Bind(d) \/ WritePidFile(d)
    \/ StopRemoves(d) \/ Exit(d) \/ HandleSigterm(d) \/ TermRemoves(d)

Next ==
    \/ \E c \in Clis : Start(c) \/ CliStep(c) \/ Leave(c) \/ Cleanup(c)
    \/ \E d \in Daemons : DaemonStep(d) \/ BeginSession(d) \/ StopSession(d)
    \/ \E p \in Procs : Crash(p)
    \/ SessionEnds

Spec == Init /\ [][Next]_vars

\* Processes run and the 5 s wait is timed.  Nobody has to invoke bdg, begin or
\* stop a session, or crash.
Fairness ==
    /\ \A c \in Clis : WF_vars(CliStep(c))
    /\ \A d \in Daemons : WF_vars(DaemonStep(d))

FairSpec == Spec /\ Fairness

(***************************************************************************)
(* Properties.                                                             *)
(***************************************************************************)
\* Every invocation gets past ensureDaemonRunning(), with a daemon or with an
\* error, however the lock files are raced for.
EveryLaunchEnds ==
    \A c \in Clis : at[c] = "create" ~> at[c] \in Failed \cup {"ready", "gone"}

\* No lock outlives the launch it protects: a CLI that runs its command holds no
\* session lock, and no daemon lock once the daemon it spawned is up
\* (launcher.ts:129, ipcServer.ts:223).
NoLeakedLock ==
    \A c \in Clis : at[c] = "ready" =>
        /\ file["LOCK"] # c
        /\ child[c] # Absent /\ at[child[c]] = "up" => file["DAEMON_LOCK"] # c

\* One daemon serves at a time (launcher.ts:8).
Serving(d) == at[d] \in {"writePid", "release", "up"}
OneDaemon == \A d, e \in Daemons : Serving(d) /\ Serving(e) => d = e

\* The rest holds when starts do not overlap and no live daemon has lost a file
\* to bdg cleanup.
Undisturbed == ~scenario.overlap /\ swept = {}

\* One daemon serves at a time.
SingleDaemon == Undisturbed => OneDaemon

\* A daemon that is up can be found and reached: daemon.pid names it and it
\* owns the socket, so no daemon is left running that bdg stop cannot reach.
Findable ==
    Undisturbed => \A d \in Daemons : at[d] = "up" =>
                       file["DAEMON_PID"] = d /\ file["DAEMON_SOCKET"] = d

\* Whatever crashes have left in ~/.bdg, an invocation is never refused for a
\* launch or a daemon that does not exist.
NeverRefused == Undisturbed => \A c \in Clis : at[c] \notin {"busy", "running"}

\* One daemon, and the files lead to it.
OneReachableDaemon == SingleDaemon /\ Findable

\* What launches leave behind, ended or crashed, does not block the next.
LeftoversAreHarmless == NeverRefused /\ NoLeakedLock
=============================================================================
