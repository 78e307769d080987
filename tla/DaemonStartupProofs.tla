--------------------------- MODULE DaemonStartupProofs ---------------------------
(***************************************************************************)
(* Proofs about DaemonStartup, for any invocations and daemons, any number *)
(* of crashes and any use of bdg cleanup: no launch leaks a lock; and when *)
(* starts do not overlap and no live daemon has lost a file to bdg cleanup,*)
(* there is one daemon, it can be reached, and nobody is refused for what  *)
(* is not there.                                                           *)
(***************************************************************************)
EXTENDS DaemonStartup, TLAPS

\* An invocation up to the spawn of its daemon, and until it has its answer.
Early ==
    DOMAIN CleanupRemoval \cup
    {"create", "write", "inspect", "unlinkStale", "recheck", "judge", "cleanSession", "verify", "spawn"}
Starting(c) == at[c] \in Early \cup {"wait", "abortRunning", "abortTimeout"}

\* A daemon that may still touch daemon.pid or the socket.
Active(d) == at[d] \notin {"unused", "quitRelease", "linger", "gone"}

\* A file names a process that has begun.
OwnersBegan == \A f \in Files : file[f] # Absent => at[file[f]] \notin {"idle", "unused"}

\* The session lock is held from its creation to "unlock", or was left by a crash.
SessionLockHeld ==
    \A c \in Clis : file["LOCK"] = c =>
        \/ at[c] \in {"judge", "cleanSession", "cleanPid", "cleanSocket", "cleanLock", "unlock", "gone"}
        \/ at[c] = "write" /\ lock[c] = "LOCK"

\* An invocation waits for a child; with a child it creates no lock any more;
\* and a child that is up has removed the daemon lock.
ChildReleases ==
    \A c \in Clis :
        /\ at[c] = "wait" => child[c] # Absent
        /\ child[c] # Absent =>
               /\ at[c] \notin Early \cup {"idle"}
               /\ at[child[c]] # "unused"
               /\ at[child[c]] = "up" => file["DAEMON_LOCK"] # c

\* One invocation starts at a time; until it spawns its daemon there is none,
\* and none is on record.
OneStart ==
    /\ \A b, c \in Clis : Starting(b) /\ Starting(c) => b = c
    /\ \A c \in Clis : at[c] \in Early =>
           /\ \A d \in Daemons : ~Active(d)
           /\ ~Alive(file["DAEMON_PID"])

\* It meets no daemon lock of a live process; when it looks at a lock once more
\* it is at the session lock.
DaemonLockIsStale ==
    \A c \in Clis :
        /\ at[c] \in {"create", "inspect", "unlinkStale"} /\ lock[c] = "DAEMON_LOCK" =>
               ~Alive(file["DAEMON_LOCK"])
        /\ at[c] \in {"recheck", "drop"} => lock[c] = "LOCK"

\* One daemon is active, and from its bind on the files are its own.
OneActive == \A d, e \in Daemons : Active(d) /\ Active(e) => d = e
FilesAreOwn ==
    \A d \in Daemons :
        /\ at[d] \in {"writePid", "release", "up"} => file["DAEMON_SOCKET"] = d
        /\ at[d] \in {"release", "up"} => file["DAEMON_PID"] = d

\* Nobody is refused, nor about to be.
NobodyRefused == \A c \in Clis : at[c] \notin {"busy", "abortRunning", "running"}

Orderly == OneStart /\ DaemonLockIsStale /\ OneActive /\ FilesAreOwn /\ NobodyRefused

IInv ==
    /\ TypeOK /\ OwnersBegan /\ SessionLockHeld /\ ChildReleases
    /\ Undisturbed => Orderly

\* The tables of removals, written out: which step removes what and leads where.
LEMMA CleanupTable ==
    ASSUME NEW p, at[p] \in DOMAIN CleanupRemoval
    PROVE  \/ /\ at[p] = "drop" /\ CleanupRemoval[at[p]].file = "LOCK"
              /\ CleanupRemoval[at[p]].next = "create"
           \/ /\ at[p] = "cleanPid" /\ CleanupRemoval[at[p]].file = "DAEMON_PID"
              /\ CleanupRemoval[at[p]].next = "cleanSocket"
           \/ /\ at[p] = "cleanSocket" /\ CleanupRemoval[at[p]].file = "DAEMON_SOCKET"
              /\ CleanupRemoval[at[p]].next = "cleanLock"
           \/ /\ at[p] = "cleanLock" /\ CleanupRemoval[at[p]].file = "DAEMON_LOCK"
              /\ CleanupRemoval[at[p]].next = "unlock"
           \/ /\ at[p] = "unlock" /\ CleanupRemoval[at[p]].file = "LOCK"
              /\ CleanupRemoval[at[p]].next = "verify"
  BY DEF CleanupRemoval

\* What a launcher that gives up removes.
LEMMA AbortTable ==
    ASSUME NEW p, at[p] \in DOMAIN AbortRemoval
    PROVE  \/ /\ at[p] = "abortRunning" /\ AbortRemoval[at[p]].file = "DAEMON_LOCK"
              /\ AbortRemoval[at[p]].next = "running"
           \/ /\ at[p] = "abortTimeout" /\ AbortRemoval[at[p]].file = "DAEMON_LOCK"
              /\ AbortRemoval[at[p]].next = "timedOut"
  BY DEF AbortRemoval

\* What bdg cleanup removes.
LEMMA SweepTable ==
    ASSUME NEW p, at[p] \in DOMAIN SweepRemoval
    PROVE  \/ /\ at[p] = "sweepLock" /\ SweepRemoval[at[p]].file = "LOCK"
              /\ SweepRemoval[at[p]].next = "sweepPid"
           \/ /\ at[p] = "sweepPid" /\ SweepRemoval[at[p]].file = "DAEMON_PID"
              /\ SweepRemoval[at[p]].next = "sweepSocket"
           \/ /\ at[p] = "sweepSocket" /\ SweepRemoval[at[p]].file = "DAEMON_SOCKET"
              /\ SweepRemoval[at[p]].next = "sweepDLock"
           \/ /\ at[p] = "sweepDLock" /\ SweepRemoval[at[p]].file = "DAEMON_LOCK"
              /\ SweepRemoval[at[p]].next = "gone"
  BY DEF SweepRemoval

\* What a starting daemon removes.
LEMMA StartTable ==
    ASSUME NEW p, at[p] \in DOMAIN StartRemoval
    PROVE  \/ /\ at[p] = "unlinkSocket" /\ StartRemoval[at[p]].file = "DAEMON_SOCKET"
              /\ StartRemoval[at[p]].next = "bind"
           \/ /\ at[p] = "release" /\ StartRemoval[at[p]].file = "DAEMON_LOCK"
              /\ StartRemoval[at[p]].next = "up"
  BY DEF StartRemoval

\* What a daemon that stops removes, the two locks among it.
LEMMA StopTable ==
    ASSUME NEW p, at[p] \in DOMAIN StopRemoval
    PROVE  \/ /\ at[p] = "quitSession" /\ StopRemoval[at[p]].file = "LOCK"
              /\ StopRemoval[at[p]].next = "quitPid"
           \/ /\ at[p] = "quitPid" /\ StopRemoval[at[p]].file = "DAEMON_PID"
              /\ StopRemoval[at[p]].next = "quitSocket"
           \/ /\ at[p] = "quitSocket" /\ StopRemoval[at[p]].file = "DAEMON_SOCKET"
              /\ StopRemoval[at[p]].next = "quitLock"
           \/ /\ at[p] = "quitLock" /\ StopRemoval[at[p]].file = "DAEMON_LOCK"
              /\ StopRemoval[at[p]].next = "quitRelease"
           \/ /\ at[p] = "quitRelease" /\ StopRemoval[at[p]].file = "DAEMON_LOCK"
              /\ StopRemoval[at[p]].next = "linger"
  BY DEF StopRemoval

\* What a daemon removes on SIGTERM.
LEMMA TermTable ==
    ASSUME NEW p, at[p] \in DOMAIN TermRemoval
    PROVE  \/ /\ at[p] = "termSocket" /\ TermRemoval[at[p]].file = "DAEMON_SOCKET"
              /\ TermRemoval[at[p]].next = "termPid"
           \/ /\ at[p] = "termPid" /\ TermRemoval[at[p]].file = "DAEMON_PID"
              /\ TermRemoval[at[p]].next = "gone"
  BY DEF TermRemoval

\* The steps that remove something.
LEMMA Domains ==
    /\ DOMAIN CleanupRemoval = {"drop", "cleanPid", "cleanSocket", "cleanLock", "unlock"}
    /\ DOMAIN AbortRemoval = {"abortRunning", "abortTimeout"}
    /\ DOMAIN SweepRemoval = {"sweepLock", "sweepPid", "sweepSocket", "sweepDLock"}
    /\ DOMAIN StartRemoval = {"unlinkSocket", "release"}
    /\ DOMAIN StopRemoval = {"quitSession", "quitPid", "quitSocket", "quitLock", "quitRelease"}
    /\ DOMAIN TermRemoval = {"termSocket", "termPid"}
  BY DEF CleanupRemoval, AbortRemoval, SweepRemoval, StartRemoval, StopRemoval, TermRemoval

\* Fresh is a process that has not run.
LEMMA FreshIsUnused ==
    ASSUME \E d \in Daemons : at[d] = "unused"
    PROVE  Fresh \in Daemons /\ at[Fresh] = "unused"
  BY DEF Fresh

\* Types: a process that waits has a child to signal.
LEMMA TypeStep ==
    ASSUME TypeOK, ChildReleases, [Next]_vars
    PROVE  TypeOK'
<1> USE Domains, ProcessesAssumption, ScenariosAssumption
<1> USE DEF TypeOK, Procs, Locks, Files, CliSteps, DaemonSteps, Dead, Failed, vars, local, history
<1>1. ASSUME NEW c \in Clis, Start(c)
      PROVE  TypeOK'
  <2>1. CASE Live("DAEMON_PID")
    BY <1>1, <2>1 DEF Start, Go
  <2>2. CASE ~Live("DAEMON_PID")
    <3>1. at' \in [Procs -> CliSteps \cup DaemonSteps] /\ \A d \in Daemons : at'[d] \in DaemonSteps
      BY <1>1, <2>2 DEF Start, Acquire, Go
    <3>2. \A b \in Clis : at'[b] \in CliSteps
      BY <1>1, <2>2 DEF Start, Acquire, Go
    <3>3. Acquire(c, "DAEMON_LOCK", FALSE)
      BY <1>1, <2>2 DEF Start
    <3>4. lock' \in [Clis -> Locks]
      BY <3>3 DEF Acquire
    <3>5. again' \in [Clis -> BOOLEAN]
      BY <3>3 DEF Acquire
    <3> QED
      BY <1>1, <2>2, <3>1, <3>2, <3>4, <3>5 DEF Start
  <2> QED
    BY <2>1, <2>2
<1>2. ASSUME NEW c \in Clis, CreateLock(c)
      PROVE  TypeOK'
  <2>1. CASE file[lock[c]] = Absent
    <3>1. at' \in [Procs -> CliSteps \cup DaemonSteps] /\ \A d \in Daemons : at'[d] \in DaemonSteps
      BY <1>2, <2>1 DEF CreateLock, Go
    <3>2. \A b \in Clis : at'[b] \in CliSteps
      BY <1>2, <2>1 DEF CreateLock, Go
    <3>3. file' \in [Files -> Procs \cup {Absent}] /\ \A f \in Files : file'[f] = IF f = lock[c] THEN c ELSE file[f]
      BY <1>2, <2>1 DEF CreateLock
    <3>4. \A f \in Locks : file'[f] \in Clis \cup {Absent}
      BY <1>2, <3>3
    <3>5. file'["DAEMON_PID"] \in Daemons \cup {Absent} /\ file'["DAEMON_SOCKET"] \in Daemons \cup {Absent}
      BY <1>2, <3>3
    <3>6. lock[c] \in Locks /\ blank' = blank \cup {lock[c]}
      BY <1>2, <2>1 DEF CreateLock
    <3> QED
      BY <1>2, <3>1, <3>2, <3>3, <3>4, <3>5, <3>6 DEF CreateLock
  <2>2. CASE file[lock[c]] # Absent
    <3>1. Go(c, "inspect") /\ UNCHANGED <<file, blank>>
      BY <1>2, <2>2 DEF CreateLock
    <3> QED
      BY <1>2, <3>1 DEF CreateLock, Go
  <2> QED
    BY <2>1, <2>2
<1>3. ASSUME NEW c \in Clis, WriteLock(c)
      PROVE  TypeOK'
  <2>1. at' \in [Procs -> CliSteps \cup DaemonSteps] /\ \A d \in Daemons : at'[d] \in DaemonSteps
    BY <1>3 DEF WriteLock, Acquire, Go
  <2>2. \A b \in Clis : at'[b] \in CliSteps
    BY <1>3 DEF WriteLock, Acquire, Go
  <2>3. lock' \in [Clis -> Locks] /\ again' \in [Clis -> BOOLEAN]
    BY <1>3 DEF WriteLock, Acquire
  <2> QED
    BY <1>3, <2>1, <2>2, <2>3 DEF WriteLock
<1>4. ASSUME NEW c \in Clis, InspectLock(c)
      PROVE  TypeOK'
  BY <1>4 DEF InspectLock, Go, Live
<1>5. ASSUME NEW c \in Clis, UnlinkStale(c)
      PROVE  TypeOK'
  BY <1>5 DEF UnlinkStale, RemoveFile, Go
<1>6. ASSUME NEW c \in Clis, Recheck(c)
      PROVE  TypeOK'
  BY <1>6 DEF Recheck, Go, Live
<1>7. ASSUME NEW c \in Clis, Judge(c)
      PROVE  TypeOK'
  BY <1>7 DEF Judge, Go, Live
<1>8. ASSUME NEW c \in Clis, CleanSession(c)
      PROVE  TypeOK'
  BY <1>8 DEF CleanSession, Go
<1>9. ASSUME NEW c \in Clis, Verify(c)
      PROVE  TypeOK'
  BY <1>9 DEF Verify, Go, Live
<1>10. ASSUME NEW c \in Clis, SpawnDaemon(c)
      PROVE  TypeOK'
  BY <1>10, FreshIsUnused DEF SpawnDaemon
<1>11. ASSUME NEW c \in Clis, SocketAppears(c)
      PROVE  TypeOK'
  BY <1>11 DEF SocketAppears, Go
<1>12. ASSUME NEW c \in Clis, WaitTimeout(c)
      PROVE  TypeOK'
  <2>1. at' \in [Procs -> CliSteps \cup DaemonSteps]
    BY <1>12 DEF WaitTimeout, Go
  <2>2. \A b \in Clis : at'[b] \in CliSteps
    BY <1>12 DEF WaitTimeout, Go
  <2>3. \A d \in Daemons : at'[d] \in DaemonSteps
    BY <1>12 DEF WaitTimeout, Go
  <2>4. signalled' \subseteq Daemons
    BY <1>12 DEF WaitTimeout, ChildReleases
  <2> QED
    BY <1>12, <2>1, <2>2, <2>3, <2>4 DEF WaitTimeout
<1>13. ASSUME NEW c \in Clis, CleanupRemoves(c)
      PROVE  TypeOK'
  BY <1>13, CleanupTable DEF CleanupRemoves, Removes, RemoveFile, Go
<1>14. ASSUME NEW c \in Clis, AbortRemoves(c)
      PROVE  TypeOK'
  BY <1>14, AbortTable DEF AbortRemoves, Removes, RemoveFile, Go
<1>15. ASSUME NEW c \in Clis, DropPid(c)
      PROVE  TypeOK'
  BY <1>15 DEF DropPid, Sweeps, RemoveFile, Go
<1>16. ASSUME NEW c \in Clis, Sweep(c)
      PROVE  TypeOK'
  BY <1>16 DEF Sweep, Go
<1>17. ASSUME NEW c \in Clis, SweepRemoves(c)
      PROVE  TypeOK'
  BY <1>17, SweepTable DEF SweepRemoves, Sweeps, RemoveFile, Go
<1>18. ASSUME NEW c \in Clis, Leave(c)
      PROVE  TypeOK'
  BY <1>18 DEF Leave, Go
<1>19. ASSUME NEW c \in Clis, Cleanup(c)
      PROVE  TypeOK'
  BY <1>19 DEF Cleanup, Go
<1>20. ASSUME NEW d \in Daemons, StartRemoves(d)
      PROVE  TypeOK'
  BY <1>20, StartTable DEF StartRemoves, Removes, RemoveFile, Go
<1>21. ASSUME NEW d \in Daemons, Bind(d)
      PROVE  TypeOK'
  BY <1>21 DEF Bind, Go
<1>22. ASSUME NEW d \in Daemons, WritePidFile(d)
      PROVE  TypeOK'
  BY <1>22 DEF WritePidFile, Go
<1>23. ASSUME NEW d \in Daemons, StopRemoves(d)
      PROVE  TypeOK'
  BY <1>23, StopTable DEF StopRemoves, Removes, RemoveFile, Go
<1>24. ASSUME NEW d \in Daemons, Exit(d)
      PROVE  TypeOK'
  BY <1>24 DEF Exit, Go
<1>25. ASSUME NEW d \in Daemons, HandleSigterm(d)
      PROVE  TypeOK'
  BY <1>25 DEF HandleSigterm, Go
<1>26. ASSUME NEW d \in Daemons, TermRemoves(d)
      PROVE  TypeOK'
  BY <1>26, TermTable DEF TermRemoves, Removes, RemoveFile, Go
<1>27. ASSUME NEW d \in Daemons, BeginSession(d)
      PROVE  TypeOK'
  BY <1>27 DEF BeginSession
<1>28. ASSUME NEW d \in Daemons, StopSession(d)
      PROVE  TypeOK'
  BY <1>28 DEF StopSession, Go
<1>29. ASSUME NEW p \in Procs, Crash(p)
      PROVE  TypeOK'
  BY <1>29 DEF Crash, Go, Alive
<1>30. CASE SessionEnds
  BY <1>30 DEF SessionEnds
<1>31. CASE UNCHANGED vars
  BY <1>31
<1> QED
  BY <1>1, <1>2, <1>3, <1>4, <1>5, <1>6, <1>7, <1>8, <1>9, <1>10, <1>11, <1>12, <1>13, <1>14, <1>15, <1>16, <1>17, <1>18, <1>19, <1>20, <1>21, <1>22, <1>23, <1>24, <1>25, <1>26, <1>27, <1>28, <1>29, <1>30, <1>31 DEF Next, CliStep, DaemonStep

\* Who owns what, whatever the scenario: only "create" takes a lock, and the steps
\* after it lead to "unlock" or to the spawn of a child that releases.
LEMMA LocksStep ==
    ASSUME TypeOK, OwnersBegan, SessionLockHeld, ChildReleases, [Next]_vars
    PROVE  (OwnersBegan /\ SessionLockHeld /\ ChildReleases)'
<1> USE Domains, ProcessesAssumption
<1> USE DEF TypeOK, OwnersBegan, SessionLockHeld, ChildReleases, Early, Procs, Locks, Files, Dead, Failed, vars, local, history
<1>1. ASSUME NEW c \in Clis, Start(c)
      PROVE  (OwnersBegan /\ SessionLockHeld /\ ChildReleases)'
  BY <1>1 DEF Start, Acquire, Go, Live
<1>2. ASSUME NEW c \in Clis, CreateLock(c)
      PROVE  (OwnersBegan /\ SessionLockHeld /\ ChildReleases)'
  BY <1>2 DEF CreateLock, Go
<1>3. ASSUME NEW c \in Clis, WriteLock(c)
      PROVE  (OwnersBegan /\ SessionLockHeld /\ ChildReleases)'
  BY <1>3 DEF WriteLock, Acquire, Go
<1>4. ASSUME NEW c \in Clis, InspectLock(c) \/ Recheck(c) \/ Judge(c) \/ CleanSession(c) \/ Verify(c)
      PROVE  (OwnersBegan /\ SessionLockHeld /\ ChildReleases)'
  BY <1>4 DEF InspectLock, Go, Live, Recheck, Judge, CleanSession, Verify
<1>5. ASSUME NEW c \in Clis, UnlinkStale(c)
      PROVE  (OwnersBegan /\ SessionLockHeld /\ ChildReleases)'
  BY <1>5 DEF UnlinkStale, RemoveFile, Go
<1>6. ASSUME NEW c \in Clis, SpawnDaemon(c)
      PROVE  (OwnersBegan /\ SessionLockHeld /\ ChildReleases)'
  BY <1>6, FreshIsUnused DEF SpawnDaemon
<1>7. ASSUME NEW c \in Clis, SocketAppears(c) \/ Leave(c) \/ Cleanup(c) \/ Sweep(c)
      PROVE  (OwnersBegan /\ SessionLockHeld /\ ChildReleases)'
  BY <1>7 DEF SocketAppears, Go, Leave, Cleanup, Sweep
<1>8. ASSUME NEW c \in Clis, WaitTimeout(c)
      PROVE  (OwnersBegan /\ SessionLockHeld /\ ChildReleases)'
  BY <1>8 DEF WaitTimeout, Go
<1>9. ASSUME NEW c \in Clis, CleanupRemoves(c)
      PROVE  (OwnersBegan /\ SessionLockHeld /\ ChildReleases)'
  BY <1>9, CleanupTable DEF CleanupRemoves, Removes, RemoveFile, Go
<1>10. ASSUME NEW c \in Clis, AbortRemoves(c)
      PROVE  (OwnersBegan /\ SessionLockHeld /\ ChildReleases)'
  BY <1>10, AbortTable DEF AbortRemoves, Removes, RemoveFile, Go
<1>11. ASSUME NEW c \in Clis, DropPid(c) \/ SweepRemoves(c)
      PROVE  (OwnersBegan /\ SessionLockHeld /\ ChildReleases)'
  BY <1>11, SweepTable DEF DropPid, Sweeps, RemoveFile, Go, SweepRemoves
<1>12. ASSUME NEW d \in Daemons, StartRemoves(d)
      PROVE  (OwnersBegan /\ SessionLockHeld /\ ChildReleases)'
  BY <1>12, StartTable DEF StartRemoves, Removes, RemoveFile, Go
<1>13. ASSUME NEW d \in Daemons, StopRemoves(d)
      PROVE  (OwnersBegan /\ SessionLockHeld /\ ChildReleases)'
  BY <1>13, StopTable DEF StopRemoves, Removes, RemoveFile, Go
<1>14. ASSUME NEW d \in Daemons, TermRemoves(d)
      PROVE  (OwnersBegan /\ SessionLockHeld /\ ChildReleases)'
  BY <1>14, TermTable DEF TermRemoves, Removes, RemoveFile, Go
<1>15. ASSUME NEW d \in Daemons, Bind(d) \/ WritePidFile(d)
      PROVE  (OwnersBegan /\ SessionLockHeld /\ ChildReleases)'
  BY <1>15 DEF Bind, Go, WritePidFile
<1>16. ASSUME NEW d \in Daemons, Exit(d) \/ HandleSigterm(d) \/ BeginSession(d) \/ StopSession(d)
      PROVE  (OwnersBegan /\ SessionLockHeld /\ ChildReleases)'
  BY <1>16 DEF Exit, Go, HandleSigterm, BeginSession, StopSession
<1>17. ASSUME NEW p \in Procs, Crash(p)
      PROVE  (OwnersBegan /\ SessionLockHeld /\ ChildReleases)'
  BY <1>17 DEF Crash, Go, Alive
<1>18. CASE SessionEnds
  BY <1>18 DEF SessionEnds
<1>19. CASE UNCHANGED vars
  BY <1>19
<1> QED
  BY <1>1, <1>2, <1>3, <1>4, <1>5, <1>6, <1>7, <1>8, <1>9, <1>10, <1>11, <1>12, <1>13, <1>14, <1>15, <1>16, <1>17, <1>18, <1>19 DEF Next, CliStep, DaemonStep

\* A start begins when nobody else is at it: a daemon that is up is on record then,
\* so one that is launched finds none, and removes no file but what the dead left.
LEMMA OrderlyStep ==
    ASSUME TypeOK, OwnersBegan, Undisturbed, Undisturbed', Orderly, [Next]_vars
    PROVE  Orderly'
<1> USE Domains, ProcessesAssumption
<1> USE DEF TypeOK, OwnersBegan, Undisturbed, Orderly, OneStart, DaemonLockIsStale, NobodyRefused, OneActive, FilesAreOwn, Starting, Early, Active, Alive, Procs, Locks, Files, Dead, Failed, vars, local, history
<1>1. ASSUME NEW c \in Clis, Start(c)
      PROVE  Orderly'
  BY <1>1 DEF Start, Acquire, Go, Live, Quiet
<1>2. ASSUME NEW c \in Clis, CreateLock(c)
      PROVE  Orderly'
  BY <1>2 DEF CreateLock, Go
<1>3. ASSUME NEW c \in Clis, WriteLock(c)
      PROVE  Orderly'
  BY <1>3 DEF WriteLock, Acquire, Go
<1>4. ASSUME NEW c \in Clis, InspectLock(c) \/ Recheck(c) \/ Judge(c) \/ CleanSession(c) \/ Verify(c)
      PROVE  Orderly'
  BY <1>4 DEF InspectLock, Go, Live, Recheck, Judge, CleanSession, Verify
<1>5. ASSUME NEW c \in Clis, UnlinkStale(c)
      PROVE  Orderly'
  BY <1>5 DEF UnlinkStale, RemoveFile, Go
<1>6. ASSUME NEW c \in Clis, SpawnDaemon(c)
      PROVE  Orderly'
  BY <1>6, FreshIsUnused DEF SpawnDaemon
<1>7. ASSUME NEW c \in Clis, SocketAppears(c) \/ Leave(c) \/ Cleanup(c) \/ Sweep(c)
      PROVE  Orderly'
  BY <1>7 DEF SocketAppears, Go, Leave, Cleanup, Sweep
<1>8. ASSUME NEW c \in Clis, WaitTimeout(c)
      PROVE  Orderly'
  BY <1>8 DEF WaitTimeout, Go
<1>9. ASSUME NEW c \in Clis, CleanupRemoves(c)
      PROVE  Orderly'
  BY <1>9, CleanupTable DEF CleanupRemoves, Removes, RemoveFile, Go
<1>10. ASSUME NEW c \in Clis, AbortRemoves(c)
      PROVE  Orderly'
  BY <1>10, AbortTable DEF AbortRemoves, Removes, RemoveFile, Go
<1>11. ASSUME NEW c \in Clis, DropPid(c) \/ SweepRemoves(c)
      PROVE  Orderly'
  BY <1>11, SweepTable DEF DropPid, Sweeps, RemoveFile, Go, SweepRemoves
<1>12. ASSUME NEW d \in Daemons, StartRemoves(d)
      PROVE  Orderly'
  BY <1>12, StartTable DEF StartRemoves, Removes, RemoveFile, Go
<1>13. ASSUME NEW d \in Daemons, StopRemoves(d)
      PROVE  Orderly'
  BY <1>13, StopTable DEF StopRemoves, Removes, RemoveFile, Go
<1>14. ASSUME NEW d \in Daemons, TermRemoves(d)
      PROVE  Orderly'
  BY <1>14, TermTable DEF TermRemoves, Removes, RemoveFile, Go
<1>15. ASSUME NEW d \in Daemons, Bind(d) \/ WritePidFile(d)
      PROVE  Orderly'
  BY <1>15 DEF Bind, Go, WritePidFile
<1>16. ASSUME NEW d \in Daemons, Exit(d) \/ HandleSigterm(d) \/ BeginSession(d) \/ StopSession(d)
      PROVE  Orderly'
  BY <1>16 DEF Exit, Go, HandleSigterm, BeginSession, StopSession
<1>17. ASSUME NEW p \in Procs, Crash(p)
      PROVE  Orderly'
  BY <1>17 DEF Crash, Go, Alive
<1>18. CASE SessionEnds
  BY <1>18 DEF SessionEnds
<1>19. CASE UNCHANGED vars
  BY <1>19
<1> QED
  BY <1>1, <1>2, <1>3, <1>4, <1>5, <1>6, <1>7, <1>8, <1>9, <1>10, <1>11, <1>12, <1>13, <1>14, <1>15, <1>16, <1>17, <1>18, <1>19 DEF Next, CliStep, DaemonStep

\* No step makes a disturbed behaviour undisturbed.
LEMMA UndisturbedBefore ==
    ASSUME [Next]_vars, Undisturbed'
    PROVE  Undisturbed
<1>1. UNCHANGED scenario /\ swept \subseteq swept'
  BY DEF Next, CliStep, DaemonStep, Start, CreateLock, WriteLock, InspectLock, UnlinkStale, Recheck, Judge,
         CleanSession, Verify, SpawnDaemon, SocketAppears, WaitTimeout, CleanupRemoves, AbortRemoves, DropPid,
         Sweep, SweepRemoves, Sweeps, Leave, Cleanup, StartRemoves, Bind, WritePidFile, StopRemoves, Exit,
         HandleSigterm, TermRemoves, Removes, BeginSession, StopSession, Crash, SessionEnds, vars, history
<1> QED
  BY <1>1 DEF Undisturbed

\* Before the first invocation no file is there.
LEMMA Initially == Init => IInv
  BY Domains, ProcessesAssumption, ScenariosAssumption
  DEF Init, IInv, TypeOK, OwnersBegan, SessionLockHeld, ChildReleases, Orderly, OneStart, DaemonLockIsStale,
      NobodyRefused, OneActive, FilesAreOwn, Starting, Early, Active, Alive, Procs, Locks, Files, CliSteps,
      DaemonSteps, Dead, Failed

\* The inductive invariant holds in every reachable state.
THEOREM Invariance == Spec => []IInv
<1>1. IInv /\ [Next]_vars => IInv'
  BY TypeStep, LocksStep, OrderlyStep, UndisturbedBefore DEF IInv
<1> QED
  BY Initially, <1>1, PTL DEF Spec

\* The program counters, files, locks and children keep their types.
THEOREM TypeCorrect == Spec => []TypeOK
  BY Invariance, PTL DEF IInv

\* No lock outlives the launch it protects, in any scenario: whoever races, whatever
\* crashes or is swept away.
THEOREM LocksReleased == Spec => []NoLeakedLock
<1>1. IInv => NoLeakedLock
  BY DEF IInv, SessionLockHeld, ChildReleases, NoLeakedLock
<1> QED
  BY Invariance, <1>1, PTL

\* One daemon serves at a time and the files lead to it, when starts do not overlap
\* and no live daemon has lost a file to bdg cleanup (launcher.ts:8).
THEOREM DaemonReachable == Spec => []OneReachableDaemon
<1>1. IInv => OneReachableDaemon
  BY DEF IInv, Orderly, OneActive, FilesAreOwn, Active, Serving, OneReachableDaemon, SingleDaemon, OneDaemon, Findable
<1> QED
  BY Invariance, <1>1, PTL

\* What launches and crashes leave in ~/.bdg blocks no later start.
THEOREM LeftoversHarmless == Spec => []LeftoversAreHarmless
<1>1. IInv => LeftoversAreHarmless
  BY DEF IInv, Orderly, NobodyRefused, SessionLockHeld, ChildReleases, LeftoversAreHarmless, NeverRefused, NoLeakedLock
<1> QED
  BY Invariance, <1>1, PTL
=============================================================================
