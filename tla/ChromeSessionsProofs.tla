-------------------------- MODULE ChromeSessionsProofs --------------------------
(***************************************************************************)
(* Proofs about ChromeSessions, for any number of sessions and ports: a    *)
(* worker talks to its own browser unless somebody took the port in time;  *)
(* and of commands that wait for each other none loses an orphan, which    *)
(* rests on when a browser's name is written over and by whom.             *)
(***************************************************************************)
EXTENDS ChromeSessions, TLAPS

ChromeTypes ==
    /\ ChromeTypeOK
    /\ port \in [Sessions -> Ports]
    /\ listener \in [Ports -> Sessions \cup {Nobody, Other}]
    /\ taken \in [Sessions -> BOOLEAN]
    /\ by \in [Sessions -> SUBSET Sessions]
    /\ cli \in [at : {"idle", "kill", "clear"}, signal : {"", "SIGTERM", "SIGKILL"},
                 target : Sessions \cup {Nobody}]
    /\ cli.at = "idle" => cli = NoCommand

\* A session has a browser only once it is spawned; a worker that closes has
\* asked it to end.
BrowserStages ==
    \A s \in Sessions :
        /\ stage[s] \in {"none", "begun", "spawn"} => browser[s] = "none"
        /\ stage[s] = "closing" => browser[s] # "running"

\* From the spawn to the search for a page, who listens is the session's Chrome, or
\* has been seen to take the port.
PortIsWatched ==
    \A s \in Sessions : Exposed(s) => listener[port[s]] \in {Nobody, s} \/ taken[s]

\* Who has written over a name has begun.
WritersBegan == \A s \in Sessions : \A t \in by[s] : stage[t] # "none"

\* The rest holds when commands wait for each other.  Sessions are launched one at
\* a time and in order ...
InTurn ==
    /\ \A s, t \in Sessions : s < t /\ stage[t] # "none" => stage[s] \notin Launching \cup {"none"}
    /\ cli # NoCommand => \A s \in Sessions : stage[s] \notin Launching
    /\ \A s \in Sessions : stage[s] \in Launching \ {"begun"} => sessionPid = s
    /\ sessionPid # Nobody => \A t \in Sessions : sessionPid < t => browser[t] = "none"

\* ... and the one on record is the one whose metadata there are, until it is stopped.
OnRecord ==
    /\ \A s \in Sessions : stage[s] \in {"asked", "snapshot"} => sessionPid # s
    /\ sessionPid # Nobody /\ stage[sessionPid] = "up" => meta = sessionPid

\* A session that reserved a port found none of the earlier ones listening there.
PortWasFree ==
    \A s, t \in Sessions :
        s < t /\ stage[t] \notin {"none", "begun", "over", "lost"} /\ port[s] = port[t] => listener[port[s]] # s

\* A browser that runs on its port and whose name has been written to chrome.pid.
Recorded(s) ==
    /\ browser[s] = "running" /\ listener[port[s]] = s
    /\ stage[s] \notin {"bind", "ready", "lost"}

\* Its name was written over by a session on another port or by an earlier one.
Displaced(s) == \E t \in by[s] : port[t] # port[s] \/ t < s

\* From when a session's browser is recorded until its worker ends.
Late == {"target", "connect", "up", "asked", "snapshot", "closing"}

\* Names are lost in no other way; a session that is recorded has displaced the
\* earlier ones; and a command clears no name but that of the browser it kills.
NamesAreKept ==
    /\ \A s \in Sessions : Recorded(s) => slot = s \/ Displaced(s)
    /\ \A s, t \in Sessions :
           s < t /\ stage[t] \in Late /\ Recorded(s) => Displaced(s)
    /\ cli # NoCommand /\ slot # Nobody /\ slot # cli.target /\ Recorded(slot) => Displaced(slot)
    /\ cli.at = "clear" /\ cli.target # Nobody => browser[cli.target] # "running"

Patient == InTurn /\ OnRecord /\ PortWasFree /\ NamesAreKept

IInv ==
    /\ ChromeTypes /\ BrowserStages /\ PortIsWatched /\ WritersBegan
    /\ ~overlap => Patient

\* Nobody and other programs are not sessions.
LEMMA Numbers == Nobody \notin Sessions /\ Other \notin Sessions /\ Nobody # Other
  BY SessionsAssumption DEF Nobody, Other

\* The stages of a worker by name.
LEMMA StageNames ==
    /\ {"none", "up", "asked", "snapshot", "closing", "over", "lost"} \subseteq Stages
    /\ {"begun", "spawn", "bind", "ready", "target", "connect"} \subseteq Stages
  BY DEF Stages, Launching

\* Who is killed is dead and listens nowhere.
LEMMA Killed ==
    ASSUME ChromeTypes, NEW x \in Sessions, Kill({x})
    PROVE  /\ browser' \in [Sessions -> {"none", "running", "dying", "dead"}]
           /\ browser'[x] = IF Living(x) THEN "dead" ELSE browser[x]
           /\ \A s \in Sessions : s # x => browser'[s] = browser[s]
           /\ listener' \in [Ports -> Sessions \cup {Nobody, Other}]
           /\ \A p \in Ports : listener'[p] = IF listener[p] = x THEN Nobody ELSE listener[p]
<1>1. browser' = [s \in Sessions |-> IF s \in {x} /\ Living(s) THEN "dead" ELSE browser[s]]
  BY DEF Kill
<1>2. listener' = [p \in Ports |-> IF listener[p] \in {x} THEN Nobody ELSE listener[p]]
  BY DEF Kill, Freed
<1> QED
  BY <1>1, <1>2 DEF ChromeTypes, ChromeTypeOK

\* Who is asked to end is dying, and still listens.
LEMMA Terminated ==
    ASSUME ChromeTypes, NEW x \in Sessions, Terminate({x})
    PROVE  /\ browser' \in [Sessions -> {"none", "running", "dying", "dead"}]
           /\ browser'[x] = IF browser[x] = "running" THEN "dying" ELSE browser[x]
           /\ \A s \in Sessions : s # x => browser'[s] = browser[s]
           /\ listener' = listener
  BY DEF Terminate, ChromeTypes, ChromeTypeOK

\* A name is written over if its browser lives.
LEMMA Written ==
    ASSUME ChromeTypes, NEW s \in Sessions, WriteChromePid(s)
    PROVE  /\ slot' = s
           /\ by' \in [Sessions -> SUBSET Sessions]
           /\ \A t \in Sessions :
                  by'[t] = IF t = slot /\ slot # s /\ Living(slot) THEN by[t] \cup {s} ELSE by[t]
  BY Numbers DEF WriteChromePid, ChromeTypes, ChromeTypeOK, Living

\* What a command may do to a browser, and to the ports, before it clears the name.
LEMMA CommandKills ==
    ASSUME ChromeTypes, KillChromeProcess
    PROVE  /\ UNCHANGED <<overlap, daemon, files, stage, port, taken>>
           /\ browser' \in [Sessions -> {"none", "running", "dying", "dead"}]
           /\ \A s \in Sessions :
                  browser'[s] = browser[s] \/ (Living(s) /\ browser'[s] \in {"dying", "dead"})
           /\ listener' \in [Ports -> Sessions \cup {Nobody, Other}]
           /\ \A p \in Ports : listener'[p] = listener[p] \/ listener'[p] = Nobody
           /\ \A p \in Ports : listener'[p] \in Sessions => browser'[listener'[p]] \in {"running", "dying"}
           /\ cli # NoCommand
           /\ cli' = NoCommand \/ (cli' = [cli EXCEPT !.at = "clear"] /\ browser'[cli.target] # "running")
<1>1. UNCHANGED <<overlap, daemon, files, stage, port, taken>>
  BY DEF KillChromeProcess
<1>k. cli.at = "kill"
  BY DEF KillChromeProcess
<1>m. NoCommand.at = "idle"
  BY DEF NoCommand
<1>n. cli # NoCommand
  BY <1>k, <1>m
<1>2. CASE ~Living(cli.target)
  <2>1. cli' = NoCommand /\ UNCHANGED <<browser, listener>>
    BY <1>2 DEF KillChromeProcess
  <2> QED
    BY <1>1, <1>n, <2>1 DEF ChromeTypes, ChromeTypeOK
<1>3. CASE Living(cli.target)
  <2>1. cli.target \in Sessions /\ browser[cli.target] \in {"running", "dying"}
    BY <1>3 DEF Living, ChromeTypes
  <2>2. cli' = [cli EXCEPT !.at = "clear"] /\ (Kill({cli.target}) \/ Terminate({cli.target}))
    BY <1>3 DEF KillChromeProcess
  <2>3. CASE Kill({cli.target})
    <3>1. /\ browser' \in [Sessions -> {"none", "running", "dying", "dead"}]
          /\ browser'[cli.target] = "dead" /\ \A s \in Sessions : s # cli.target => browser'[s] = browser[s]
          /\ listener' \in [Ports -> Sessions \cup {Nobody, Other}]
          /\ \A p \in Ports : listener'[p] = IF listener[p] = cli.target THEN Nobody ELSE listener[p]
      BY <1>3, <2>1, <2>3, Killed
    <3>2. \A p \in Ports : listener'[p] \in Sessions => listener'[p] = listener[p] /\ listener[p] # cli.target
      BY <3>1, Numbers
    <3>3. \A p \in Ports : listener[p] \in Sessions => browser[listener[p]] \in {"running", "dying"}
      BY DEF ChromeTypes, ChromeTypeOK
    <3>4. \A p \in Ports : listener'[p] \in Sessions => browser'[listener'[p]] \in {"running", "dying"}
      BY <3>1, <3>2, <3>3
    <3> QED
      BY <1>1, <1>n, <2>1, <2>2, <3>1, <3>4, Numbers DEF Living
  <2>4. CASE Terminate({cli.target})
    <3>1. /\ browser' \in [Sessions -> {"none", "running", "dying", "dead"}]
          /\ browser'[cli.target] = "dying" /\ \A s \in Sessions : s # cli.target => browser'[s] = browser[s]
          /\ listener' = listener
      BY <2>1, <2>4, Terminated
    <3>2. \A p \in Ports : listener'[p] \in Sessions => browser'[listener'[p]] \in {"running", "dying"}
      BY <2>1, <3>1 DEF ChromeTypes, ChromeTypeOK
    <3> QED
      BY <1>1, <1>n, <2>1, <2>2, <3>1, <3>2, Numbers DEF ChromeTypes, Living
  <2> QED
    BY <2>2, <2>3, <2>4
<1> QED
  BY <1>2, <1>3

\* What the cleanup of a worker does first.
LEMMA CleanupWrites ==
    ASSUME ChromeTypes, NEW s \in Sessions, CleanupBegins(s)
    PROVE  /\ stage[s] \in {"connect", "up", "asked"}
           /\ UNCHANGED <<overlap, daemon, sessionPid, meta, port, listener, taken, cli>>
           /\ slot' = s /\ by' \in [Sessions -> SUBSET Sessions]
           /\ \A t \in Sessions :
                  by'[t] = IF t = slot /\ slot # s /\ Living(slot) THEN by[t] \cup {s} ELSE by[t]
           /\ browser' \in [Sessions -> {"none", "running", "dying", "dead"}]
           /\ \A t \in Sessions : browser'[t] = browser[t] \/ (browser[t] = "running" /\ browser'[t] = "dying")
           /\ \/ stage[s] = "asked" /\ stage' = [stage EXCEPT ![s] = "snapshot"]
              \/ stage' = [stage EXCEPT ![s] = "closing"] /\ browser'[s] # "running"
<1>1. /\ stage[s] \in {"connect", "up", "asked"} /\ WriteChromePid(s)
      /\ UNCHANGED <<overlap, daemon, sessionPid, meta, port, taken, cli>>
  BY DEF CleanupBegins
<1>2. /\ slot' = s /\ by' \in [Sessions -> SUBSET Sessions]
      /\ \A t \in Sessions :
             by'[t] = IF t = slot /\ slot # s /\ Living(slot) THEN by[t] \cup {s} ELSE by[t]
  BY <1>1, Written
<1>3. CASE stage[s] = "asked"
  <2>1. stage' = [stage EXCEPT ![s] = "snapshot"] /\ UNCHANGED <<browser, listener>>
    BY <1>3 DEF CleanupBegins, To
  <2> QED
    BY <1>1, <1>2, <1>3, <2>1 DEF ChromeTypes, ChromeTypeOK
<1>4. CASE stage[s] # "asked"
  <2>1. stage' = [stage EXCEPT ![s] = "closing"] /\ Terminate({s})
    BY <1>4 DEF CleanupBegins, To
  <2>2. /\ browser' \in [Sessions -> {"none", "running", "dying", "dead"}]
        /\ browser'[s] = IF browser[s] = "running" THEN "dying" ELSE browser[s]
        /\ \A t \in Sessions : t # s => browser'[t] = browser[t]
        /\ listener' = listener
    BY <2>1, Terminated
  <2> QED
    BY <1>1, <1>2, <2>1, <2>2
<1> QED
  BY <1>3, <1>4

\* The domains and ranges most steps need.
LEMMA Domains ==
    ASSUME ChromeTypes
    PROVE  /\ stage \in [Sessions -> Stages] /\ port \in [Sessions -> Ports]
           /\ browser \in [Sessions -> {"none", "running", "dying", "dead"}]
           /\ listener \in [Ports -> Sessions \cup {Nobody, Other}]
           /\ by \in [Sessions -> SUBSET Sessions]
           /\ \A p \in Ports : listener[p] \in Sessions => browser[listener[p]] \in {"running", "dying"}
           /\ {sessionPid, meta, slot} \subseteq Sessions \cup {Nobody}
  BY DEF ChromeTypes, ChromeTypeOK

\* Every step keeps the types; one step per action.
LEMMA TypeStep ==
    ASSUME ChromeTypes, [ChromeNext]_chromeVars
    PROVE  ChromeTypes'
<1>1. CASE LaunchDaemon
  BY <1>1, Numbers, StageNames DEF LaunchDaemon, Kill, Freed, ReadChromePid, ChromeTypes,
     ChromeTypeOK, Living, WorkerAlive, NoCommand, files
<1>2. CASE DaemonDies
  BY <1>2, Numbers, StageNames DEF DaemonDies, ChromeTypes, ChromeTypeOK, Living, WorkerAlive,
     NoCommand, files
<1>3. ASSUME NEW s \in Sessions, StartSession(s)
      PROVE  ChromeTypes'
  <2>1. PICK p \in Ports : port' = [port EXCEPT ![s] = p]
    BY <1>3 DEF StartSession
  <2> QED
    BY <1>3, <2>1, StageNames DEF StartSession, To, ChromeTypes, ChromeTypeOK, Living, WorkerAlive,
       NoCommand, files
<1>4. ASSUME NEW s \in Sessions, ReservePort(s)
      PROVE  ChromeTypes'
  BY <1>4, Numbers, StageNames DEF ReservePort, To, ChromeTypes, ChromeTypeOK, Living, WorkerAlive,
     NoCommand, files
<1>5. ASSUME NEW s \in Sessions, Spawn(s)
      PROVE  ChromeTypes'
  <2>1. stage' \in [Sessions -> Stages]
    BY <1>5, Domains, StageNames DEF Spawn, To
  <2>2. browser' \in [Sessions -> {"none", "running", "dying", "dead"}]
    BY <1>5, Domains DEF Spawn
  <2>3. \A p \in Ports : listener'[p] \in Sessions => browser'[listener'[p]] \in {"running", "dying"}
    BY <1>5, Domains DEF Spawn
  <2> QED
    BY <1>5, <2>1, <2>2, <2>3 DEF Spawn, ChromeTypes, ChromeTypeOK, Living, WorkerAlive, NoCommand,
       files
<1>6. ASSUME NEW s \in Sessions, Bind(s)
      PROVE  ChromeTypes'
  BY <1>6, Numbers, StageNames DEF Bind, To, ChromeTypes, ChromeTypeOK, Living, WorkerAlive,
     NoCommand, files
<1>7. ASSUME NEW s \in Sessions, Ready(s)
      PROVE  ChromeTypes'
  BY <1>7, Numbers, StageNames DEF Ready, To, WriteChromePid, ChromeTypes, ChromeTypeOK, Living,
     WorkerAlive, NoCommand, files
<1>8. ASSUME NEW s \in Sessions, LaunchFails(s)
      PROVE  ChromeTypes'
  BY <1>8, Numbers, StageNames DEF LaunchFails, To, Kill, Freed, ChromeTypes, ChromeTypeOK, Living,
     WorkerAlive, NoCommand, files
<1>9. ASSUME NEW s \in Sessions, FetchTargets(s)
      PROVE  ChromeTypes'
  <2>1. stage' \in [Sessions -> Stages]
    BY <1>9, Domains, StageNames DEF FetchTargets, To
  <2> QED
    BY <1>9, <2>1 DEF FetchTargets, ChromeTypes, ChromeTypeOK, Living, WorkerAlive, NoCommand, files
<1>10. ASSUME NEW s \in Sessions, SessionUp(s)
      PROVE  ChromeTypes'
  BY <1>10, Numbers, StageNames DEF SessionUp, To, ChromeTypes, ChromeTypeOK, Living, WorkerAlive,
     NoCommand, files
<1>11. ASSUME NEW s \in Sessions, CleanupBegins(s)
      PROVE  ChromeTypes'
  <2>1. /\ UNCHANGED <<overlap, daemon, sessionPid, meta, port, listener, taken, cli>>
        /\ slot' = s /\ by' \in [Sessions -> SUBSET Sessions]
        /\ browser' \in [Sessions -> {"none", "running", "dying", "dead"}]
        /\ \A t \in Sessions : browser'[t] = browser[t] \/ (browser[t] = "running" /\ browser'[t] = "dying")
    BY <1>11, CleanupWrites
  <2>2. stage' = [stage EXCEPT ![s] = "snapshot"] \/ stage' = [stage EXCEPT ![s] = "closing"]
    BY <1>11 DEF CleanupBegins, To
  <2>3. stage' \in [Sessions -> Stages]
    BY Domains, <2>2, StageNames
  <2>4. \A p \in Ports : listener'[p] \in Sessions => browser'[listener'[p]] \in {"running", "dying"}
    BY Domains, <2>1
  <2>5. {sessionPid, meta, slot}' \subseteq Sessions \cup {Nobody}
    BY Domains, <2>1
  <2>6. ChromeTypeOK'
    BY <2>1, <2>3, <2>4, <2>5 DEF ChromeTypes, ChromeTypeOK
  <2> QED
    BY <2>1, <2>6 DEF ChromeTypes
<1>12. ASSUME NEW s \in Sessions, SnapshotEnds(s)
      PROVE  ChromeTypes'
  BY <1>12, Numbers, StageNames DEF SnapshotEnds, To, Terminate, ChromeTypes, ChromeTypeOK, Living,
     WorkerAlive, NoCommand, files
<1>13. ASSUME NEW s \in Sessions, WorkerExits(s)
      PROVE  ChromeTypes'
  BY <1>13, Numbers, StageNames DEF WorkerExits, To, ChromeTypes, ChromeTypeOK, Living, WorkerAlive,
     NoCommand, files
<1>14. ASSUME NEW s \in Sessions, WorkerDies(s)
      PROVE  ChromeTypes'
  BY <1>14, Numbers, StageNames DEF WorkerDies, To, ChromeTypes, ChromeTypeOK, Living, WorkerAlive,
     NoCommand, files
<1>15. ASSUME NEW s \in Sessions, ChromeProcessEnds(s)
      PROVE  ChromeTypes'
  BY <1>15, Numbers, StageNames DEF ChromeProcessEnds, Kill, Freed, ChromeTypes, ChromeTypeOK,
     Living, WorkerAlive, NoCommand, files
<1>16. ASSUME NEW kill \in BOOLEAN, Stop(kill)
      PROVE  ChromeTypes'
  BY <1>16, Numbers, StageNames DEF Stop, To, ChromeTypes, ChromeTypeOK, Living, WorkerAlive,
     NoCommand, files
<1>17. CASE CleanupStaleChrome
  <2>1. slot' \in Sessions \cup {Nobody}
    BY <1>17, Domains DEF CleanupStaleChrome, ReadChromePid
  <2>2. /\ cli' \in [at : {"idle", "kill", "clear"}, signal : {"", "SIGTERM", "SIGKILL"},
                 target : Sessions \cup {Nobody}]
        /\ cli'.at = "idle" => cli' = NoCommand
    BY <1>17, Domains DEF CleanupStaleChrome, ReadChromePid, NoCommand
  <2> QED
    BY <1>17, <2>1, <2>2 DEF CleanupStaleChrome, ChromeTypes, ChromeTypeOK, Living, WorkerAlive,
       NoCommand, files
<1>18. CASE KillChromeProcess
  <2>1. /\ UNCHANGED <<overlap, daemon, files, stage, port, taken>>
        /\ browser' \in [Sessions -> {"none", "running", "dying", "dead"}]
        /\ listener' \in [Ports -> Sessions \cup {Nobody, Other}]
        /\ \A p \in Ports : listener'[p] \in Sessions => browser'[listener'[p]] \in {"running", "dying"}
        /\ cli' = NoCommand \/ cli' = [cli EXCEPT !.at = "clear"]
    BY <1>18, CommandKills
  <2>2. /\ cli' \in [at : {"idle", "kill", "clear"}, signal : {"", "SIGTERM", "SIGKILL"},
                 target : Sessions \cup {Nobody}]
        /\ cli'.at = "idle" => cli' = NoCommand
    <3>1. CASE cli' = NoCommand
      BY <3>1 DEF NoCommand
    <3>2. CASE cli' = [cli EXCEPT !.at = "clear"]
      BY <3>2 DEF ChromeTypes
    <3> QED
      BY <2>1, <3>1, <3>2
  <2> QED
    BY <2>1, <2>2 DEF ChromeTypes, ChromeTypeOK, files
<1>19. CASE ClearChromePid
  BY <1>19, Numbers, StageNames DEF ClearChromePid, ChromeTypes, ChromeTypeOK, Living, WorkerAlive,
     NoCommand, files
<1>20. ASSUME NEW p \in Ports, OtherTakesPort(p)
      PROVE  ChromeTypes'
  BY <1>20, Numbers, StageNames DEF OtherTakesPort, ChromeTypes, ChromeTypeOK, Living, WorkerAlive,
     NoCommand, files
<1>21. ASSUME NEW p \in Ports, OtherLeavesPort(p)
      PROVE  ChromeTypes'
  BY <1>21, Numbers, StageNames DEF OtherLeavesPort, ChromeTypes, ChromeTypeOK, Living, WorkerAlive,
     NoCommand, files
<1>22. CASE UNCHANGED chromeVars
  BY <1>22 DEF ChromeTypes, ChromeTypeOK, Living, WorkerAlive, NoCommand, chromeVars, files
<1> QED
  BY <1>1, <1>2, <1>3, <1>4, <1>5, <1>6, <1>7, <1>8, <1>9, <1>10, <1>11, <1>12, <1>13, <1>14, <1>15,
     <1>16, <1>17, <1>18, <1>19, <1>20, <1>21, <1>22 DEF ChromeNext

\* A browser is not there before it is spawned; writers of a name have begun.
LEMMA StagesStep ==
    ASSUME ChromeTypes, BrowserStages, WritersBegan, [ChromeNext]_chromeVars
    PROVE  (BrowserStages /\ WritersBegan)'
<1>1. CASE LaunchDaemon
  BY <1>1, Domains, Numbers DEF LaunchDaemon, Kill, Freed, ReadChromePid, Living, WorkerAlive,
     BrowserStages, WritersBegan, files
<1>2. CASE DaemonDies
  BY <1>2, Domains, Numbers DEF DaemonDies, Living, WorkerAlive, BrowserStages, WritersBegan, files
<1>3. ASSUME NEW s \in Sessions, StartSession(s)
      PROVE  (BrowserStages /\ WritersBegan)'
  BY <1>3, Domains, Numbers DEF StartSession, To, Living, WorkerAlive, BrowserStages, WritersBegan, files
<1>4. ASSUME NEW s \in Sessions, ReservePort(s)
      PROVE  (BrowserStages /\ WritersBegan)'
  BY <1>4, Domains, Numbers DEF ReservePort, To, Living, WorkerAlive, BrowserStages, WritersBegan, files
<1>5. ASSUME NEW s \in Sessions, Spawn(s)
      PROVE  (BrowserStages /\ WritersBegan)'
  BY <1>5, Domains, Numbers DEF Spawn, To, Living, WorkerAlive, BrowserStages, WritersBegan, files
<1>6. ASSUME NEW s \in Sessions, Bind(s)
      PROVE  (BrowserStages /\ WritersBegan)'
  BY <1>6, Domains, Numbers DEF Bind, To, Living, WorkerAlive, BrowserStages, WritersBegan, files
<1>7. ASSUME NEW s \in Sessions, Ready(s)
      PROVE  (BrowserStages /\ WritersBegan)'
  BY <1>7, Domains, Numbers DEF Ready, To, WriteChromePid, Living, WorkerAlive, BrowserStages,
     WritersBegan, files
<1>8. ASSUME NEW s \in Sessions, LaunchFails(s)
      PROVE  (BrowserStages /\ WritersBegan)'
  BY <1>8, Domains, Numbers DEF LaunchFails, To, Kill, Freed, Living, WorkerAlive, BrowserStages,
     WritersBegan, files
<1>9. ASSUME NEW s \in Sessions, FetchTargets(s)
      PROVE  (BrowserStages /\ WritersBegan)'
  <2>1. \E x \in {"connect", "over"} : stage' = [stage EXCEPT ![s] = x]
    BY <1>9 DEF FetchTargets, To
  <2> QED
    BY <1>9, Domains, <2>1 DEF FetchTargets, Living, WorkerAlive, BrowserStages, WritersBegan, files
<1>10. ASSUME NEW s \in Sessions, SessionUp(s)
      PROVE  (BrowserStages /\ WritersBegan)'
  BY <1>10, Domains, Numbers DEF SessionUp, To, Living, WorkerAlive, BrowserStages, WritersBegan, files
<1>11. ASSUME NEW s \in Sessions, CleanupBegins(s)
      PROVE  (BrowserStages /\ WritersBegan)'
  <2>c. /\ stage[s] \in {"connect", "up", "asked"}
        /\ UNCHANGED <<overlap, daemon, sessionPid, meta, port, listener, taken, cli>>
        /\ \A t \in Sessions : by'[t] \subseteq by[t] \cup {s}
        /\ \A t \in Sessions : browser'[t] = browser[t] \/ (browser[t] = "running" /\ browser'[t] = "dying")
        /\ \E x \in {"snapshot", "closing"} :
               /\ stage' = [stage EXCEPT ![s] = x]
               /\ x = "snapshot" => stage[s] = "asked"
               /\ x = "closing" => browser'[s] # "running"
    BY <1>11, CleanupWrites
  <2> QED
    BY <2>c, Domains DEF BrowserStages, WritersBegan
<1>12. ASSUME NEW s \in Sessions, SnapshotEnds(s)
      PROVE  (BrowserStages /\ WritersBegan)'
  BY <1>12, Domains, Numbers DEF SnapshotEnds, To, Terminate, Living, WorkerAlive, BrowserStages,
     WritersBegan, files
<1>13. ASSUME NEW s \in Sessions, WorkerExits(s)
      PROVE  (BrowserStages /\ WritersBegan)'
  BY <1>13, Domains, Numbers DEF WorkerExits, To, Living, WorkerAlive, BrowserStages, WritersBegan, files
<1>14. ASSUME NEW s \in Sessions, WorkerDies(s)
      PROVE  (BrowserStages /\ WritersBegan)'
  BY <1>14, Domains, Numbers DEF WorkerDies, To, Living, WorkerAlive, BrowserStages, WritersBegan, files
<1>15. ASSUME NEW s \in Sessions, ChromeProcessEnds(s)
      PROVE  (BrowserStages /\ WritersBegan)'
  BY <1>15, Domains, Numbers DEF ChromeProcessEnds, Kill, Freed, Living, WorkerAlive, BrowserStages,
     WritersBegan, files
<1>16. ASSUME NEW kill \in BOOLEAN, Stop(kill)
      PROVE  (BrowserStages /\ WritersBegan)'
  BY <1>16, Domains, Numbers DEF Stop, To, Living, WorkerAlive, BrowserStages, WritersBegan, files
<1>17. CASE CleanupStaleChrome
  BY <1>17, Domains, Numbers DEF CleanupStaleChrome, ReadChromePid, Living, WorkerAlive, BrowserStages,
     WritersBegan, files
<1>18. CASE KillChromeProcess
  <2>k. /\ UNCHANGED <<overlap, daemon, files, stage, port, taken>>
        /\ \A s \in Sessions :
               browser'[s] = browser[s] \/ (Living(s) /\ browser'[s] \in {"dying", "dead"})
        /\ \A p \in Ports : listener'[p] = listener[p] \/ listener'[p] = Nobody
        /\ cli' = NoCommand \/ (cli # NoCommand /\ cli' = [cli EXCEPT !.at = "clear"])
    BY <1>18, CommandKills
  <2> QED
    BY <2>k, Domains, Numbers DEF Living, BrowserStages, WritersBegan, files
<1>19. CASE ClearChromePid
  BY <1>19, Domains, Numbers DEF ClearChromePid, Living, WorkerAlive, BrowserStages, WritersBegan, files
<1>20. ASSUME NEW p \in Ports, OtherTakesPort(p)
      PROVE  (BrowserStages /\ WritersBegan)'
  BY <1>20, Domains, Numbers DEF OtherTakesPort, Living, WorkerAlive, BrowserStages, WritersBegan, files
<1>21. ASSUME NEW p \in Ports, OtherLeavesPort(p)
      PROVE  (BrowserStages /\ WritersBegan)'
  BY <1>21, Domains, Numbers DEF OtherLeavesPort, Living, WorkerAlive, BrowserStages, WritersBegan, files
<1>22. CASE UNCHANGED chromeVars
  BY <1>22 DEF Living, WorkerAlive, BrowserStages, WritersBegan, chromeVars, files
<1> QED
  BY <1>1, <1>2, <1>3, <1>4, <1>5, <1>6, <1>7, <1>8, <1>9, <1>10, <1>11, <1>12, <1>13, <1>14, <1>15,
     <1>16, <1>17, <1>18, <1>19, <1>20, <1>21, <1>22 DEF ChromeNext

\* From Chrome's spawn to the search for a page the port is watched.
LEMMA PortStep ==
    ASSUME ChromeTypes, BrowserStages, PortIsWatched, [ChromeNext]_chromeVars
    PROVE  PortIsWatched'
<1>1. CASE LaunchDaemon
  BY <1>1, Domains, Numbers DEF LaunchDaemon, Kill, Freed, ReadChromePid, Living, WorkerAlive,
     BrowserStages, PortIsWatched, Exposed, files
<1>2. CASE DaemonDies
  BY <1>2, Domains, Numbers DEF DaemonDies, Living, WorkerAlive, BrowserStages, PortIsWatched, Exposed,
     files
<1>3. ASSUME NEW s \in Sessions, StartSession(s)
      PROVE  PortIsWatched'
  BY <1>3, Domains, Numbers DEF StartSession, To, Living, WorkerAlive, BrowserStages, PortIsWatched,
     Exposed, files
<1>4. ASSUME NEW s \in Sessions, ReservePort(s)
      PROVE  PortIsWatched'
  BY <1>4, Domains, Numbers DEF ReservePort, To, Living, WorkerAlive, BrowserStages, PortIsWatched,
     Exposed, files
<1>5. ASSUME NEW s \in Sessions, Spawn(s)
      PROVE  PortIsWatched'
  BY <1>5, Domains, Numbers DEF Spawn, To, Living, WorkerAlive, BrowserStages, PortIsWatched, Exposed,
     files
<1>6. ASSUME NEW s \in Sessions, Bind(s)
      PROVE  PortIsWatched'
  BY <1>6, Domains, Numbers DEF Bind, To, Living, WorkerAlive, BrowserStages, PortIsWatched, Exposed, files
<1>7. ASSUME NEW s \in Sessions, Ready(s)
      PROVE  PortIsWatched'
  BY <1>7, Domains, Numbers DEF Ready, To, WriteChromePid, Living, WorkerAlive, BrowserStages,
     PortIsWatched, Exposed, files
<1>8. ASSUME NEW s \in Sessions, LaunchFails(s)
      PROVE  PortIsWatched'
  BY <1>8, Domains, Numbers DEF LaunchFails, To, Kill, Freed, Living, WorkerAlive, BrowserStages,
     PortIsWatched, Exposed, files
<1>9. ASSUME NEW s \in Sessions, FetchTargets(s)
      PROVE  PortIsWatched'
  BY <1>9, Domains, Numbers DEF FetchTargets, To, Living, WorkerAlive, BrowserStages, PortIsWatched,
     Exposed, files
<1>10. ASSUME NEW s \in Sessions, SessionUp(s)
      PROVE  PortIsWatched'
  BY <1>10, Domains, Numbers DEF SessionUp, To, Living, WorkerAlive, BrowserStages, PortIsWatched,
     Exposed, files
<1>11. ASSUME NEW s \in Sessions, CleanupBegins(s)
      PROVE  PortIsWatched'
  <2>c. /\ stage[s] \in {"connect", "up", "asked"}
        /\ UNCHANGED <<overlap, daemon, sessionPid, meta, port, listener, taken, cli>>
        /\ \A t \in Sessions : by'[t] \subseteq by[t] \cup {s}
        /\ \A t \in Sessions : browser'[t] = browser[t] \/ (browser[t] = "running" /\ browser'[t] = "dying")
        /\ \E x \in {"snapshot", "closing"} :
               /\ stage' = [stage EXCEPT ![s] = x]
               /\ x = "snapshot" => stage[s] = "asked"
               /\ x = "closing" => browser'[s] # "running"
    BY <1>11, CleanupWrites
  <2> QED
    BY <2>c, Domains DEF PortIsWatched, Exposed
<1>12. ASSUME NEW s \in Sessions, SnapshotEnds(s)
      PROVE  PortIsWatched'
  BY <1>12, Domains, Numbers DEF SnapshotEnds, To, Terminate, Living, WorkerAlive, BrowserStages,
     PortIsWatched, Exposed, files
<1>13. ASSUME NEW s \in Sessions, WorkerExits(s)
      PROVE  PortIsWatched'
  BY <1>13, Domains, Numbers DEF WorkerExits, To, Living, WorkerAlive, BrowserStages, PortIsWatched,
     Exposed, files
<1>14. ASSUME NEW s \in Sessions, WorkerDies(s)
      PROVE  PortIsWatched'
  BY <1>14, Domains, Numbers DEF WorkerDies, To, Living, WorkerAlive, BrowserStages, PortIsWatched,
     Exposed, files
<1>15. ASSUME NEW s \in Sessions, ChromeProcessEnds(s)
      PROVE  PortIsWatched'
  BY <1>15, Domains, Numbers DEF ChromeProcessEnds, Kill, Freed, Living, WorkerAlive, BrowserStages,
     PortIsWatched, Exposed, files
<1>16. ASSUME NEW kill \in BOOLEAN, Stop(kill)
      PROVE  PortIsWatched'
  BY <1>16, Domains, Numbers DEF Stop, To, Living, WorkerAlive, BrowserStages, PortIsWatched, Exposed,
     files
<1>17. CASE CleanupStaleChrome
  BY <1>17, Domains, Numbers DEF CleanupStaleChrome, ReadChromePid, Living, WorkerAlive, BrowserStages,
     PortIsWatched, Exposed, files
<1>18. CASE KillChromeProcess
  <2>k. /\ UNCHANGED <<overlap, daemon, files, stage, port, taken>>
        /\ \A s \in Sessions :
               browser'[s] = browser[s] \/ (Living(s) /\ browser'[s] \in {"dying", "dead"})
        /\ \A p \in Ports : listener'[p] = listener[p] \/ listener'[p] = Nobody
        /\ cli' = NoCommand \/ (cli # NoCommand /\ cli' = [cli EXCEPT !.at = "clear"])
    BY <1>18, CommandKills
  <2> QED
    BY <2>k, Domains, Numbers DEF PortIsWatched, Exposed, files
<1>19. CASE ClearChromePid
  BY <1>19, Domains, Numbers DEF ClearChromePid, Living, WorkerAlive, BrowserStages, PortIsWatched,
     Exposed, files
<1>20. ASSUME NEW p \in Ports, OtherTakesPort(p)
      PROVE  PortIsWatched'
  BY <1>20, Domains, Numbers DEF OtherTakesPort, Living, WorkerAlive, BrowserStages, PortIsWatched,
     Exposed, files
<1>21. ASSUME NEW p \in Ports, OtherLeavesPort(p)
      PROVE  PortIsWatched'
  BY <1>21, Domains, Numbers DEF OtherLeavesPort, Living, WorkerAlive, BrowserStages, PortIsWatched,
     Exposed, files
<1>22. CASE UNCHANGED chromeVars
  BY <1>22 DEF Living, WorkerAlive, BrowserStages, PortIsWatched, Exposed, chromeVars, files
<1> QED
  BY <1>1, <1>2, <1>3, <1>4, <1>5, <1>6, <1>7, <1>8, <1>9, <1>10, <1>11, <1>12, <1>13, <1>14, <1>15,
     <1>16, <1>17, <1>18, <1>19, <1>20, <1>21, <1>22 DEF ChromeNext

\* Sessions are compared as numbers.
LEMMA SessionsInOrder == Sessions \subseteq Nat
  BY SessionsAssumption

\* Sessions are launched one at a time and in order.
LEMMA TurnStep ==
    ASSUME ChromeTypes, BrowserStages, ~overlap, InTurn, [ChromeNext]_chromeVars
    PROVE  InTurn'
<1>1. CASE LaunchDaemon
  BY <1>1, Domains, Numbers, SessionsInOrder DEF LaunchDaemon, Kill, Freed, ReadChromePid, Free,
     Living, WorkerAlive, BrowserStages, InTurn, Launching, NoCommand, files
<1>2. CASE DaemonDies
  BY <1>2, Domains, Numbers, SessionsInOrder DEF DaemonDies, Living, WorkerAlive, BrowserStages,
     InTurn, Launching, NoCommand, files
<1>3. ASSUME NEW s \in Sessions, StartSession(s)
      PROVE  InTurn'
  <2>1. /\ stage' = [stage EXCEPT ![s] = "begun"] /\ UNCHANGED <<browser, sessionPid, cli>>
        /\ stage[s] = "none" /\ Free
    BY <1>3 DEF StartSession, To, files
  <2>f. cli = NoCommand /\ \A t \in Sessions : stage[t] \notin Launching
    BY <2>1 DEF Free
  <2>2. \A t \in Sessions : t < s => stage[t] # "none"
    BY <1>3 DEF StartSession
  <2>3. \A t \in Sessions : s < t => stage[t] = "none"
    BY <2>1 DEF InTurn
  <2> QED
    BY Domains, <2>1, <2>f, <2>2, <2>3, SessionsInOrder DEF InTurn, Launching
<1>4. ASSUME NEW s \in Sessions, ReservePort(s)
      PROVE  InTurn'
  <2>1. /\ stage[s] = "begun" /\ sessionPid' = s /\ UNCHANGED <<browser, cli>>
        /\ \E x \in {"spawn", "over"} : stage' = [stage EXCEPT ![s] = x]
    BY <1>4 DEF ReservePort, To
  <2>2. \A t \in Sessions : t # s => stage[t] \notin Launching
    BY <2>1, SessionsInOrder DEF InTurn, Launching
  <2>3. \A t \in Sessions : s < t => browser[t] = "none"
    BY <2>1, SessionsInOrder DEF InTurn, Launching, BrowserStages
  <2> QED
    BY Domains, <2>1, <2>2, <2>3, SessionsInOrder DEF InTurn, Launching
<1>5. ASSUME NEW s \in Sessions, Spawn(s)
      PROVE  InTurn'
  <2>1. /\ stage[s] = "spawn" /\ UNCHANGED <<sessionPid, cli>>
        /\ \E x \in {"bind", "over"} : stage' = [stage EXCEPT ![s] = x]
        /\ \A t \in Sessions : t # s => browser'[t] = browser[t]
    BY <1>5, Domains DEF Spawn, To, files
  <2>2. sessionPid = s /\ cli = NoCommand
    BY <2>1 DEF InTurn, Launching
  <2>3. \A t \in Sessions : t # s => stage[t] \notin Launching
    BY <2>1, SessionsInOrder DEF InTurn, Launching
  <2> QED
    BY Domains, <2>1, <2>2, <2>3, SessionsInOrder DEF InTurn, Launching
<1>6. ASSUME NEW s \in Sessions, Bind(s)
      PROVE  InTurn'
  BY <1>6, Domains, Numbers, SessionsInOrder DEF Bind, To, Living, WorkerAlive, BrowserStages, InTurn,
     Launching, NoCommand, files
<1>7. ASSUME NEW s \in Sessions, Ready(s)
      PROVE  InTurn'
  BY <1>7, Domains, Numbers, SessionsInOrder DEF Ready, To, WriteChromePid, Living, WorkerAlive,
     BrowserStages, InTurn, Launching, NoCommand, files
<1>8. ASSUME NEW s \in Sessions, LaunchFails(s)
      PROVE  InTurn'
  BY <1>8, Domains, Numbers, SessionsInOrder DEF LaunchFails, To, Kill, Freed, Living, WorkerAlive,
     BrowserStages, InTurn, Launching, NoCommand, files
<1>9. ASSUME NEW s \in Sessions, FetchTargets(s)
      PROVE  InTurn'
  <2>1. /\ stage[s] = "target" /\ UNCHANGED <<sessionPid, cli, browser>>
        /\ \E x \in {"connect", "over"} : stage' = [stage EXCEPT ![s] = x]
    BY <1>9 DEF FetchTargets, To, files
  <2>2. sessionPid = s /\ cli = NoCommand
    BY <2>1 DEF InTurn, Launching
  <2> QED
    BY Domains, <2>1, <2>2, SessionsInOrder DEF InTurn, Launching
<1>10. ASSUME NEW s \in Sessions, SessionUp(s)
      PROVE  InTurn'
  BY <1>10, Domains, Numbers, SessionsInOrder DEF SessionUp, To, Living, WorkerAlive, BrowserStages,
     InTurn, Launching, NoCommand, files
<1>11. ASSUME NEW s \in Sessions, CleanupBegins(s)
      PROVE  InTurn'
  <2>c. /\ stage[s] \in {"connect", "up", "asked"}
        /\ UNCHANGED <<overlap, daemon, sessionPid, meta, port, listener, taken, cli>>
        /\ \A t \in Sessions : by'[t] \subseteq by[t] \cup {s}
        /\ \A t \in Sessions : browser'[t] = browser[t] \/ (browser[t] = "running" /\ browser'[t] = "dying")
        /\ \E x \in {"snapshot", "closing"} :
               /\ stage' = [stage EXCEPT ![s] = x]
               /\ x = "snapshot" => stage[s] = "asked"
               /\ x = "closing" => browser'[s] # "running"
    BY <1>11, CleanupWrites
  <2> QED
    BY <2>c, Domains, SessionsInOrder DEF BrowserStages, InTurn, Launching
<1>12. ASSUME NEW s \in Sessions, SnapshotEnds(s)
      PROVE  InTurn'
  BY <1>12, Domains, Numbers, SessionsInOrder DEF SnapshotEnds, To, Terminate, Living, WorkerAlive,
     BrowserStages, InTurn, Launching, NoCommand, files
<1>13. ASSUME NEW s \in Sessions, WorkerExits(s)
      PROVE  InTurn'
  BY <1>13, Domains, Numbers, SessionsInOrder DEF WorkerExits, To, Living, WorkerAlive, BrowserStages,
     InTurn, Launching, NoCommand, files
<1>14. ASSUME NEW s \in Sessions, WorkerDies(s)
      PROVE  InTurn'
  BY <1>14, Domains, Numbers, SessionsInOrder DEF WorkerDies, To, Living, WorkerAlive, BrowserStages,
     InTurn, Launching, NoCommand, files
<1>15. ASSUME NEW s \in Sessions, ChromeProcessEnds(s)
      PROVE  InTurn'
  BY <1>15, Domains, Numbers, SessionsInOrder DEF ChromeProcessEnds, Kill, Freed, Living, WorkerAlive,
     BrowserStages, InTurn, Launching, NoCommand, files
<1>16. ASSUME NEW kill \in BOOLEAN, Stop(kill)
      PROVE  InTurn'
  BY <1>16, Domains, Numbers, SessionsInOrder DEF Stop, To, Free, Living, WorkerAlive, BrowserStages,
     InTurn, Launching, NoCommand, files
<1>17. CASE CleanupStaleChrome
  BY <1>17, Domains, Numbers, SessionsInOrder DEF CleanupStaleChrome, ReadChromePid, Free, Living,
     WorkerAlive, BrowserStages, InTurn, Launching, NoCommand, files
<1>18. CASE KillChromeProcess
  <2>k. /\ UNCHANGED <<overlap, daemon, files, stage, port, taken>>
        /\ \A s \in Sessions :
               browser'[s] = browser[s] \/ (Living(s) /\ browser'[s] \in {"dying", "dead"})
        /\ \A p \in Ports : listener'[p] = listener[p] \/ listener'[p] = Nobody
        /\ cli' = NoCommand \/ (cli # NoCommand /\ cli' = [cli EXCEPT !.at = "clear"])
    BY <1>18, CommandKills
  <2> QED
    BY <2>k, Domains, SessionsInOrder DEF Living, BrowserStages, InTurn, Launching, files
<1>19. CASE ClearChromePid
  BY <1>19, Domains, Numbers, SessionsInOrder DEF ClearChromePid, Living, WorkerAlive, BrowserStages,
     InTurn, Launching, NoCommand, files
<1>20. ASSUME NEW p \in Ports, OtherTakesPort(p)
      PROVE  InTurn'
  BY <1>20, Domains, Numbers, SessionsInOrder DEF OtherTakesPort, Living, WorkerAlive, BrowserStages,
     InTurn, Launching, NoCommand, files
<1>21. ASSUME NEW p \in Ports, OtherLeavesPort(p)
      PROVE  InTurn'
  BY <1>21, Domains, Numbers, SessionsInOrder DEF OtherLeavesPort, Living, WorkerAlive, BrowserStages,
     InTurn, Launching, NoCommand, files
<1>22. CASE UNCHANGED chromeVars
  BY <1>22 DEF Living, WorkerAlive, BrowserStages, InTurn, Launching, NoCommand, chromeVars, files
<1> QED
  BY <1>1, <1>2, <1>3, <1>4, <1>5, <1>6, <1>7, <1>8, <1>9, <1>10, <1>11, <1>12, <1>13, <1>14, <1>15,
     <1>16, <1>17, <1>18, <1>19, <1>20, <1>21, <1>22 DEF ChromeNext

\* A session on record that is up has its metadata there.
LEMMA RecordStep ==
    ASSUME ChromeTypes, BrowserStages, ~overlap, InTurn, OnRecord, [ChromeNext]_chromeVars
    PROVE  OnRecord'
<1>1. CASE LaunchDaemon
  BY <1>1, Domains, Numbers, SessionsInOrder DEF LaunchDaemon, Kill, Freed, ReadChromePid, Free,
     Living, WorkerAlive, BrowserStages, InTurn, OnRecord, Launching, files
<1>2. CASE DaemonDies
  BY <1>2, Domains, Numbers, SessionsInOrder DEF DaemonDies, Living, WorkerAlive, BrowserStages,
     InTurn, OnRecord, Launching, files
<1>3. ASSUME NEW s \in Sessions, StartSession(s)
      PROVE  OnRecord'
  BY <1>3, Domains, Numbers, SessionsInOrder DEF StartSession, To, Free, Living, WorkerAlive,
     BrowserStages, InTurn, OnRecord, Launching, files
<1>4. ASSUME NEW s \in Sessions, ReservePort(s)
      PROVE  OnRecord'
  BY <1>4, Domains, Numbers, SessionsInOrder DEF ReservePort, To, Living, WorkerAlive, BrowserStages,
     InTurn, OnRecord, Launching, files
<1>5. ASSUME NEW s \in Sessions, Spawn(s)
      PROVE  OnRecord'
  BY <1>5, Domains, Numbers, SessionsInOrder DEF Spawn, To, Living, WorkerAlive, BrowserStages, InTurn,
     OnRecord, Launching, files
<1>6. ASSUME NEW s \in Sessions, Bind(s)
      PROVE  OnRecord'
  BY <1>6, Domains, Numbers, SessionsInOrder DEF Bind, To, Living, WorkerAlive, BrowserStages, InTurn,
     OnRecord, Launching, files
<1>7. ASSUME NEW s \in Sessions, Ready(s)
      PROVE  OnRecord'
  BY <1>7, Domains, Numbers, SessionsInOrder DEF Ready, To, WriteChromePid, Living, WorkerAlive,
     BrowserStages, InTurn, OnRecord, Launching, files
<1>8. ASSUME NEW s \in Sessions, LaunchFails(s)
      PROVE  OnRecord'
  BY <1>8, Domains, Numbers, SessionsInOrder DEF LaunchFails, To, Kill, Freed, Living, WorkerAlive,
     BrowserStages, InTurn, OnRecord, Launching, files
<1>9. ASSUME NEW s \in Sessions, FetchTargets(s)
      PROVE  OnRecord'
  BY <1>9, Domains, Numbers, SessionsInOrder DEF FetchTargets, To, Living, WorkerAlive, BrowserStages,
     InTurn, OnRecord, Launching, files
<1>10. ASSUME NEW s \in Sessions, SessionUp(s)
      PROVE  OnRecord'
  BY <1>10, Domains, Numbers, SessionsInOrder DEF SessionUp, To, Living, WorkerAlive, BrowserStages,
     InTurn, OnRecord, Launching, files
<1>11. ASSUME NEW s \in Sessions, CleanupBegins(s)
      PROVE  OnRecord'
  <2>c. /\ stage[s] \in {"connect", "up", "asked"}
        /\ UNCHANGED <<overlap, daemon, sessionPid, meta, port, listener, taken, cli>>
        /\ \A t \in Sessions : by'[t] \subseteq by[t] \cup {s}
        /\ \A t \in Sessions : browser'[t] = browser[t] \/ (browser[t] = "running" /\ browser'[t] = "dying")
        /\ \E x \in {"snapshot", "closing"} :
               /\ stage' = [stage EXCEPT ![s] = x]
               /\ x = "snapshot" => stage[s] = "asked"
               /\ x = "closing" => browser'[s] # "running"
    BY <1>11, CleanupWrites
  <2> QED
    BY <2>c, Domains DEF OnRecord
<1>12. ASSUME NEW s \in Sessions, SnapshotEnds(s)
      PROVE  OnRecord'
  BY <1>12, Domains, Numbers, SessionsInOrder DEF SnapshotEnds, To, Terminate, Living, WorkerAlive,
     BrowserStages, InTurn, OnRecord, Launching, files
<1>13. ASSUME NEW s \in Sessions, WorkerExits(s)
      PROVE  OnRecord'
  BY <1>13, Domains, Numbers, SessionsInOrder DEF WorkerExits, To, Living, WorkerAlive, BrowserStages,
     InTurn, OnRecord, Launching, files
<1>14. ASSUME NEW s \in Sessions, WorkerDies(s)
      PROVE  OnRecord'
  BY <1>14, Domains, Numbers, SessionsInOrder DEF WorkerDies, To, Living, WorkerAlive, BrowserStages,
     InTurn, OnRecord, Launching, files
<1>15. ASSUME NEW s \in Sessions, ChromeProcessEnds(s)
      PROVE  OnRecord'
  BY <1>15, Domains, Numbers, SessionsInOrder DEF ChromeProcessEnds, Kill, Freed, Living, WorkerAlive,
     BrowserStages, InTurn, OnRecord, Launching, files
<1>16. ASSUME NEW kill \in BOOLEAN, Stop(kill)
      PROVE  OnRecord'
  BY <1>16, Domains, Numbers, SessionsInOrder DEF Stop, To, Free, Living, WorkerAlive, BrowserStages,
     InTurn, OnRecord, Launching, files
<1>17. CASE CleanupStaleChrome
  BY <1>17, Domains, Numbers, SessionsInOrder DEF CleanupStaleChrome, ReadChromePid, Free, Living,
     WorkerAlive, BrowserStages, InTurn, OnRecord, Launching, files
<1>18. CASE KillChromeProcess
  <2>k. /\ UNCHANGED <<overlap, daemon, files, stage, port, taken>>
        /\ \A s \in Sessions :
               browser'[s] = browser[s] \/ (Living(s) /\ browser'[s] \in {"dying", "dead"})
        /\ \A p \in Ports : listener'[p] = listener[p] \/ listener'[p] = Nobody
        /\ cli' = NoCommand \/ (cli # NoCommand /\ cli' = [cli EXCEPT !.at = "clear"])
    BY <1>18, CommandKills
  <2> QED
    BY <2>k, Domains DEF OnRecord, files
<1>19. CASE ClearChromePid
  BY <1>19, Domains, Numbers, SessionsInOrder DEF ClearChromePid, Living, WorkerAlive, BrowserStages,
     InTurn, OnRecord, Launching, files
<1>20. ASSUME NEW p \in Ports, OtherTakesPort(p)
      PROVE  OnRecord'
  BY <1>20, Domains, Numbers, SessionsInOrder DEF OtherTakesPort, Living, WorkerAlive, BrowserStages,
     InTurn, OnRecord, Launching, files
<1>21. ASSUME NEW p \in Ports, OtherLeavesPort(p)
      PROVE  OnRecord'
  BY <1>21, Domains, Numbers, SessionsInOrder DEF OtherLeavesPort, Living, WorkerAlive, BrowserStages,
     InTurn, OnRecord, Launching, files
<1>22. CASE UNCHANGED chromeVars
  BY <1>22 DEF Living, WorkerAlive, BrowserStages, InTurn, OnRecord, Launching, chromeVars, files
<1> QED
  BY <1>1, <1>2, <1>3, <1>4, <1>5, <1>6, <1>7, <1>8, <1>9, <1>10, <1>11, <1>12, <1>13, <1>14, <1>15,
     <1>16, <1>17, <1>18, <1>19, <1>20, <1>21, <1>22 DEF ChromeNext

\* A session that reserved a port found no earlier one there.
LEMMA FreePortStep ==
    ASSUME ChromeTypes, BrowserStages, ~overlap, InTurn, PortWasFree, [ChromeNext]_chromeVars
    PROVE  PortWasFree'
<1>1. CASE LaunchDaemon
  BY <1>1, Domains, Numbers, SessionsInOrder DEF LaunchDaemon, Kill, Freed, ReadChromePid, Free,
     Living, WorkerAlive, BrowserStages, InTurn, PortWasFree, Launching, files
<1>2. CASE DaemonDies
  BY <1>2, Domains, Numbers, SessionsInOrder DEF DaemonDies, Living, WorkerAlive, BrowserStages,
     InTurn, PortWasFree, Launching, files
<1>3. ASSUME NEW s \in Sessions, StartSession(s)
      PROVE  PortWasFree'
  <2>1. PICK p \in Ports : port' = [port EXCEPT ![s] = p]
    BY <1>3 DEF StartSession
  <2>2. /\ stage' = [stage EXCEPT ![s] = "begun"] /\ listener' = listener /\ stage[s] = "none"
    BY <1>3 DEF StartSession, To
  <2>3. \A t \in Sessions : s < t => stage[t] = "none"
    BY <2>2 DEF InTurn
  <2>4. \A p_ \in Ports : listener[p_] # s
    BY Domains, <2>2 DEF BrowserStages
  <2> QED
    BY Domains, <2>1, <2>2, <2>3, <2>4, SessionsInOrder DEF PortWasFree
<1>4. ASSUME NEW s \in Sessions, ReservePort(s)
      PROVE  PortWasFree'
  <2>1. /\ stage[s] = "begun" /\ UNCHANGED <<port, listener>>
        /\ stage' = [stage EXCEPT ![s] = IF listener[port[s]] = Nobody THEN "spawn" ELSE "over"]
    BY <1>4 DEF ReservePort, To
  <2>2. \A t \in Sessions : s < t => stage[t] = "none"
    BY <2>1, SessionsInOrder DEF InTurn, Launching
  <2> QED
    BY Domains, <2>1, <2>2, Numbers, SessionsInOrder DEF PortWasFree
<1>5. ASSUME NEW s \in Sessions, Spawn(s)
      PROVE  PortWasFree'
  BY <1>5, Domains, Numbers, SessionsInOrder DEF Spawn, To, Living, WorkerAlive, BrowserStages, InTurn,
     PortWasFree, Launching, files
<1>6. ASSUME NEW s \in Sessions, Bind(s)
      PROVE  PortWasFree'
  BY <1>6, Domains, Numbers, SessionsInOrder DEF Bind, To, Living, WorkerAlive, BrowserStages, InTurn,
     PortWasFree, Launching, files
<1>7. ASSUME NEW s \in Sessions, Ready(s)
      PROVE  PortWasFree'
  BY <1>7, Domains, Numbers, SessionsInOrder DEF Ready, To, WriteChromePid, Living, WorkerAlive,
     BrowserStages, InTurn, PortWasFree, Launching, files
<1>8. ASSUME NEW s \in Sessions, LaunchFails(s)
      PROVE  PortWasFree'
  BY <1>8, Domains, Numbers, SessionsInOrder DEF LaunchFails, To, Kill, Freed, Living, WorkerAlive,
     BrowserStages, InTurn, PortWasFree, Launching, files
<1>9. ASSUME NEW s \in Sessions, FetchTargets(s)
      PROVE  PortWasFree'
  BY <1>9, Domains, Numbers, SessionsInOrder DEF FetchTargets, To, Living, WorkerAlive, BrowserStages,
     InTurn, PortWasFree, Launching, files
<1>10. ASSUME NEW s \in Sessions, SessionUp(s)
      PROVE  PortWasFree'
  BY <1>10, Domains, Numbers, SessionsInOrder DEF SessionUp, To, Living, WorkerAlive, BrowserStages,
     InTurn, PortWasFree, Launching, files
<1>11. ASSUME NEW s \in Sessions, CleanupBegins(s)
      PROVE  PortWasFree'
  <2>c. /\ stage[s] \in {"connect", "up", "asked"}
        /\ UNCHANGED <<overlap, daemon, sessionPid, meta, port, listener, taken, cli>>
        /\ \A t \in Sessions : by'[t] \subseteq by[t] \cup {s}
        /\ \A t \in Sessions : browser'[t] = browser[t] \/ (browser[t] = "running" /\ browser'[t] = "dying")
        /\ \E x \in {"snapshot", "closing"} :
               /\ stage' = [stage EXCEPT ![s] = x]
               /\ x = "snapshot" => stage[s] = "asked"
               /\ x = "closing" => browser'[s] # "running"
    BY <1>11, CleanupWrites
  <2> QED
    BY <2>c, Domains DEF PortWasFree
<1>12. ASSUME NEW s \in Sessions, SnapshotEnds(s)
      PROVE  PortWasFree'
  BY <1>12, Domains, Numbers, SessionsInOrder DEF SnapshotEnds, To, Terminate, Living, WorkerAlive,
     BrowserStages, InTurn, PortWasFree, Launching, files
<1>13. ASSUME NEW s \in Sessions, WorkerExits(s)
      PROVE  PortWasFree'
  BY <1>13, Domains, Numbers, SessionsInOrder DEF WorkerExits, To, Living, WorkerAlive, BrowserStages,
     InTurn, PortWasFree, Launching, files
<1>14. ASSUME NEW s \in Sessions, WorkerDies(s)
      PROVE  PortWasFree'
  BY <1>14, Domains, Numbers, SessionsInOrder DEF WorkerDies, To, Living, WorkerAlive, BrowserStages,
     InTurn, PortWasFree, Launching, files
<1>15. ASSUME NEW s \in Sessions, ChromeProcessEnds(s)
      PROVE  PortWasFree'
  BY <1>15, Domains, Numbers, SessionsInOrder DEF ChromeProcessEnds, Kill, Freed, Living, WorkerAlive,
     BrowserStages, InTurn, PortWasFree, Launching, files
<1>16. ASSUME NEW kill \in BOOLEAN, Stop(kill)
      PROVE  PortWasFree'
  BY <1>16, Domains, Numbers, SessionsInOrder DEF Stop, To, Free, Living, WorkerAlive, BrowserStages,
     InTurn, PortWasFree, Launching, files
<1>17. CASE CleanupStaleChrome
  BY <1>17, Domains, Numbers, SessionsInOrder DEF CleanupStaleChrome, ReadChromePid, Free, Living,
     WorkerAlive, BrowserStages, InTurn, PortWasFree, Launching, files
<1>18. CASE KillChromeProcess
  <2>k. /\ UNCHANGED <<overlap, daemon, files, stage, port, taken>>
        /\ \A s \in Sessions :
               browser'[s] = browser[s] \/ (Living(s) /\ browser'[s] \in {"dying", "dead"})
        /\ \A p \in Ports : listener'[p] = listener[p] \/ listener'[p] = Nobody
        /\ cli' = NoCommand \/ (cli # NoCommand /\ cli' = [cli EXCEPT !.at = "clear"])
    BY <1>18, CommandKills
  <2> QED
    BY <2>k, Domains, Numbers DEF PortWasFree, files
<1>19. CASE ClearChromePid
  BY <1>19, Domains, Numbers, SessionsInOrder DEF ClearChromePid, Living, WorkerAlive, BrowserStages,
     InTurn, PortWasFree, Launching, files
<1>20. ASSUME NEW p \in Ports, OtherTakesPort(p)
      PROVE  PortWasFree'
  BY <1>20, Domains, Numbers, SessionsInOrder DEF OtherTakesPort, Living, WorkerAlive, BrowserStages,
     InTurn, PortWasFree, Launching, files
<1>21. ASSUME NEW p \in Ports, OtherLeavesPort(p)
      PROVE  PortWasFree'
  BY <1>21, Domains, Numbers, SessionsInOrder DEF OtherLeavesPort, Living, WorkerAlive, BrowserStages,
     InTurn, PortWasFree, Launching, files
<1>22. CASE UNCHANGED chromeVars
  BY <1>22 DEF Living, WorkerAlive, BrowserStages, InTurn, PortWasFree, Launching, chromeVars, files
<1> QED
  BY <1>1, <1>2, <1>3, <1>4, <1>5, <1>6, <1>7, <1>8, <1>9, <1>10, <1>11, <1>12, <1>13, <1>14, <1>15,
     <1>16, <1>17, <1>18, <1>19, <1>20, <1>21, <1>22 DEF ChromeNext

\* What displaces a name stays, as does the port of a session that has begun.
LEMMA StaysDisplaced ==
    ASSUME NEW s \in Sessions, Displaced(s), by[s] \subseteq by'[s],
           port'[s] = port[s], \A t \in by[s] : port'[t] = port[t]
    PROVE  Displaced(s)'
  BY DEF Displaced

\* Names are kept by a step that writes none, records no browser and starts no command.
LEMMA NamesFollow ==
    ASSUME NamesAreKept, slot' = slot,
           \A s \in Sessions : Recorded(s)' => Recorded(s),
           \A s \in Sessions : Displaced(s) /\ Recorded(s)' => Displaced(s)',
           \A t \in Sessions : stage'[t] \in Late => stage[t] \in Late,
           \/ cli' = NoCommand
           \/ cli' = cli /\ \A s \in Sessions : browser'[s] = "running" => browser[s] = "running",
           slot \in Sessions \cup {Nobody}, cli.target \in Sessions \cup {Nobody}
    PROVE  NamesAreKept'
<1>1. \A s \in Sessions : Recorded(s)' => slot' = s \/ Displaced(s)'
  BY DEF NamesAreKept
<1>2. \A s, t \in Sessions : s < t /\ stage'[t] \in Late /\ Recorded(s)' => Displaced(s)'
  BY DEF NamesAreKept, Late
<1>3. cli' # NoCommand /\ slot' # Nobody /\ slot' # cli'.target /\ Recorded(slot)' => Displaced(slot)'
  BY DEF NamesAreKept
<1>4. cli'.at = "clear" /\ cli'.target # Nobody => browser'[cli'.target] # "running"
  <2>1. NoCommand.at = "idle"
    BY DEF NoCommand
  <2> QED
    BY <2>1 DEF NamesAreKept
<1> QED
  BY <1>1, <1>2, <1>3, <1>4 DEF NamesAreKept

\* No name of an orphan is lost; Ready, CleanupBegins, Stop and the commands are the steps that could.
LEMMA NamesStep ==
    ASSUME ChromeTypes, BrowserStages, ~overlap, WritersBegan, InTurn, OnRecord, PortWasFree,
           NamesAreKept, [ChromeNext]_chromeVars
    PROVE  NamesAreKept'
<1>t. cli.target \in Sessions \cup {Nobody}
  BY DEF ChromeTypes
<1>1. CASE LaunchDaemon
  <2>1. /\ Free /\ slot' = Nobody /\ by' = by /\ port' = port /\ cli' = cli
        /\ Kill({ReadChromePid} \ {Nobody})
    BY <1>1 DEF LaunchDaemon
  <2>2. stage' = [x \in Sessions |->
                    IF x = sessionPid /\ WorkerAlive(x)
                    THEN (IF stage[x] \in {"bind", "ready"} THEN "lost" ELSE "over")
                    ELSE stage[x]]
    BY <1>1 DEF LaunchDaemon
  <2>3. \A x \in Sessions : browser'[x] = "running" => browser[x] = "running" /\ slot # x
    BY Domains, <2>1, Numbers DEF Kill, ReadChromePid, Living
  <2>4. \A p \in Ports : listener'[p] = listener[p] \/ listener'[p] = Nobody
    BY <2>1 DEF Kill, Freed
  <2>5. \A x \in Sessions : Recorded(x)' => Recorded(x) /\ slot # x
    BY Domains, <2>1, <2>2, <2>3, <2>4, Numbers DEF Recorded, WorkerAlive
  <2>6. \A x \in Sessions : Recorded(x)' => Displaced(x)'
    BY <2>1, <2>5, StaysDisplaced DEF NamesAreKept
  <2>7. cli' = NoCommand /\ NoCommand.at = "idle"
    BY <2>1 DEF Free, NoCommand
  <2> QED
    BY <2>6, <2>7 DEF NamesAreKept
<1>2. CASE DaemonDies
  <2>a. slot' = slot /\ by' = by /\ UNCHANGED port
    BY <1>2 DEF DaemonDies, files
  <2>b. \A x \in Sessions : Recorded(x)' => Recorded(x)
    BY <1>2, Domains, Numbers DEF DaemonDies, Recorded, BrowserStages, files
  <2>c. \A x \in Sessions : stage'[x] \in Late => stage[x] \in Late
    BY <1>2, Domains DEF DaemonDies, Late
  <2>e. cli' = cli /\ (cli # NoCommand => \A x \in Sessions : browser'[x] = "running" => browser[x] = "running")
    BY <1>2, Domains DEF DaemonDies, InTurn, Launching
  <2> QED
    BY Domains, <1>t, <2>a, <2>b, <2>c, <2>e, NamesFollow, StaysDisplaced
<1>3. ASSUME NEW s \in Sessions, StartSession(s)
      PROVE  NamesAreKept'
  <2>1. PICK p \in Ports : port' = [port EXCEPT ![s] = p]
    BY <1>3 DEF StartSession
  <2>2. /\ stage[s] = "none" /\ stage' = [stage EXCEPT ![s] = "begun"]
        /\ slot' = slot /\ by' = by /\ cli' = cli /\ UNCHANGED <<browser, listener>>
    BY <1>3 DEF StartSession, To, files
  <2>3. browser[s] = "none" /\ \A x \in Sessions : s \notin by[x]
    BY <2>2 DEF BrowserStages, WritersBegan
  <2>4. \A x \in Sessions : x # s => port'[x] = port[x]
    BY Domains, <2>1
  <2>5. \A x \in Sessions : Recorded(x)' => x # s /\ Recorded(x)
    BY Domains, <2>2, <2>3, <2>4 DEF Recorded
  <2>6. \A x \in Sessions : Displaced(x) /\ Recorded(x)' => Displaced(x)'
    <3> SUFFICES ASSUME NEW x \in Sessions, Displaced(x), x # s PROVE Displaced(x)'
      BY <2>5
    <3>1. port'[x] = port[x] /\ \A t \in by[x] : port'[t] = port[t]
      BY Domains, <2>3, <2>4
    <3> QED
      BY <2>2, <3>1, StaysDisplaced
  <2>7. \A x \in Sessions : stage'[x] \in Late => stage[x] \in Late
    BY Domains, <2>2 DEF Late
  <2> QED
    BY Domains, <1>t, <2>2, <2>5, <2>6, <2>7, NamesFollow
<1>4. ASSUME NEW s \in Sessions, ReservePort(s)
      PROVE  NamesAreKept'
  <2>a. slot' = slot /\ by' = by /\ UNCHANGED port
    BY <1>4 DEF ReservePort, To, files
  <2>b. \A x \in Sessions : Recorded(x)' => Recorded(x)
    BY <1>4, Domains, Numbers DEF ReservePort, To, Recorded, BrowserStages, files
  <2>c. \A x \in Sessions : stage'[x] \in Late => stage[x] \in Late
    BY <1>4, Domains DEF ReservePort, To, Late
  <2>e. cli' = cli /\ (cli # NoCommand => \A x \in Sessions : browser'[x] = "running" => browser[x] = "running")
    BY <1>4, Domains DEF ReservePort, To, InTurn, Launching
  <2> QED
    BY Domains, <1>t, <2>a, <2>b, <2>c, <2>e, NamesFollow, StaysDisplaced
<1>5. ASSUME NEW s \in Sessions, Spawn(s)
      PROVE  NamesAreKept'
  <2>a. slot' = slot /\ by' = by /\ UNCHANGED port
    BY <1>5 DEF Spawn, To, files
  <2>b. \A x \in Sessions : Recorded(x)' => Recorded(x)
    BY <1>5, Domains, Numbers DEF Spawn, To, Recorded, BrowserStages, files
  <2>c. \A x \in Sessions : stage'[x] \in Late => stage[x] \in Late
    BY <1>5, Domains DEF Spawn, To, Late
  <2>e. cli' = cli /\ (cli # NoCommand => \A x \in Sessions : browser'[x] = "running" => browser[x] = "running")
    BY <1>5, Domains DEF Spawn, To, InTurn, Launching
  <2> QED
    BY Domains, <1>t, <2>a, <2>b, <2>c, <2>e, NamesFollow, StaysDisplaced
<1>6. ASSUME NEW s \in Sessions, Bind(s)
      PROVE  NamesAreKept'
  <2>a. slot' = slot /\ by' = by /\ UNCHANGED port
    BY <1>6 DEF Bind, To, files
  <2>b. \A x \in Sessions : Recorded(x)' => Recorded(x)
    BY <1>6, Domains, Numbers DEF Bind, To, Recorded, BrowserStages, files
  <2>c. \A x \in Sessions : stage'[x] \in Late => stage[x] \in Late
    BY <1>6, Domains DEF Bind, To, Late
  <2>e. cli' = cli /\ (cli # NoCommand => \A x \in Sessions : browser'[x] = "running" => browser[x] = "running")
    BY <1>6, Domains DEF Bind, To, InTurn, Launching
  <2> QED
    BY Domains, <1>t, <2>a, <2>b, <2>c, <2>e, NamesFollow, StaysDisplaced
<1>7. ASSUME NEW s \in Sessions, Ready(s)
      PROVE  NamesAreKept'
  <2>1. /\ stage[s] = "ready" /\ stage' = [stage EXCEPT ![s] = "target"] /\ slot' = s
        /\ UNCHANGED <<port, browser, listener, cli>>
        /\ \A t \in Sessions :
               by'[t] = IF t = slot /\ slot # s /\ Living(slot) THEN by[t] \cup {s} ELSE by[t]
    BY <1>7, Written DEF Ready, To
  <2>2. \A x \in Sessions : x # s /\ Recorded(x)' => Recorded(x)
    BY Domains, <2>1 DEF Recorded
  <2>3. \A x \in Sessions : x # s /\ Recorded(x)' => Displaced(x)'
    <3> SUFFICES ASSUME NEW x \in Sessions, x # s, Recorded(x)'
                 PROVE  Displaced(x)'
      OBVIOUS
    <3>1. Recorded(x)
      BY <2>2
    <3>2. CASE slot = x
      <4>1. s \in by'[x]
        BY <2>1, <3>1, <3>2, Numbers DEF Living, Recorded
      <4>2. port[s] # port[x] \/ s < x
        <5> SUFFICES ASSUME port[x] = port[s], x < s PROVE FALSE
          BY SessionsInOrder
        <5> QED
          BY <2>1, <3>1 DEF PortWasFree, Recorded
      <4> QED
        BY <2>1, <4>1, <4>2 DEF Displaced
    <3>3. CASE slot # x
      BY <2>1, <3>1, <3>3, StaysDisplaced DEF NamesAreKept
    <3> QED
      BY <3>2, <3>3
  <2>4. cli = NoCommand /\ NoCommand.at = "idle"
    BY <2>1 DEF InTurn, Launching, NoCommand
  <2>5. \A t \in Sessions : s < t => stage'[t] \notin Late
    BY Domains, <2>1, SessionsInOrder DEF InTurn, Launching, Late
  <2>6. \A x, t \in Sessions : x < t /\ stage'[t] \in Late /\ Recorded(x)' => Displaced(x)'
    BY <2>3, <2>5
  <2> QED
    BY <2>1, <2>3, <2>4, <2>6 DEF NamesAreKept
<1>8. ASSUME NEW s \in Sessions, LaunchFails(s)
      PROVE  NamesAreKept'
  <2>a. slot' = slot /\ by' = by /\ UNCHANGED port
    BY <1>8 DEF LaunchFails, To, Kill, Freed, Living, files
  <2>b. \A x \in Sessions : Recorded(x)' => Recorded(x)
    BY <1>8, Domains, Numbers DEF LaunchFails, To, Kill, Freed, Living, Recorded, BrowserStages, files
  <2>c. \A x \in Sessions : stage'[x] \in Late => stage[x] \in Late
    BY <1>8, Domains DEF LaunchFails, To, Kill, Freed, Living, Late
  <2>e. cli' = cli /\ (cli # NoCommand => \A x \in Sessions : browser'[x] = "running" => browser[x] = "running")
    BY <1>8, Domains DEF LaunchFails, To, Kill, Freed, Living, InTurn, Launching
  <2> QED
    BY Domains, <1>t, <2>a, <2>b, <2>c, <2>e, NamesFollow, StaysDisplaced
<1>9. ASSUME NEW s \in Sessions, FetchTargets(s)
      PROVE  NamesAreKept'
  <2>a. slot' = slot /\ by' = by /\ UNCHANGED port
    BY <1>9 DEF FetchTargets, To, files
  <2>b. \A x \in Sessions : Recorded(x)' => Recorded(x)
    BY <1>9, Domains, Numbers DEF FetchTargets, To, Recorded, BrowserStages, files
  <2>c. \A x \in Sessions : stage'[x] \in Late => stage[x] \in Late
    BY <1>9, Domains DEF FetchTargets, To, Late
  <2>e. cli' = cli /\ (cli # NoCommand => \A x \in Sessions : browser'[x] = "running" => browser[x] = "running")
    BY <1>9, Domains DEF FetchTargets, To, InTurn, Launching
  <2> QED
    BY Domains, <1>t, <2>a, <2>b, <2>c, <2>e, NamesFollow, StaysDisplaced
<1>10. ASSUME NEW s \in Sessions, SessionUp(s)
      PROVE  NamesAreKept'
  <2>a. slot' = slot /\ by' = by /\ UNCHANGED port
    BY <1>10 DEF SessionUp, To, files
  <2>b. \A x \in Sessions : Recorded(x)' => Recorded(x)
    BY <1>10, Domains, Numbers DEF SessionUp, To, Recorded, BrowserStages, files
  <2>c. \A x \in Sessions : stage'[x] \in Late => stage[x] \in Late
    BY <1>10, Domains DEF SessionUp, To, Late
  <2>e. cli' = cli /\ (cli # NoCommand => \A x \in Sessions : browser'[x] = "running" => browser[x] = "running")
    BY <1>10, Domains DEF SessionUp, To, InTurn, Launching
  <2> QED
    BY Domains, <1>t, <2>a, <2>b, <2>c, <2>e, NamesFollow, StaysDisplaced
<1>11. ASSUME NEW s \in Sessions, CleanupBegins(s)
      PROVE  NamesAreKept'
  <2>1. /\ stage[s] \in {"connect", "up", "asked"} /\ slot' = s
        /\ UNCHANGED <<port, listener, cli>>
        /\ \A t \in Sessions :
               by'[t] = IF t = slot /\ slot # s /\ Living(slot) THEN by[t] \cup {s} ELSE by[t]
        /\ \A t \in Sessions : browser'[t] = browser[t] \/ (browser[t] = "running" /\ browser'[t] = "dying")
        /\ \E x \in {"snapshot", "closing"} : stage' = [stage EXCEPT ![s] = x]
    BY <1>11, CleanupWrites
  <2>2. \A x \in Sessions : Recorded(x)' => Recorded(x)
    BY Domains, <2>1 DEF Recorded
  <2>3. \A x \in Sessions : x # s /\ Recorded(x)' => Displaced(x)'
    <3> SUFFICES ASSUME NEW x \in Sessions, x # s, Recorded(x)'
                 PROVE  Displaced(x)'
      OBVIOUS
    <3>1. Recorded(x)
      BY <2>2
    <3>2. CASE slot = x
      <4>1. s \in by'[x]
        BY <2>1, <3>1, <3>2, Numbers DEF Living, Recorded
      <4>2. port[s] # port[x] \/ s < x
        <5> SUFFICES ASSUME port[x] = port[s], x < s PROVE FALSE
          BY SessionsInOrder
        <5> QED
          BY <2>1, <3>1 DEF PortWasFree, Recorded
      <4> QED
        BY <2>1, <4>1, <4>2 DEF Displaced
    <3>3. CASE slot # x
      BY <2>1, <3>1, <3>3, StaysDisplaced DEF NamesAreKept
    <3> QED
      BY <3>2, <3>3
  <2>4. \A x \in Sessions : Displaced(x) => Displaced(x)'
    BY <2>1, StaysDisplaced
  <2>5. \A t \in Sessions : stage'[t] \in Late => stage[t] \in Late
    BY Domains, <2>1 DEF Late
  <2>6. \A x \in Sessions : Recorded(x)' => slot' = x \/ Displaced(x)'
    BY <2>1, <2>3
  <2>7. \A x, t \in Sessions : x < t /\ stage'[t] \in Late /\ Recorded(x)' => Displaced(x)'
    BY <2>2, <2>4, <2>5 DEF NamesAreKept
  <2>8. cli' # NoCommand /\ slot' # Nobody /\ slot' # cli'.target /\ Recorded(slot)' => Displaced(slot)'
    <3> SUFFICES ASSUME cli # NoCommand, s # cli.target, Recorded(s)
                 PROVE  Displaced(s)
      BY <2>1, <2>2, <2>4
    <3> QED
      BY Numbers DEF NamesAreKept
  <2>9. cli'.at = "clear" /\ cli'.target # Nobody => browser'[cli'.target] # "running"
    BY <1>t, <2>1 DEF NamesAreKept
  <2> QED
    BY <2>6, <2>7, <2>8, <2>9 DEF NamesAreKept
<1>12. ASSUME NEW s \in Sessions, SnapshotEnds(s)
      PROVE  NamesAreKept'
  <2>a. slot' = slot /\ by' = by /\ UNCHANGED port
    BY <1>12 DEF SnapshotEnds, To, Terminate, files
  <2>b. \A x \in Sessions : Recorded(x)' => Recorded(x)
    BY <1>12, Domains, Numbers DEF SnapshotEnds, To, Terminate, Recorded, BrowserStages, files
  <2>c. \A x \in Sessions : stage'[x] \in Late => stage[x] \in Late
    BY <1>12, Domains DEF SnapshotEnds, To, Terminate, Late
  <2>e. cli' = cli /\ (cli # NoCommand => \A x \in Sessions : browser'[x] = "running" => browser[x] = "running")
    BY <1>12, Domains DEF SnapshotEnds, To, Terminate, InTurn, Launching
  <2> QED
    BY Domains, <1>t, <2>a, <2>b, <2>c, <2>e, NamesFollow, StaysDisplaced
<1>13. ASSUME NEW s \in Sessions, WorkerExits(s)
      PROVE  NamesAreKept'
  <2>a. slot' = slot /\ by' = by /\ UNCHANGED port
    BY <1>13 DEF WorkerExits, To, files
  <2>b. \A x \in Sessions : Recorded(x)' => Recorded(x)
    BY <1>13, Domains, Numbers DEF WorkerExits, To, Recorded, BrowserStages, files
  <2>c. \A x \in Sessions : stage'[x] \in Late => stage[x] \in Late
    BY <1>13, Domains DEF WorkerExits, To, Late
  <2>e. cli' = cli /\ (cli # NoCommand => \A x \in Sessions : browser'[x] = "running" => browser[x] = "running")
    BY <1>13, Domains DEF WorkerExits, To, InTurn, Launching
  <2> QED
    BY Domains, <1>t, <2>a, <2>b, <2>c, <2>e, NamesFollow, StaysDisplaced
<1>14. ASSUME NEW s \in Sessions, WorkerDies(s)
      PROVE  NamesAreKept'
  <2>a. slot' = slot /\ by' = by /\ UNCHANGED port
    BY <1>14 DEF WorkerDies, To, WorkerAlive, files
  <2>b. \A x \in Sessions : Recorded(x)' => Recorded(x)
    BY <1>14, Domains, Numbers DEF WorkerDies, To, WorkerAlive, Recorded, BrowserStages, files
  <2>c. \A x \in Sessions : stage'[x] \in Late => stage[x] \in Late
    BY <1>14, Domains DEF WorkerDies, To, WorkerAlive, Late
  <2>e. cli' = cli /\ (cli # NoCommand => \A x \in Sessions : browser'[x] = "running" => browser[x] = "running")
    BY <1>14, Domains DEF WorkerDies, To, WorkerAlive, InTurn, Launching
  <2> QED
    BY Domains, <1>t, <2>a, <2>b, <2>c, <2>e, NamesFollow, StaysDisplaced
<1>15. ASSUME NEW s \in Sessions, ChromeProcessEnds(s)
      PROVE  NamesAreKept'
  <2>a. slot' = slot /\ by' = by /\ UNCHANGED port
    BY <1>15 DEF ChromeProcessEnds, Kill, Freed, Living, files
  <2>b. \A x \in Sessions : Recorded(x)' => Recorded(x)
    BY <1>15, Domains, Numbers DEF ChromeProcessEnds, Kill, Freed, Living, Recorded, BrowserStages, files
  <2>c. \A x \in Sessions : stage'[x] \in Late => stage[x] \in Late
    BY <1>15, Domains DEF ChromeProcessEnds, Kill, Freed, Living, Late
  <2>e. cli' = cli /\ (cli # NoCommand => \A x \in Sessions : browser'[x] = "running" => browser[x] = "running")
    BY <1>15, Domains DEF ChromeProcessEnds, Kill, Freed, Living, InTurn, Launching
  <2> QED
    BY Domains, <1>t, <2>a, <2>b, <2>c, <2>e, NamesFollow, StaysDisplaced
<1>16. ASSUME NEW kill \in BOOLEAN, Stop(kill)
      PROVE  NamesAreKept'
  <2>1. /\ WorkerAlive(sessionPid) /\ Free /\ slot' = slot /\ by' = by /\ UNCHANGED <<port, browser, listener>>
        /\ cli' = NoCommand \/ (cli'.at = "kill" /\ cli'.target = meta)
    BY <1>16 DEF Stop
  <2>2. sessionPid \in Sessions /\ stage[sessionPid] \in {"up", "asked", "snapshot", "closing"}
    BY Domains, <2>1 DEF WorkerAlive, Free, Stages
  <2>3. stage' = [stage EXCEPT ![sessionPid] = IF stage[sessionPid] = "up" THEN "asked" ELSE stage[sessionPid]]
    BY <1>16, <2>2 DEF Stop, To, Launching
  <2>4. \A x \in Sessions : (Recorded(x)' <=> Recorded(x)) /\ (Displaced(x)' <=> Displaced(x))
    BY Domains, <2>1, <2>2, <2>3 DEF Recorded, Displaced
  <2>5. \A t \in Sessions : stage'[t] \in Late => stage[t] \in Late
    BY Domains, <2>2, <2>3 DEF Late
  <2>6. slot # Nobody /\ slot # meta /\ Recorded(slot) => Displaced(slot)
    <3> SUFFICES ASSUME slot \in Sessions, slot # meta, Recorded(slot)
                 PROVE  Displaced(slot)
      BY Domains
    <3>1. CASE slot < sessionPid
      BY <2>2, <3>1 DEF NamesAreKept, Late
    <3>2. CASE sessionPid < slot
      BY <2>2, <3>2, Numbers DEF InTurn, Recorded
    <3>3. CASE slot = sessionPid
      BY <2>2, <3>3, Numbers DEF OnRecord, BrowserStages, Recorded
    <3> QED
      BY <2>2, <3>1, <3>2, <3>3, SessionsInOrder
  <2>7. \A x \in Sessions : Recorded(x)' => slot' = x \/ Displaced(x)'
    BY <2>1, <2>4 DEF NamesAreKept
  <2>8. \A x, t \in Sessions : x < t /\ stage'[t] \in Late /\ Recorded(x)' => Displaced(x)'
    BY <2>4, <2>5 DEF NamesAreKept
  <2>9. cli' # NoCommand /\ slot' # Nobody /\ slot' # cli'.target /\ Recorded(slot)' => Displaced(slot)'
    BY Domains, <2>1, <2>4, <2>6
  <2>10. cli'.at # "clear"
    <3>1. NoCommand.at = "idle"
      BY DEF NoCommand
    <3> QED
      BY <2>1, <3>1
  <2> QED
    BY <2>7, <2>8, <2>9, <2>10 DEF NamesAreKept
<1>17. CASE CleanupStaleChrome
  <2>1. UNCHANGED <<by, stage, port, browser, listener>> /\ slot' = ReadChromePid
    BY <1>17 DEF CleanupStaleChrome
  <2>2. \A x \in Sessions : (Recorded(x)' <=> Recorded(x)) /\ (Displaced(x)' <=> Displaced(x))
    BY <2>1 DEF Recorded, Displaced
  <2>3. \A x \in Sessions : Recorded(x) /\ slot = x => slot' = x
    BY <2>1, Numbers DEF ReadChromePid, Living, Recorded
  <2>4. cli'.at # "clear" /\ (cli' # NoCommand => cli'.target = slot')
    BY <1>17 DEF CleanupStaleChrome, NoCommand
  <2>5. \A x \in Sessions : Recorded(x)' => slot' = x \/ Displaced(x)'
    BY <2>2, <2>3 DEF NamesAreKept
  <2>6. \A x, t \in Sessions : x < t /\ stage'[t] \in Late /\ Recorded(x)' => Displaced(x)'
    BY <2>1, <2>2 DEF NamesAreKept
  <2> QED
    BY <2>4, <2>5, <2>6 DEF NamesAreKept
<1>18. CASE KillChromeProcess
  <2>1. /\ UNCHANGED <<files, stage, port>> /\ cli # NoCommand
        /\ \A x \in Sessions : browser'[x] = "running" => browser[x] = "running"
        /\ \A p \in Ports : listener'[p] = listener[p] \/ listener'[p] = Nobody
        /\ cli' = NoCommand \/ (cli' = [cli EXCEPT !.at = "clear"] /\ browser'[cli.target] # "running")
    BY <1>18, CommandKills
  <2>2. slot' = slot /\ by' = by /\ stage' = stage /\ port' = port
    BY <2>1 DEF files
  <2>3. \A x \in Sessions : (Recorded(x)' => Recorded(x)) /\ (Displaced(x)' <=> Displaced(x))
    BY Domains, <2>1, <2>2, Numbers DEF Recorded, Displaced
  <2>4. CASE cli' = NoCommand
    BY Domains, <1>t, <2>2, <2>3, <2>4, NamesFollow
  <2>5. CASE cli' = [cli EXCEPT !.at = "clear"] /\ browser'[cli.target] # "running"
    <3>1. cli'.target = cli.target
      BY <2>5 DEF ChromeTypes
    <3>2. cli' # NoCommand /\ slot' # Nobody /\ slot' # cli'.target /\ Recorded(slot)' => Displaced(slot)'
      BY Domains, <2>1, <2>2, <2>3, <3>1 DEF NamesAreKept
    <3> QED
      BY <2>2, <2>3, <2>5, <3>1, <3>2 DEF NamesAreKept
  <2> QED
    BY <2>1, <2>4, <2>5
<1>19. CASE ClearChromePid
  <2>1. /\ UNCHANGED <<by, stage, port, browser, listener>> /\ slot' = Nobody /\ cli' = NoCommand
        /\ cli.at = "clear" /\ NoCommand.at = "idle"
    BY <1>19 DEF ClearChromePid, NoCommand
  <2>2. \A x \in Sessions : (Recorded(x)' <=> Recorded(x)) /\ (Displaced(x)' <=> Displaced(x))
    BY <2>1 DEF Recorded, Displaced
  <2>3. \A x \in Sessions : Recorded(x) => Displaced(x)
    BY <2>1, Numbers DEF NamesAreKept, Recorded
  <2> QED
    BY <2>1, <2>2, <2>3 DEF NamesAreKept
<1>20. ASSUME NEW p \in Ports, OtherTakesPort(p)
      PROVE  NamesAreKept'
  <2>a. slot' = slot /\ by' = by /\ UNCHANGED port
    BY <1>20 DEF OtherTakesPort, files
  <2>b. \A x \in Sessions : Recorded(x)' => Recorded(x)
    BY <1>20, Domains, Numbers DEF OtherTakesPort, Recorded, BrowserStages, files
  <2>c. \A x \in Sessions : stage'[x] \in Late => stage[x] \in Late
    BY <1>20, Domains DEF OtherTakesPort, Late
  <2>e. cli' = cli /\ (cli # NoCommand => \A x \in Sessions : browser'[x] = "running" => browser[x] = "running")
    BY <1>20, Domains DEF OtherTakesPort, InTurn, Launching
  <2> QED
    BY Domains, <1>t, <2>a, <2>b, <2>c, <2>e, NamesFollow, StaysDisplaced
<1>21. ASSUME NEW p \in Ports, OtherLeavesPort(p)
      PROVE  NamesAreKept'
  <2>a. slot' = slot /\ by' = by /\ UNCHANGED port
    BY <1>21 DEF OtherLeavesPort, files
  <2>b. \A x \in Sessions : Recorded(x)' => Recorded(x)
    BY <1>21, Domains, Numbers DEF OtherLeavesPort, Recorded, BrowserStages, files
  <2>c. \A x \in Sessions : stage'[x] \in Late => stage[x] \in Late
    BY <1>21, Domains DEF OtherLeavesPort, Late
  <2>e. cli' = cli /\ (cli # NoCommand => \A x \in Sessions : browser'[x] = "running" => browser[x] = "running")
    BY <1>21, Domains DEF OtherLeavesPort, InTurn, Launching
  <2> QED
    BY Domains, <1>t, <2>a, <2>b, <2>c, <2>e, NamesFollow, StaysDisplaced
<1>22. CASE UNCHANGED chromeVars
  BY <1>22 DEF NamesAreKept, Recorded, Displaced, chromeVars, files
<1> QED
  BY <1>1, <1>2, <1>3, <1>4, <1>5, <1>6, <1>7, <1>8, <1>9, <1>10, <1>11, <1>12, <1>13, <1>14, <1>15,
     <1>16, <1>17, <1>18, <1>19, <1>20, <1>21, <1>22 DEF ChromeNext

\* Before the first command no session has begun.
LEMMA InitIInv ==
    ASSUME ChromeInit
    PROVE  IInv
<1>1. ChromeTypes
  <2>1. port \in [Sessions -> Ports]
    BY SessionsAssumption DEF ChromeInit
  <2> QED
    BY <2>1, Numbers, StageNames DEF ChromeInit, ChromeTypes, ChromeTypeOK, NoCommand
<1>2. BrowserStages /\ PortIsWatched /\ WritersBegan
  BY DEF ChromeInit, BrowserStages, PortIsWatched, WritersBegan, Exposed
<1>3. InTurn /\ OnRecord
  BY DEF ChromeInit, InTurn, OnRecord, Launching
<1>4. PortWasFree
  BY DEF ChromeInit, PortWasFree
<1>5. NamesAreKept
  <2>1. \A s \in Sessions : ~Recorded(s)
    BY DEF ChromeInit, Recorded
  <2>2. NoCommand.at = "idle"
    BY DEF NoCommand
  <2> QED
    BY <2>1, <2>2 DEF ChromeInit, NamesAreKept
<1> QED
  BY <1>1, <1>2, <1>3, <1>4, <1>5 DEF IInv, Patient

\* Whether commands overlap does not change.
LEMMA SameTyping ==
    ASSUME [ChromeNext]_chromeVars
    PROVE  overlap' = overlap
  BY DEF ChromeNext, chromeVars, files, LaunchDaemon, DaemonDies, StartSession, ReservePort, Spawn,
     Bind,
         Ready, LaunchFails, FetchTargets, SessionUp, CleanupBegins, SnapshotEnds, WorkerExits, WorkerDies,
         ChromeProcessEnds, Stop, CleanupStaleChrome, KillChromeProcess, ClearChromePid, OtherTakesPort,
         OtherLeavesPort

\* The invariant of every reachable state: what is on record, who listens and which
\* names were written over hang together.
THEOREM Invariance == ChromeSpec => []IInv
<1>1. ChromeInit => IInv
  BY InitIInv
<1>2. IInv /\ [ChromeNext]_chromeVars => IInv'
  <2> SUFFICES ASSUME IInv, [ChromeNext]_chromeVars
               PROVE  IInv'
    OBVIOUS
  <2>1. ChromeTypes' /\ BrowserStages' /\ WritersBegan' /\ PortIsWatched'
    BY TypeStep, StagesStep, PortStep DEF IInv
  <2>2. ~overlap' => Patient'
    BY SameTyping, TurnStep, RecordStep, FreePortStep, NamesStep DEF IInv, Patient
  <2> QED
    BY <2>1, <2>2 DEF IInv
<1> QED
  BY <1>1, <1>2, PTL DEF ChromeSpec

\* Types of the machine's state; who listens on a port for bdg is a process that runs.
THEOREM TypeCorrect == ChromeSpec => []ChromeTypeOK
<1>1. IInv => ChromeTypeOK
  BY DEF IInv, ChromeTypes
<1> QED
  BY <1>1, Invariance, PTL

\* Of commands that wait for each other none loses a browser whose worker is gone:
\* chrome.pid still names it, or a session on another port or an earlier one wrote
\* over its name.
THEOREM OrphansAreNamed == ChromeSpec => []OrphanIsNamed
<1>1. IInv => OrphanIsNamed
  <2> SUFFICES ASSUME IInv, ~overlap, NEW s \in Sessions, Orphan(s)
               PROVE  slot = s \/ \E t \in by[s] : port[t] # port[s] \/ t < s
    BY DEF OrphanIsNamed
  <2>1. Recorded(s)
    BY DEF Orphan, Recorded
  <2> QED
    BY <2>1 DEF IInv, Patient, NamesAreKept, Displaced
<1> QED
  BY <1>1, Invariance, PTL

\* A worker asks its own browser for a page, unless somebody took the port between
\* Chrome's spawn and this request.
THEOREM WorkerFindsOwnBrowser == ChromeSpec => OwnBrowser
<1>1. IInv /\ [ChromeNext]_chromeVars =>
          [\A s \in Sessions :
              stage[s] = "target" /\ stage'[s] = "connect" => listener[port[s]] = s \/ taken[s]]_chromeVars
  <2> SUFFICES ASSUME IInv, [ChromeNext]_chromeVars, NEW s \in Sessions,
                      stage[s] = "target", stage'[s] = "connect"
               PROVE  listener[port[s]] = s \/ taken[s]
    OBVIOUS
  <2>1. FetchTargets(s)
    <3>s. stage \in [Sessions -> Stages]
      BY DEF IInv, ChromeTypes, ChromeTypeOK
    <3> QED
      BY <3>s DEF ChromeNext, chromeVars, files, To, LaunchDaemon, DaemonDies, StartSession,
         ReservePort, Spawn,
           Bind, Ready, LaunchFails, FetchTargets, SessionUp, CleanupBegins, SnapshotEnds, WorkerExits,
           WorkerDies, ChromeProcessEnds, Stop, CleanupStaleChrome, KillChromeProcess, ClearChromePid,
           OtherTakesPort, OtherLeavesPort, Launching
  <2>2. listener[port[s]] # Nobody
    BY <2>1 DEF FetchTargets, To, IInv, ChromeTypes, ChromeTypeOK
  <2> QED
    BY <2>2 DEF IInv, PortIsWatched, Exposed
<1> QED
  BY <1>1, Invariance, PTL DEF ChromeSpec, OwnBrowser

=============================================================================
