-------------------------- MODULE WorkerLifecycleProofs --------------------------
(***************************************************************************)
(* Safety of WorkerLifecycle for any number of overlapping cleanups and    *)
(* any set of configurations.                                              *)
(*                                                                         *)
(* Neither property is inductive: what a run will do to the browser is in  *)
(* the context it captured when it began, so the invariant says that this  *)
(* context is still current, and when which events can happen.             *)
(***************************************************************************)
EXTENDS WorkerLifecycle, TLAPS

Started(r) == run[r].at # "none"

\* Nothing to clean up, and nobody to do it, before the browser is known.
BeforeConnection ==
    Up /\ setup \in {"start", "launch", "target"} =>
        /\ \A r \in Runs : ~Started(r)
        /\ socket = "none" /\ ~chrome /\ ~cdp

BrowserStages ==
    /\ ~config.external /\ setup = "start" => chromeProc = "none"
    /\ ~config.external /\ chromeProc = "running" /\ setup # "launch" => chromeFile
    /\ config.external =>
          /\ ~chrome /\ chromeProc \in {"running", "dead"}
          /\ setup \notin {"launch", "target"}
    /\ chrome => chromeProc # "none"

\* The browser a run was given is still the one there is, and a run that waits
\* for it has asked it to end.
ContextIsCurrent ==
    \A r \in Runs :
        /\ Started(r) => run[r].chrome = chrome
        /\ run[r].at \in {"wait", "force"} => chromeProc \in {"dying", "dead"}

CleanEnd ==
    exited = "clean" =>
        /\ chrome => chromeProc # "running"
        /\ \E r \in Runs : /\ run[r].at = "done"
                           /\ run[r].reason = "normal" => output = "complete"

\* Signals are handled once main() is through, with a connection made.
SignalsAreLate ==
    /\ \A r \in Runs : Started(r) /\ run[r].reason = "normal" => setup = "active"
    /\ setup = "active" => cdp
    /\ setup \in {"collect", "navigate", "readiness", "active"} => socket # "none"

\* A run past its snapshot has closed the connection; a closed connection
\* means there is a snapshot, or a reason why not.
Snapshots ==
    config.dom =>
        /\ \A r \in Runs :
              run[r].reason = "normal" /\ run[r].at \in {"wait", "force", "done"} =>
                  socket = "closed"
        /\ socket = "closed" => \/ domData \/ lost
                                \/ \E r \in Runs : Started(r) /\ run[r].reason # "normal"

IInv ==
    /\ TypeOK /\ BeforeConnection /\ BrowserStages /\ ContextIsCurrent
    /\ CleanEnd /\ SignalsAreLate /\ Snapshots

-----------------------------------------------------------------------------
\* The variables keep their types.
LEMMA InitType == ASSUME Init PROVE TypeOK
BY ConfigsAssumption DEF Init, TypeOK, SetupStates, NoRun, Reasons

LEMMA TypeStep ==
    ASSUME TypeOK, [Next]_vars
    PROVE  TypeOK'
<1> USE DEF TypeOK, SetupStates, Reasons, Up, globals, results
<1>1. CASE Start
  BY <1>1 DEF Start, Proceed
<1>2. CASE SpawnChrome
  BY <1>2 DEF SpawnChrome
<1>3. CASE ChromeReady
  BY <1>3 DEF ChromeReady, Proceed
<1>4. CASE FindTarget
  BY <1>4 DEF FindTarget, Proceed
<1>5. CASE Connect
  BY <1>5 DEF Connect, Proceed
<1>6. CASE Collect
  BY <1>6 DEF Collect, Proceed
<1>7. CASE Navigate
  BY <1>7 DEF Navigate, Proceed
<1>8. CASE BecomeReady
  BY <1>8 DEF BecomeReady, Proceed
<1>9. CASE SetupFails
  <2>1. CASE setup = "launch"
    BY <1>9, <2>1 DEF SetupFails, Finish, Signalled, NoRun
  <2>2. CASE setup # "launch"
    BY <1>9, <2>2 DEF SetupFails, Begin, CloseAndKill, Finish, Signalled
  <2>. QED
    BY <2>1, <2>2
<1>10. CASE Disconnect
  BY <1>10 DEF Disconnect, CloseAndKill, Finish, Signalled
<1>11. CASE Signal
  BY <1>11 DEF Signal, Begin, CloseAndKill, Finish, Signalled
<1>12. CASE SessionTimeout
  BY <1>12 DEF SessionTimeout, Begin, CloseAndKill, Finish, Signalled
<1>13. CASE Killed
  BY <1>13 DEF Killed
<1>14. CASE ChromeDies
  BY <1>14 DEF ChromeDies
<1>15. ASSUME NEW r \in Runs, CollectDOM(r) PROVE TypeOK'
  <2>1. domData' \in BOOLEAN /\ lost' \in BOOLEAN
    BY <1>15, Zenon DEF CollectDOM
  <2>2. CASE run[r].chrome
    BY <1>15, <2>1, <2>2 DEF CollectDOM, CloseAndKill, Signalled
  <2>3. CASE ~run[r].chrome
    BY <1>15, <2>1, <2>3 DEF CollectDOM, CloseAndKill, Finish
  <2>. QED
    BY <2>2, <2>3
<1>16. ASSUME NEW r \in Runs, ChromeSeenDead(r) PROVE TypeOK'
  BY <1>16 DEF ChromeSeenDead, Finish
<1>17. ASSUME NEW r \in Runs, ForceKill(r) PROVE TypeOK'
  BY <1>17 DEF ForceKill, Signalled
<1>18. ASSUME NEW r \in Runs, ForceWaitEnds(r) PROVE TypeOK'
  BY <1>18 DEF ForceWaitEnds, Finish
<1>19. CASE UNCHANGED vars
  BY <1>19 DEF vars, globals, results
<1>. QED
  BY <1>1, <1>2, <1>3, <1>4, <1>5, <1>6, <1>7, <1>8, <1>9, <1>10,
     <1>11, <1>12, <1>13, <1>14, <1>15, <1>16, <1>17, <1>18, <1>19
     DEF Next, MainStep, CleanupStep

\* Type correctness of the worker (daemon/worker.ts).
THEOREM TypeCorrect == Spec => []TypeOK
<1>1. Init => TypeOK
  BY InitType
<1>2. TypeOK /\ [Next]_vars => TypeOK'
  BY TypeStep
<1>. QED
  BY <1>1, <1>2, PTL DEF Spec

-----------------------------------------------------------------------------
(***************************************************************************)
(* Each part of the invariant is kept by every step.                       *)
(***************************************************************************)
\* Until the browser is known no event starts a cleanup that goes on.
LEMMA BeforeConnectionStep ==
    ASSUME IInv, TypeOK', [Next]_vars
    PROVE  BeforeConnection'
<1> USE DEF IInv, TypeOK, BeforeConnection, Started, Up, globals, results
<1>1. CASE Start
  BY <1>1 DEF Start, Proceed
<1>2. CASE SpawnChrome
  BY <1>2 DEF SpawnChrome
<1>3. CASE ChromeReady
  BY <1>3 DEF ChromeReady, Proceed
<1>4. CASE FindTarget
  BY <1>4 DEF FindTarget, Proceed
<1>5. CASE Connect
  BY <1>5 DEF Connect, Proceed
<1>6. CASE Collect
  BY <1>6 DEF Collect, Proceed
<1>7. CASE Navigate
  BY <1>7 DEF Navigate, Proceed
<1>8. CASE BecomeReady
  BY <1>8 DEF BecomeReady, Proceed
<1>9. CASE SetupFails
  <2>1. CASE setup = "launch"
    BY <1>9, <2>1 DEF SetupFails, Finish, Signalled, NoRun
  <2>2. CASE setup # "launch"
    BY <1>9, <2>2 DEF SetupFails, Begin, CloseAndKill, Finish, Signalled
  <2>. QED
    BY <2>1, <2>2
<1>10. CASE Disconnect
  BY <1>10 DEF Disconnect, CloseAndKill, Finish, Signalled
<1>11. CASE Signal
  BY <1>11 DEF Signal, Begin, CloseAndKill, Finish, Signalled
<1>12. CASE SessionTimeout
  BY <1>12 DEF SessionTimeout, Begin, CloseAndKill, Finish, Signalled
<1>13. CASE Killed
  BY <1>13 DEF Killed
<1>14. CASE ChromeDies
  BY <1>14 DEF ChromeDies
<1>15. ASSUME NEW r \in Runs, CollectDOM(r) PROVE BeforeConnection'
  BY <1>15 DEF CollectDOM, CloseAndKill, Finish, Signalled
<1>16. ASSUME NEW r \in Runs, ChromeSeenDead(r) PROVE BeforeConnection'
  BY <1>16 DEF ChromeSeenDead, Finish
<1>17. ASSUME NEW r \in Runs, ForceKill(r) PROVE BeforeConnection'
  BY <1>17 DEF ForceKill, Signalled
<1>18. ASSUME NEW r \in Runs, ForceWaitEnds(r) PROVE BeforeConnection'
  BY <1>18 DEF ForceWaitEnds, Finish
<1>19. CASE UNCHANGED vars
  BY <1>19 DEF vars
<1>. QED
  BY <1>1, <1>2, <1>3, <1>4, <1>5, <1>6, <1>7, <1>8, <1>9, <1>10,
     <1>11, <1>12, <1>13, <1>14, <1>15, <1>16, <1>17, <1>18, <1>19
     DEF Next, MainStep, CleanupStep

\* A browser that runs is recorded or borrowed, through every step.
LEMMA BrowserStagesStep ==
    ASSUME IInv, TypeOK', [Next]_vars
    PROVE  BrowserStages'
<1> USE DEF IInv, TypeOK, BeforeConnection, BrowserStages, ContextIsCurrent,
            Started, Up, globals, results
<1>1. CASE Start
  BY <1>1 DEF Start, Proceed
<1>2. CASE SpawnChrome
  BY <1>2 DEF SpawnChrome
<1>3. CASE ChromeReady
  BY <1>3 DEF ChromeReady, Proceed
<1>4. CASE FindTarget
  BY <1>4 DEF FindTarget, Proceed
<1>5. CASE Connect
  BY <1>5 DEF Connect, Proceed
<1>6. CASE Collect
  BY <1>6 DEF Collect, Proceed
<1>7. CASE Navigate
  BY <1>7 DEF Navigate, Proceed
<1>8. CASE BecomeReady
  BY <1>8 DEF BecomeReady, Proceed
<1>9. CASE SetupFails
  <2>1. CASE setup = "launch"
    BY <1>9, <2>1 DEF SetupFails, Finish, Signalled, NoRun
  <2>2. CASE setup # "launch"
    BY <1>9, <2>2 DEF SetupFails, Begin, CloseAndKill, Finish, Signalled
  <2>. QED
    BY <2>1, <2>2
<1>10. CASE Disconnect
  BY <1>10 DEF Disconnect, CloseAndKill, Finish, Signalled
<1>11. CASE Signal
  BY <1>11 DEF Signal, Begin, CloseAndKill, Finish, Signalled
<1>12. CASE SessionTimeout
  BY <1>12 DEF SessionTimeout, Begin, CloseAndKill, Finish, Signalled
<1>13. CASE Killed
  BY <1>13 DEF Killed
<1>14. CASE ChromeDies
  BY <1>14 DEF ChromeDies
<1>15. ASSUME NEW r \in Runs, CollectDOM(r) PROVE BrowserStages'
  BY <1>15 DEF CollectDOM, CloseAndKill, Finish, Signalled
<1>16. ASSUME NEW r \in Runs, ChromeSeenDead(r) PROVE BrowserStages'
  BY <1>16 DEF ChromeSeenDead, Finish
<1>17. ASSUME NEW r \in Runs, ForceKill(r) PROVE BrowserStages'
  BY <1>17 DEF ForceKill, Signalled
<1>18. ASSUME NEW r \in Runs, ForceWaitEnds(r) PROVE BrowserStages'
  BY <1>18 DEF ForceWaitEnds, Finish
<1>19. CASE UNCHANGED vars
  BY <1>19 DEF vars
<1>. QED
  BY <1>1, <1>2, <1>3, <1>4, <1>5, <1>6, <1>7, <1>8, <1>9, <1>10,
     <1>11, <1>12, <1>13, <1>14, <1>15, <1>16, <1>17, <1>18, <1>19
     DEF Next, MainStep, CleanupStep

\* The globals do not change behind a run that has captured them.
LEMMA ContextIsCurrentStep ==
    ASSUME IInv, TypeOK', [Next]_vars
    PROVE  ContextIsCurrent'
<1> USE DEF IInv, TypeOK, BeforeConnection, BrowserStages, ContextIsCurrent,
            Started, Up, globals, results
<1>1. CASE Start
  BY <1>1 DEF Start, Proceed
<1>2. CASE SpawnChrome
  BY <1>2 DEF SpawnChrome
<1>3. CASE ChromeReady
  BY <1>3 DEF ChromeReady, Proceed
<1>4. CASE FindTarget
  BY <1>4 DEF FindTarget, Proceed
<1>5. CASE Connect
  BY <1>5 DEF Connect, Proceed
<1>6. CASE Collect
  BY <1>6 DEF Collect, Proceed
<1>7. CASE Navigate
  BY <1>7 DEF Navigate, Proceed
<1>8. CASE BecomeReady
  BY <1>8 DEF BecomeReady, Proceed
<1>9. CASE SetupFails
  <2>1. CASE setup = "launch"
    <3>1. PICK k \in Runs : Finish(k, [NoRun EXCEPT !.reason = "crash"])
      BY <1>9, <2>1 DEF SetupFails
    <3>2. run'[k].at = "done" /\ run'[k].chrome = FALSE
      BY <3>1 DEF Finish, NoRun
    <3>3. \A r \in Runs : r # k => run'[r] = run[r] /\ ~Started(r)
      BY <1>9, <2>1, <3>1 DEF SetupFails, Finish
    <3>4. ~chrome /\ chrome' = chrome
      BY <1>9, <2>1 DEF SetupFails
    <3>. QED
      BY <3>2, <3>3, <3>4
  <2>2. CASE setup # "launch"
    BY <1>9, <2>2 DEF SetupFails, Begin, CloseAndKill, Finish, Signalled
  <2>. QED
    BY <2>1, <2>2
<1>10. CASE Disconnect
  BY <1>10 DEF Disconnect, CloseAndKill, Finish, Signalled
<1>11. CASE Signal
  BY <1>11 DEF Signal, Begin, CloseAndKill, Finish, Signalled
<1>12. CASE SessionTimeout
  BY <1>12 DEF SessionTimeout, Begin, CloseAndKill, Finish, Signalled
<1>13. CASE Killed
  BY <1>13 DEF Killed
<1>14. CASE ChromeDies
  BY <1>14 DEF ChromeDies
<1>15. ASSUME NEW r \in Runs, CollectDOM(r) PROVE ContextIsCurrent'
  BY <1>15 DEF CollectDOM, CloseAndKill, Finish, Signalled
<1>16. ASSUME NEW r \in Runs, ChromeSeenDead(r) PROVE ContextIsCurrent'
  BY <1>16 DEF ChromeSeenDead, Finish
<1>17. ASSUME NEW r \in Runs, ForceKill(r) PROVE ContextIsCurrent'
  BY <1>17 DEF ForceKill, Signalled
<1>18. ASSUME NEW r \in Runs, ForceWaitEnds(r) PROVE ContextIsCurrent'
  BY <1>18 DEF ForceWaitEnds, Finish
<1>19. CASE UNCHANGED vars
  BY <1>19 DEF vars
<1>. QED
  BY <1>1, <1>2, <1>3, <1>4, <1>5, <1>6, <1>7, <1>8, <1>9, <1>10,
     <1>11, <1>12, <1>13, <1>14, <1>15, <1>16, <1>17, <1>18, <1>19
     DEF Next, MainStep, CleanupStep

\* Whichever run is the first to end, the browser has been asked to, and a
\* run begun by a signal leaves the complete output.
LEMMA CleanEndStep ==
    ASSUME IInv, TypeOK', [Next]_vars
    PROVE  CleanEnd'
<1> USE DEF IInv, TypeOK, BrowserStages, ContextIsCurrent, CleanEnd, Started, Up, globals, results
<1>1. CASE Start
  BY <1>1 DEF Start, Proceed
<1>2. CASE SpawnChrome
  BY <1>2 DEF SpawnChrome
<1>3. CASE ChromeReady
  BY <1>3 DEF ChromeReady, Proceed
<1>4. CASE FindTarget
  BY <1>4 DEF FindTarget, Proceed
<1>5. CASE Connect
  BY <1>5 DEF Connect, Proceed
<1>6. CASE Collect
  BY <1>6 DEF Collect, Proceed
<1>7. CASE Navigate
  BY <1>7 DEF Navigate, Proceed
<1>8. CASE BecomeReady
  BY <1>8 DEF BecomeReady, Proceed
<1>9. CASE SetupFails
  <2>1. CASE setup = "launch"
    BY <1>9, <2>1 DEF SetupFails, Finish, Signalled, NoRun
  <2>2. CASE setup # "launch"
    BY <1>9, <2>2 DEF SetupFails, Begin, CloseAndKill, Finish, Signalled
  <2>. QED
    BY <2>1, <2>2
<1>10. CASE Disconnect
  BY <1>10 DEF Disconnect, CloseAndKill, Finish, Signalled
<1>11. CASE Signal
  BY <1>11 DEF Signal, Begin, CloseAndKill, Finish, Signalled
<1>12. CASE SessionTimeout
  BY <1>12 DEF SessionTimeout, Begin, CloseAndKill, Finish, Signalled
<1>13. CASE Killed
  BY <1>13 DEF Killed
<1>14. CASE ChromeDies
  BY <1>14 DEF ChromeDies
<1>15. ASSUME NEW r \in Runs, CollectDOM(r) PROVE CleanEnd'
  BY <1>15 DEF CollectDOM, CloseAndKill, Finish, Signalled
<1>16. ASSUME NEW r \in Runs, ChromeSeenDead(r) PROVE CleanEnd'
  BY <1>16 DEF ChromeSeenDead, Finish
<1>17. ASSUME NEW r \in Runs, ForceKill(r) PROVE CleanEnd'
  BY <1>17 DEF ForceKill, Signalled
<1>18. ASSUME NEW r \in Runs, ForceWaitEnds(r) PROVE CleanEnd'
  BY <1>18 DEF ForceWaitEnds, Finish
<1>19. CASE UNCHANGED vars
  BY <1>19 DEF vars
<1>. QED
  BY <1>1, <1>2, <1>3, <1>4, <1>5, <1>6, <1>7, <1>8, <1>9, <1>10,
     <1>11, <1>12, <1>13, <1>14, <1>15, <1>16, <1>17, <1>18, <1>19
     DEF Next, MainStep, CleanupStep

\* Only a worker that is ready handles signals.
LEMMA SignalsAreLateStep ==
    ASSUME IInv, TypeOK', [Next]_vars
    PROVE  SignalsAreLate'
<1> USE DEF IInv, TypeOK, BeforeConnection, SignalsAreLate, Started, Up, globals, results
<1>1. CASE Start
  BY <1>1 DEF Start, Proceed
<1>2. CASE SpawnChrome
  BY <1>2 DEF SpawnChrome
<1>3. CASE ChromeReady
  BY <1>3 DEF ChromeReady, Proceed
<1>4. CASE FindTarget
  BY <1>4 DEF FindTarget, Proceed
<1>5. CASE Connect
  BY <1>5 DEF Connect, Proceed
<1>6. CASE Collect
  BY <1>6 DEF Collect, Proceed
<1>7. CASE Navigate
  BY <1>7 DEF Navigate, Proceed
<1>8. CASE BecomeReady
  BY <1>8 DEF BecomeReady, Proceed
<1>9. CASE SetupFails
  <2>1. CASE setup = "launch"
    BY <1>9, <2>1 DEF SetupFails, Finish, Signalled, NoRun
  <2>2. CASE setup # "launch"
    BY <1>9, <2>2 DEF SetupFails, Begin, CloseAndKill, Finish, Signalled
  <2>. QED
    BY <2>1, <2>2
<1>10. CASE Disconnect
  BY <1>10 DEF Disconnect, CloseAndKill, Finish, Signalled
<1>11. CASE Signal
  BY <1>11 DEF Signal, Begin, CloseAndKill, Finish, Signalled
<1>12. CASE SessionTimeout
  BY <1>12 DEF SessionTimeout, Begin, CloseAndKill, Finish, Signalled
<1>13. CASE Killed
  BY <1>13 DEF Killed
<1>14. CASE ChromeDies
  BY <1>14 DEF ChromeDies
<1>15. ASSUME NEW r \in Runs, CollectDOM(r) PROVE SignalsAreLate'
  BY <1>15 DEF CollectDOM, CloseAndKill, Finish, Signalled
<1>16. ASSUME NEW r \in Runs, ChromeSeenDead(r) PROVE SignalsAreLate'
  BY <1>16 DEF ChromeSeenDead, Finish
<1>17. ASSUME NEW r \in Runs, ForceKill(r) PROVE SignalsAreLate'
  BY <1>17 DEF ForceKill, Signalled
<1>18. ASSUME NEW r \in Runs, ForceWaitEnds(r) PROVE SignalsAreLate'
  BY <1>18 DEF ForceWaitEnds, Finish
<1>19. CASE UNCHANGED vars
  BY <1>19 DEF vars
<1>. QED
  BY <1>1, <1>2, <1>3, <1>4, <1>5, <1>6, <1>7, <1>8, <1>9, <1>10,
     <1>11, <1>12, <1>13, <1>14, <1>15, <1>16, <1>17, <1>18, <1>19
     DEF Next, MainStep, CleanupStep

\* The connection is not closed without a snapshot or a reason.
LEMMA SnapshotsStep ==
    ASSUME IInv, TypeOK', [Next]_vars
    PROVE  Snapshots'
<1> USE DEF IInv, TypeOK, BeforeConnection, SignalsAreLate, Snapshots, Started, Up, globals, results
<1>1. CASE Start
  BY <1>1 DEF Start, Proceed
<1>2. CASE SpawnChrome
  BY <1>2 DEF SpawnChrome
<1>3. CASE ChromeReady
  BY <1>3 DEF ChromeReady, Proceed
<1>4. CASE FindTarget
  BY <1>4 DEF FindTarget, Proceed
<1>5. CASE Connect
  BY <1>5 DEF Connect, Proceed
<1>6. CASE Collect
  BY <1>6 DEF Collect, Proceed
<1>7. CASE Navigate
  BY <1>7 DEF Navigate, Proceed
<1>8. CASE BecomeReady
  BY <1>8 DEF BecomeReady, Proceed
<1>9. CASE SetupFails
  <2>1. CASE setup = "launch"
    BY <1>9, <2>1 DEF SetupFails, Finish, Signalled, NoRun
  <2>2. CASE setup # "launch"
    BY <1>9, <2>2 DEF SetupFails, Begin, CloseAndKill, Finish, Signalled
  <2>. QED
    BY <2>1, <2>2
<1>10. CASE Disconnect
  BY <1>10 DEF Disconnect, CloseAndKill, Finish, Signalled
<1>11. CASE Signal
  BY <1>11 DEF Signal, Begin, CloseAndKill, Finish, Signalled
<1>12. CASE SessionTimeout
  BY <1>12 DEF SessionTimeout, Begin, CloseAndKill, Finish, Signalled
<1>13. CASE Killed
  BY <1>13 DEF Killed
<1>14. CASE ChromeDies
  BY <1>14 DEF ChromeDies
<1>15. ASSUME NEW r \in Runs, CollectDOM(r) PROVE Snapshots'
  BY <1>15 DEF CollectDOM, CloseAndKill, Finish, Signalled
<1>16. ASSUME NEW r \in Runs, ChromeSeenDead(r) PROVE Snapshots'
  BY <1>16 DEF ChromeSeenDead, Finish
<1>17. ASSUME NEW r \in Runs, ForceKill(r) PROVE Snapshots'
  BY <1>17 DEF ForceKill, Signalled
<1>18. ASSUME NEW r \in Runs, ForceWaitEnds(r) PROVE Snapshots'
  BY <1>18 DEF ForceWaitEnds, Finish
<1>19. CASE UNCHANGED vars
  BY <1>19 DEF vars
<1>. QED
  BY <1>1, <1>2, <1>3, <1>4, <1>5, <1>6, <1>7, <1>8, <1>9, <1>10,
     <1>11, <1>12, <1>13, <1>14, <1>15, <1>16, <1>17, <1>18, <1>19
     DEF Next, MainStep, CleanupStep

-----------------------------------------------------------------------------
LEMMA InitInv == ASSUME Init PROVE IInv
BY InitType DEF Init, IInv, BeforeConnection, BrowserStages, ContextIsCurrent, CleanEnd,
   SignalsAreLate, Snapshots, Started, NoRun

LEMMA InvStep == ASSUME IInv, [Next]_vars PROVE IInv'
<1>1. TypeOK'
  BY TypeStep DEF IInv
<1>. QED
  BY <1>1, BeforeConnectionStep, BrowserStagesStep, ContextIsCurrentStep, CleanEndStep,
     SignalsAreLateStep, SnapshotsStep DEF IInv

\* The inductive invariant: contexts, stages of main() and of the browser, and
\* the snapshot agree in every reachable state.
THEOREM Invariance == Spec => []IInv
<1>1. Init => IInv
  BY InitInv
<1>2. IInv /\ [Next]_vars => IInv'
  BY InvStep
<1>. QED
  BY <1>1, <1>2, PTL DEF Spec

\* A browser the worker launched is recorded while it runs and asked to end by
\* an orderly exit; a borrowed one is left alone (workerCleanup.ts:95).
THEOREM BrowserAccounted == Spec => []BrowserIsAccounted
<1>1. IInv => BrowserIsAccounted
  BY DEF IInv, BrowserStages, CleanEnd, BrowserIsAccounted
<1>. QED
  BY <1>1, Invariance, PTL

\* A session ended by signals alone leaves the complete output, with the DOM
\* snapshot unless the browser failed to give it (workerCleanup.ts:64, :102).
THEOREM StopComplete == Spec => []StopIsComplete
<1>1. ASSUME IInv, exited = "clean", Begun("crash") = {}, Begun("timeout") = {}
      PROVE  output = "complete" /\ (config.dom => domData \/ lost)
  <2>1. \A r \in Runs : Started(r) => run[r].reason = "normal"
    BY <1>1 DEF IInv, TypeOK, Reasons, Begun, Started
  <2>2. PICK r \in Runs : run[r].at = "done" /\ (run[r].reason = "normal" => output = "complete")
    BY <1>1 DEF IInv, CleanEnd
  <2>3. run[r].reason = "normal"
    BY <2>1, <2>2 DEF Started
  <2>. QED
    BY <1>1, <2>1, <2>2, <2>3 DEF IInv, Snapshots
<1>2. IInv => StopIsComplete
  BY <1>1, Zenon DEF StopIsComplete
<1>. QED
  BY <1>2, Invariance, PTL
=============================================================================
