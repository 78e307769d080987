------------------------------ MODULE TelemetryViews ------------------------------
(***************************************************************************)
(* From the page's console to the user's screen.  The worker's telemetry   *)
(* plugins (daemon/worker/plugins.ts, telemetry/navigation.ts and          *)
(* console.ts) fill the TelemetryStore; the viewing commands (peek, tail,  *)
(* console, details) each send a request through the daemon and print what *)
(* comes back.  A viewer that follows asks again at every tick, whether or *)
(* not the last answer has come.                                           *)
(*                                                                         *)
(* The requests' way through the daemon is DaemonServer's subject: here a  *)
(* request is answered once, from the store as it then is, or fails.       *)
(***************************************************************************)
EXTENDS CliCommands, FiniteSets

CONSTANTS
    Telemetry,      \* the collectors the session asks for
    Messages,       \* what the page may log: records [type, excluded]
    MaxConsole,     \* MAX_CONSOLE_MESSAGES
    Viewings,       \* the viewing commands a user may type
    MaxLogged,      \* bound: messages the page logs
    MaxPages,       \* bound: main-frame navigations
    MaxPolls,       \* bound: refreshes under way at a time
    MaxFaults       \* bound: requests that fail though the worker is there

ASSUME ViewsAssumption ==
    /\ MaxConsole \in Nat /\ MaxLogged \in Nat /\ MaxPages \in Nat /\ MaxPolls \in Nat /\ MaxFaults \in Nat
    /\ Viewings \subseteq [name : {"peek", "tail", "console", "details"}, filter : STRING, last : Int,
                           network : BOOLEAN, index : Int]

VARIABLES
    plugins,        \* how many plugins have been started, or skipped
    page,           \* what the page has done: how often it was loaded, ...
    happened,       \* ... and what it logged since the console was watched
    navigation,     \* navigationCounter
    console,        \* TelemetryStore.consoleMessages
    host,           \* "starting" (the worker's main()), "session", "idle" (a
                    \* daemon without worker), "down"
    viewer,         \* the command being run
    polls,          \* its requests under way
    faults

viewVars == <<plugins, page, happened, navigation, console, host, viewer, polls, faults>>

\* createDefaultTelemetryPlugins, in its order.
Plugins == << [name |-> "dialogs", runAlways |-> TRUE], [name |-> "navigation", runAlways |-> TRUE],
              [name |-> "network", runAlways |-> FALSE], [name |-> "console", runAlways |-> FALSE],
              [name |-> "dom", runAlways |-> FALSE] >>

ShouldActivatePlugin(plugin) == plugin.runAlways \/ plugin.name \in Telemetry

Started(name) ==
    \E i \in 1 .. plugins : Plugins[i].name = name /\ ShouldActivatePlugin(Plugins[i])

NoCommand == [name |-> "none", filter |-> "", last |-> 0, network |-> FALSE, index |-> 0]
Idle == [command |-> NoCommand, follow |-> FALSE, shown |-> <<>>, failing |-> FALSE, exit |-> -1,
         listed |-> <<>>, whole |-> FALSE]
NoPoll == [at |-> "none", outcome |-> "", items |-> <<>>]

ViewInit ==
    /\ plugins = 0
    /\ page = 0
    /\ happened = <<>>
    /\ navigation = 0
    /\ console = <<>>
    /\ host = "starting"
    /\ viewer = Idle
    /\ polls = [i \in 1 .. MaxPolls |-> NoPoll]
    /\ faults = 0

(***************************************************************************)
(* The worker.                                                             *)
(***************************************************************************)
\* startTelemetryCollectors: one plugin after the other, each awaited; its
\* handlers are registered when its domains are enabled.
StartPlugin ==
    /\ host = "starting"
    /\ plugins < Len(Plugins)
    /\ plugins' = plugins + 1
    /\ UNCHANGED <<page, happened, navigation, console, host, viewer, polls, faults>>

\* The page is loaded, or was waited for long enough, and the worker reports
\* itself ready: only now does the daemon know of it.
WorkerReady ==
    /\ host = "starting"
    /\ plugins = Len(Plugins)
    /\ host' = "session"
    /\ UNCHANGED <<plugins, page, happened, navigation, console, viewer, polls, faults>>

Worker == host \in {"starting", "session"}

\* Page.frameNavigated: the main frame has no parent.
CountsFrame(main) == main

FrameNavigated(main) ==
    /\ Worker
    /\ page < MaxPages
    /\ page' = IF main /\ Started("navigation") THEN page + 1 ELSE page
    /\ navigation' = IF Started("navigation") /\ CountsFrame(main) THEN navigation + 1 ELSE navigation
    /\ UNCHANGED <<plugins, happened, console, host, viewer, polls, faults>>

\* Mutant: at the limit the oldest item makes room.
PushLatest(buffer, item) ==
    IF Len(buffer) < MaxConsole THEN Append(buffer, item) ELSE Append(Tail(buffer), item)

PushWithLimit(buffer, item) == IF Len(buffer) < MaxConsole THEN Append(buffer, item) ELSE buffer

\* Runtime.consoleAPICalled and exceptionThrown (a message of type "error").
MessageLogged(m) ==
    /\ Worker
    /\ Len(happened) < MaxLogged
    /\ happened' = IF Started("console") THEN Append(happened, [message |-> m, page |-> page])
                   ELSE happened
    /\ console' = IF Started("console") /\ ~m.excluded
                  THEN PushWithLimit(console, [n |-> Len(happened) + 1, type |-> m.type,
                                               navigationId |-> navigation])
                  ELSE console
    /\ UNCHANGED <<plugins, page, navigation, host, viewer, polls, faults>>

\* bdg stop, a crash of the worker or a setup that fails; the end of the daemon.
SessionEnds ==
    /\ Worker
    /\ host' = "idle"
    /\ UNCHANGED <<plugins, page, happened, navigation, console, viewer, polls, faults>>

DaemonDies ==
    /\ host # "down"
    /\ host' = "down"
    /\ UNCHANGED <<plugins, page, happened, navigation, console, viewer, polls, faults>>

(***************************************************************************)
(* The viewing commands.                                                   *)
(***************************************************************************)
Ask(i) == polls' = [polls EXCEPT ![i] = [NoPoll EXCEPT !.at = "asked"]]

Running == viewer.command # NoCommand /\ viewer.exit = -1

\* A command is typed; its first request leaves.  The user takes an index for
\* details from the list last printed.
RunsCommand(c) ==
    /\ ~Running
    /\ c.name = "details" => c.index < Len(viewer.listed)
    /\ viewer' = [Idle EXCEPT !.command = c, !.follow = (c.name = "tail"),
                              !.listed = IF c.name = "details" THEN viewer.listed ELSE <<>>,
                              !.whole = IF c.name = "details" THEN viewer.whole ELSE FALSE]
    /\ Ask(1)
    /\ UNCHANGED <<plugins, page, happened, navigation, console, host, faults>>

\* Mutant: nothing more is asked after a failure.
TickUnlessFailing ==
    /\ Running /\ viewer.follow
    /\ viewer.shown # <<>> /\ ~viewer.failing
    /\ \E i \in 1 .. MaxPolls :
           /\ polls[i].at = "none"
           /\ \A j \in 1 .. i - 1 : polls[j].at # "none"
           /\ Ask(i)
    /\ UNCHANGED <<plugins, page, happened, navigation, console, host, viewer, faults>>

\* setInterval: another refresh, even while one is under way, but not before
\* the first is over.
Tick ==
    /\ Running /\ viewer.follow
    /\ viewer.shown # <<>> \/ viewer.failing
    /\ \E i \in 1 .. MaxPolls :
           /\ polls[i].at = "none"
           /\ \A j \in 1 .. i - 1 : polls[j].at # "none"
           /\ Ask(i)
    /\ UNCHANGED <<plugins, page, happened, navigation, console, host, viewer, faults>>

\* The daemon's and the worker's answer to one request.
Answered(command) ==
    CASE host = "down" -> [at |-> "answered", outcome |-> "unreachable", items |-> <<>>]
      [] host \in {"starting", "idle"} -> [at |-> "answered", outcome |-> "noSession", items |-> <<>>]
      [] host = "session" /\ command.name = "details" ->
             LET item == WorkerDetails(console, command.index)
             IN  [at |-> "answered", outcome |-> IF item = <<>> THEN "failed" ELSE "ok", items |-> item]
      [] OTHER -> [at |-> "answered", outcome |-> "ok", items |-> WorkerPeek(console, Window, 0).items]

Answer(i) ==
    /\ polls[i].at = "asked"
    /\ polls' = [polls EXCEPT ![i] = Answered(viewer.command)]
    /\ UNCHANGED <<plugins, page, happened, navigation, console, host, viewer, faults>>

\* The worker does not answer within the daemon's 5 s, or nobody does within
\* the client's 10 s.
Fails(i, outcome) ==
    /\ polls[i].at = "asked"
    /\ faults < MaxFaults
    /\ faults' = faults + 1
    /\ polls' = [polls EXCEPT ![i] = [at |-> "answered", outcome |-> outcome, items |-> <<>>]]
    /\ UNCHANGED <<plugins, page, happened, navigation, console, host, viewer>>

\* What a command prints of an answer.
View(command, items) ==
    CASE command.name = "console" -> ConsoleLogs(items, command.filter, command.last)
      [] command.name = "details" -> items
      [] OTHER -> FormatPreview(items, command.network, command.last)

\* The screen: [items] once something has been printed.
Receive(i) ==
    LET c  == viewer.command
        ok == polls[i].outcome = "ok"
        printed == View(c, polls[i].items)
    IN  /\ Running /\ polls[i].at = "answered"
        /\ viewer' =
               [viewer EXCEPT
                   !.shown = IF ok THEN <<printed>> ELSE @,
                   !.failing = ~ok,
                   !.exit = IF viewer.follow THEN -1 ELSE CommandExit(c.name, polls[i].outcome),
                   !.listed = IF c.name = "console" THEN (IF ok THEN printed ELSE <<>>) ELSE @,
                   !.whole = IF c.name = "console" /\ ok
                             THEN c.filter = "" /\ c.last = 0 /\ Len(console) <= Window ELSE @]
        /\ polls' = [polls EXCEPT ![i] = NoPoll]
        /\ UNCHANGED <<plugins, page, happened, navigation, console, host, faults>>

\* SIGINT: process.exit, whatever is under way.
Interrupt ==
    /\ Running /\ viewer.follow
    /\ viewer' = [viewer EXCEPT !.exit = EXIT.success]
    /\ polls' = [i \in 1 .. MaxPolls |-> NoPoll]
    /\ UNCHANGED <<plugins, page, happened, navigation, console, host, faults>>

ViewNext ==
    \/ StartPlugin \/ WorkerReady
    \/ \E main \in BOOLEAN : FrameNavigated(main)
    \/ \E m \in Messages : MessageLogged(m)
    \/ SessionEnds
    \/ DaemonDies
    \/ \E c \in Viewings : RunsCommand(c)
    \/ Tick
    \/ \E i \in 1 .. MaxPolls : Answer(i) \/ Receive(i)
    \/ \E i \in 1 .. MaxPolls, o \in {"failed", "silent"} : Fails(i, o)
    \/ Interrupt

ViewSpec == ViewInit /\ [][ViewNext]_viewVars

\* The interval timer ticks, and every request is answered, refused or timed
\* out; what the client has received it prints.
ViewFairness ==
    /\ WF_viewVars(Tick)
    /\ \A i \in 1 .. MaxPolls : WF_viewVars(Answer(i)) /\ WF_viewVars(Receive(i))

(***************************************************************************)
(* Properties.                                                             *)
(***************************************************************************)
Kept(n) == ~happened[n].message.excluded

\* The console holds the first MaxConsole messages of the page that no filter
\* excludes, in order, each with the page load it was logged by: the plugins'
\* order, the counter of main frames only, the filter and the limit together.
ConsoleTells ==
    /\ Len(console) <= MaxConsole
    /\ \A i \in DOMAIN console :
           LET n == console[i].n
           IN  /\ n \in DOMAIN happened /\ Kept(n)
               /\ console[i].type = happened[n].message.type /\ console[i].navigationId = happened[n].page
               /\ \A j \in 1 .. i - 1 : console[j].n < n
    /\ \A n \in DOMAIN happened :
           \/ ~Kept(n)
           \/ \E i \in DOMAIN console : console[i].n = n
           \/ Len(console) = MaxConsole /\ \A i \in DOMAIN console : console[i].n < n

Found == viewer.command.name = "details" /\ viewer.exit # -1

\* `bdg details console <index>` with the index `bdg console` printed before a
\* message shows that message, whatever was logged in between, when the console
\* command printed the whole store: no filter, no --last, no more than the
\* daemon asks for.
WholeIndexFinds ==
    (Found /\ viewer.whole /\ viewer.exit = EXIT.success) =>
        viewer.shown = <<<<viewer.listed[viewer.command.index + 1]>>>>

\* What is stored is what happened, and what is shown of it is what was stored.
ConsoleIsTrue == ConsoleTells /\ WholeIndexFinds

Current == viewer.shown = <<View(viewer.command, WorkerPeek(console, Window, 0).items)>>

\* A viewer that follows shows the latest window again and again, in spite of
\* refreshes that overlap, overtake each other or fail, until the session or
\* the following ends; once the session has ended it says so.
FollowCatchesUp ==
    [](viewer.follow => <>(~Running \/ (host = "session" /\ Current) \/ (host # "session" /\ viewer.failing)))
=============================================================================
