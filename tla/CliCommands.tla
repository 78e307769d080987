------------------------------- MODULE CliCommands -------------------------------
(***************************************************************************)
(* The commands of the command line as functions: what an option is taken  *)
(* for (commands/shared), which exit code a command ends with for every    *)
(* answer the daemon may give (CommandRunner and commands/*.ts), and which *)
(* part of the collected data it asks for and prints.                      *)
(*                                                                         *)
(* The outcome of the request a command sends is one of                    *)
(*   "ok"           answered, with data                                    *)
(*   "empty"        answered ok, with the field the command reads missing  *)
(*   "noSession"    an error answer: there is no session                   *)
(*   "running"      an error answer: there is one already                  *)
(*   "failed"       any other error answer                                 *)
(*   "unreachable"  ENOENT or ECONNREFUSED: no daemon behind the socket    *)
(*   "silent"       timed out, closed early or not understood              *)
(***************************************************************************)
EXTENDS Integers, Sequences, SequencesExt

CONSTANTS
    Window,     \* how many items the daemon asks the worker for (10)
    PeekMax     \* the most a worker returns (100)

ASSUME CliAssumption == Window \in Nat \ {0} /\ PeekMax \in Nat /\ Window <= PeekMax

Outcomes == {"ok", "empty", "noSession", "running", "failed", "unreachable", "silent"}
Errors   == {"noSession", "running", "failed"}

EXIT == [success |-> 0, unhandledRejection |-> 1, invalidUrl |-> 80, invalidArguments |-> 81,
         notFound |-> 83, sessionFile |-> 103, unhandled |-> 104]

(***************************************************************************)
(* Options.  A value is [given, number, n]: whether it was typed, whether  *)
(* parseInt finds a number in it, and which.  A rule is [min, max,         *)
(* default], default a set of at most one number.                          *)
(***************************************************************************)
Absent     == [given |-> FALSE, number |-> FALSE, n |-> 0]
NotANumber == [given |-> TRUE, number |-> FALSE, n |-> 0]
GivenNumber(n)   == [given |-> TRUE, number |-> TRUE, n |-> n]

Accepted(n) == [ok |-> TRUE, n |-> n]
Refused     == [ok |-> FALSE, n |-> 0]

Default(rule) == CHOOSE d \in rule.default : TRUE

InRange(value, min, max) ==
    IF value.number /\ value.n >= min /\ value.n <= max THEN Accepted(value.n) ELSE Refused

\* commands/shared/validation.ts: an absent value is the default unchecked.
PositiveIntRule(value, rule) ==
    IF value.given THEN InRange(value, rule.min, rule.max)
    ELSE IF rule.default # {} THEN Accepted(Default(rule)) ELSE Refused

\* utils/validation.ts, the older parser: the default is checked as well.
ParsePositiveIntOption(value, rule) ==
    IF value.given THEN InRange(value, rule.min, rule.max)
    ELSE IF rule.default # {} THEN InRange(GivenNumber(Default(rule)), rule.min, rule.max)
    ELSE Refused

LastOption(value) == IF value.given THEN InRange(value, 0, 10000) ELSE Accepted(0)

\* What each command makes of --last (a typed value) before it asks anything.
ParseLast(command, value) ==
    CASE command = "peek"    -> PositiveIntRule(value, [min |-> 1, max |-> 1000, default |-> {10}])
      [] command = "tail"    -> ParsePositiveIntOption(value, [min |-> 1, max |-> 1000, default |-> {10}])
      [] command = "console" -> LastOption(value)
      [] OTHER -> Accepted(0)

\* peek and console throw where nothing catches: the rejection is unhandled.
BadOptionExit(command) ==
    IF command = "tail" THEN EXIT.invalidArguments ELSE EXIT.unhandledRejection

(***************************************************************************)
(* Exit codes.                                                             *)
(***************************************************************************)
Success       == [is |-> "success", code |-> 0]
Failure(code) == [is |-> "failure", code |-> code]
Thrown(o)     == [is |-> IF o = "unreachable" THEN "connection" ELSE "error", code |-> 0]

RunCommand(result) ==
    CASE result.is = "success" -> EXIT.success
      [] result.is \in {"failure", "CommandError"} -> result.code
      [] result.is = "connection" -> EXIT.notFound
      [] OTHER -> EXIT.unhandled

\* validateIPCResponse throws on an error answer.  The lists of cookies and
\* the answers of CDP may be missing.
QueryResult(command, o) ==
    CASE o \in Errors \cup {"unreachable", "silent"} -> Thrown(o)
      [] o = "empty" /\ command \in {"console", "details"} -> Failure(EXIT.notFound)
      [] OTHER -> Success

GetExitCodeForDaemonError(o) == IF o = "noSession" THEN EXIT.notFound ELSE EXIT.unhandled

StopResult(o) ==
    CASE o \in {"ok", "empty"} -> Success
      [] o = "unreachable" -> Failure(EXIT.notFound)
      [] OTHER -> Failure(GetExitCodeForDaemonError(o))

StatusResult(o) ==
    CASE o = "ok" -> Success
      [] o = "unreachable" -> Failure(EXIT.notFound)
      [] OTHER -> Failure(EXIT.unhandled)

StartExit(o) == IF o = "ok" THEN EXIT.success ELSE EXIT.unhandled

\* Mutant: a session file error whatever the daemon says.
PeekAnyError(o) ==
    IF o = "unreachable" \/ o = "silent" THEN EXIT.notFound ELSE EXIT.sessionFile

\* peek's own catch takes every failure of the exchange for a daemon that is
\* not running.
PeekErrorExit(o) ==
    IF o \in {"noSession", "unreachable", "silent"} THEN EXIT.notFound ELSE EXIT.sessionFile

\* -1: a viewer that follows stays, whatever the answer.
HandleDaemonConnectionError(follow, code) == IF follow THEN -1 ELSE code

CommandExit(command, o) ==
    CASE command \in {"console", "details", "network", "cdp"} -> RunCommand(QueryResult(command, o))
      [] command = "stop"   -> RunCommand(StopResult(o))
      [] command = "status" -> RunCommand(StatusResult(o))
      [] command = "start"  -> StartExit(o)
      [] command = "peek"   -> IF o = "ok" THEN EXIT.success
                               ELSE HandleDaemonConnectionError(FALSE, PeekErrorExit(o))
      [] command = "tail"   -> HandleDaemonConnectionError(TRUE, EXIT.sessionFile)

(***************************************************************************)
(* What of a list is asked for and printed.                                *)
(***************************************************************************)
Larger(a, b) == IF a > b THEN a ELSE b
Smaller(a, b) == IF a < b THEN a ELSE b

SliceLast(s, n) == SubSeq(s, Larger(1, Len(s) - n + 1), Len(s))    \* s.slice(-n), n > 0

\* Mutant: the window is not moved back by the offset at its far end.
PeekOverlapping(items, lastN, offset) ==
    LET n     == Smaller(lastN, PeekMax)
        start == Larger(0, Len(items) - n - offset)
    IN  [items |-> SubSeq(items, start + 1, Len(items)), hasMore |-> start > 0]

\* worker_peek: the window of lastN that ends offset items before the end.
WorkerPeek(items, lastN, offset) ==
    LET n     == Smaller(lastN, PeekMax)
        start == Larger(0, Len(items) - n - offset)
        end   == Larger(0, Len(items) - offset)
    IN  [items |-> SubSeq(items, start + 1, end), hasMore |-> start > 0]

\* worker_details of the console: the index counts from the first message kept.
WorkerDetails(items, index) ==
    IF index \in 0 .. Len(items) - 1 THEN <<items[index + 1]>> ELSE <<>>

\* formatPreview: --network leaves the console out, --last shortens what came.
FormatPreview(items, network, last) ==
    IF network THEN <<>> ELSE SliceLast(items, last)

\* The console command: the filter first, then --last, 0 for all that came.
ConsoleLogs(items, filter, last) ==
    LET logs == IF filter = "" THEN items ELSE SelectSeq(items, LAMBDA m : m.type = filter)
    IN  IF last > 0 THEN SliceLast(logs, last) ELSE logs

(***************************************************************************)
(* Properties, of one input each.                                          *)
(***************************************************************************)
\* A script can tell from the exit code: 0 is given for an answer only, a daemon
\* that is not there is "not found" from every command but start, and what the
\* user can mend (80 to 99) is never blamed for an error the daemon reports,
\* unless it is that there is no session.
ExitTellsCauseFor(command, o) ==
    LET code == CommandExit(command, o)
    IN  /\ code = EXIT.success => o \in {"ok", "empty"}
        /\ o = "ok" => code \in {EXIT.success, -1}
        /\ o = "unreachable" /\ command \notin {"start", "tail"} => code = EXIT.notFound
        /\ code \in 80 .. 99 => o \notin {"running", "failed"}
        /\ o = "noSession" /\ command \in {"peek", "stop"} => code = EXIT.notFound

\* Reading a list page by page, from the last item back, one page after the
\* other while there are more, shows every item once and in order.
PagesCoverFor(items, lastN) ==
    LET page(k) == WorkerPeek(items, lastN, k * Smaller(lastN, PeekMax))
        pages   == {k \in 0 .. Len(items) : \A j \in 0 .. k - 1 : page(j).hasMore}
        last    == CHOOSE k \in pages : \A j \in pages : j <= k
    IN  lastN > 0 =>
            /\ FlattenSeq([i \in 1 .. last + 1 |-> page(last + 1 - i).items]) = items
            /\ ~page(last).hasMore
=============================================================================
