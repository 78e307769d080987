---------------------------- MODULE CommandLineCalls ----------------------------
(***************************************************************************)
(* The calls of the command line's pure functions: a name is looked up, a  *)
(* URL normalised, a list read back.  A call is a record: its field "is"   *)
(* names the function and the others hold the arguments.  The functions    *)
(* keep no state, so that a behaviour is one call that never               *)
(* changes, and an invariant says what is promised of every call there is. *)
(***************************************************************************)
EXTENDS CdpCommand, UrlFilters, CliCommands

CONSTANT Calls
VARIABLE sample     \* the call

\* What can be typed: any characters, as many as one likes.
Texts == Seq(DOMAIN LowerOf)

\* The commands CliCommands gives an exit code for.
CommandNames == {"start", "stop", "status", "peek", "tail", "console", "details", "network", "cdp"}

\* What the callers pass: texts of any characters, any list of collected items, a
\* page length commander has parsed, the sizes and options of any response.
ASSUME CallsAssumption == \A c \in Calls :
    /\ c.is = "name" => c.name \in Texts
    /\ c.is = "edit" => c.s \in Texts /\ c.t \in Texts
    /\ c.is = "url" => c.url \in Texts
    /\ c.is = "pattern" => c.s \in Texts /\ c.pattern \in Texts
    /\ c.is = "pages" => c.items \in Seq(ToSet(c.items)) /\ c.lastN \in Nat
    /\ c.is = "exit" => c.command \in CommandNames /\ c.outcome \in Outcomes
    /\ c.is = "body" => /\ c.size \in Int
                        /\ c.options \in [fetchAll : BOOLEAN, include : SUBSET Texts,
                                          exclude : SUBSET Texts, max : Int]

CallsInit == sample \in Calls
CallsSpec == CallsInit /\ [][UNCHANGED sample]_sample

\* Over every typed name: what is offered can be used, and listing, searching,
\* describing and the printed example tell the same of a method.
ProtocolAgrees == sample.is = "name" => NamesAgreeFor(sample.name) /\ SchemasAgreeFor(sample.name)

\* The distance is that of the cheapest alignment, and the names suggested for a
\* typed one are the closest by it.
SuggestionsAreClosest ==
    /\ sample.is = "edit" => DistanceIsMinimalFor(sample.s, sample.t)
    /\ sample.is = "name" => SuggestionsAreClosestFor(sample.name)

\* Over every typed URL: what passes validation is what the worker can open.
ValidatedIsNavigated == sample.is = "url" => ValidatedIsNavigatedFor(sample.url)

\* A pattern means what its stars say, and options only do what they are for.
FiltersMean ==
    /\ sample.is = "pattern" => WildcardMeansFor(sample.s, sample.pattern)
    /\ sample.is = "body" => FiltersAreMonotoneFor(sample.url, sample.mime, sample.size, sample.options)

\* Paging back through a list shows all of it.
ListsAreWhole == sample.is = "pages" => PagesCoverFor(sample.items, sample.lastN)

\* The exit code tells the cause of every outcome.
ExitTellsCause == sample.is = "exit" => ExitTellsCauseFor(sample.command, sample.outcome)
=============================================================================
