------------------------------- MODULE FormCommand -------------------------------
(***************************************************************************)
(* bdg dom eval, fill, click and submit (commands/dom/formInteraction.ts,  *)
(* evalHelpers.ts, formFillHelpers.ts, reactEventHelpers.ts and            *)
(* formSubmitHelpers.ts).  These commands do not go through the daemon:    *)
(* each opens a connection of its own to the page, evaluates a script      *)
(* there and, for submit, watches the network until it is idle.            *)
(*                                                                         *)
(* External: a connection delivers the events of a domain only once that   *)
(* domain is enabled on it; a request under way is then reported when it   *)
(* ends, and a redirected one is announced again under the same id.        *)
(***************************************************************************)
EXTENDS Integers, Sequences, SequencesExt

CONSTANTS
    Forms,          \* what may be typed: records [name, value, index, blur, waitNavigation, waitNetwork]
    Fields,         \* the elements a selector may match: records [kind, visible]
    MaxMatched,     \* bound: elements matched
    MaxRequests     \* bound: requests the page makes, redirections included

ASSUME FormAssumption ==
    /\ MaxMatched \in Nat /\ MaxRequests \in Nat
    /\ Fields \subseteq [kind : STRING, visible : BOOLEAN]
    /\ Forms \subseteq [name : {"eval", "fill", "click", "submit"}, value : STRING, quoted : BOOLEAN,
                        index : Int, blur : BOOLEAN, waitNavigation : BOOLEAN, waitNetwork : BOOLEAN]

VARIABLES
    session,        \* what the command finds: [alive, metadata, target, defaultPort]
    matched,        \* the elements of the page that match, in document order
    form,           \* the command
    traffic,        \* the page's requests since the click
    waiting         \* the variables of waitForCompletion

formVars == <<session, matched, form, traffic, waiting>>

TextKinds == {"text", "textarea", "editable"}
Fillable  == TextKinds \cup {"select", "checkbox", "file"}
Clickable == {"text", "checkbox", "file", "button"}   \* input, button, a, role, cursor

Untouched(f) == [kind |-> f.kind, visible |-> f.visible, value |-> "", seen |-> <<>>, clicks |-> 0]
NoForm == [name |-> "none", value |-> "", quoted |-> FALSE, index |-> 0, blur |-> TRUE,
           waitNavigation |-> FALSE, waitNetwork |-> FALSE]
FormIdle == [ask |-> NoForm, step |-> "idle", exit |-> -1, closed |-> TRUE]
NoWait == [enabled |-> FALSE, active |-> 0, total |-> 0, navigated |-> FALSE, idle |-> FALSE]
NoTraffic == [seen |-> 0, unseen |-> 0, made |-> 0, odd |-> FALSE, loaded |-> FALSE]

FormInitOn(found, fields) ==
    /\ session = found
    /\ matched = [i \in DOMAIN fields |-> Untouched(fields[i])]
    /\ form = FormIdle
    /\ traffic = NoTraffic
    /\ waiting = NoWait

FormInit ==
    \E found \in [alive : BOOLEAN, metadata : BOOLEAN, target : BOOLEAN, defaultPort : BOOLEAN],
       fields \in SeqOf(Fields, MaxMatched) : FormInitOn(found, fields)

FormEnds(code) == form' = [form EXCEPT !.step = "over", !.exit = code, !.closed = TRUE]

(***************************************************************************)
(* Before the script.                                                      *)
(***************************************************************************)
BeginForm(ask) ==
    /\ form.step = "idle"
    /\ form' = [FormIdle EXCEPT !.ask = ask, !.step = "check"]
    /\ UNCHANGED <<session, matched, traffic, waiting>>

\* validateActiveSession, getValidatedSessionMetadata, verifyTargetExists: the
\* process, the file, then the list of targets, at port 9222 whatever the
\* session's port (only eval has an option for it).
CheckSession ==
    /\ form.step = "check"
    /\ CASE ~session.alive -> FormEnds(83)
         [] session.alive /\ ~session.metadata -> FormEnds(103)
         [] session.alive /\ session.metadata /\ ~(session.target /\ (session.defaultPort \/ form.ask.name = "eval")) ->
                FormEnds(83)
         [] OTHER -> form' = [form EXCEPT !.step = "connect"]
    /\ UNCHANGED <<session, matched, traffic, waiting>>

\* The tab is gone, or the browser: what "ECONNREFUSED" says is read as "no daemon".
ConnectForm ==
    /\ form.step = "connect"
    /\ IF session.target
       THEN form' = [form EXCEPT !.step = IF form.ask.index # 0 THEN "index" ELSE "evaluate", !.closed = FALSE]
       ELSE \E code \in {83, 104} : FormEnds(code)
    /\ UNCHANGED <<session, matched, traffic, waiting>>

\* getElementByIndex: the script sent to the page has TypeScript annotations
\* in it and does not parse, so the evaluation reports an exception.
GetElementByIndex ==
    /\ form.step = "index"
    /\ FormEnds(110)
    /\ UNCHANGED <<session, matched, traffic, waiting>>

(***************************************************************************)
(* The scripts, on the page.                                               *)
(***************************************************************************)
\* Selector and value are put between single quotes, which JSON.stringify does
\* not escape.
Parses(ask) == ~ask.quoted

\* What an element holds once value has been assigned to it.
Holds(kind, value) ==
    CASE kind = "checkbox" -> IF value = "true" THEN "true" ELSE "false"
      [] kind = "select" -> IF value = "option" THEN "option" ELSE ""
      [] OTHER -> value

Saw(f, events) == [f EXCEPT !.seen = @ \o [i \in DOMAIN events |-> <<events[i], f.value>>]]

\* Mutant: the events are dispatched before the value is set.
FillEarly(f, value, blur) ==
    LET events == CASE f.kind = "editable" -> <<"input">>
                    [] f.kind \in {"select", "checkbox"} -> <<"change">>
                    [] OTHER -> <<"input", "change">>
    IN  [Saw(f, events \o (IF blur THEN <<"focusout">> ELSE <<>>)) EXCEPT !.value = Holds(f.kind, value)]

\* REACT_FILL_SCRIPT on an element that can be filled: set, then tell the page.
FillField(f, value, blur) ==
    LET events == CASE f.kind = "editable" -> <<"input">>
                    [] f.kind \in {"select", "checkbox"} -> <<"change">>
                    [] OTHER -> <<"input", "change">>
    IN  Saw([f EXCEPT !.value = Holds(f.kind, value)], events \o (IF blur THEN <<"focusout">> ELSE <<>>))

\* el.focus(): the element that had the focus, another match or any other (0), is
\* told that it lost it ("blur", a change pending there included), then the field
\* that it has it.  Nobody is told if the field has it already, cannot take it, or
\* the window is in the background.
Focused ==
    {matched} \cup
    {[i \in DOMAIN matched |-> CASE i = 1 -> Saw(matched[i], <<"focus">>)
                                [] i # 1 /\ i = left -> Saw(matched[i], <<"blur">>)
                                [] OTHER -> matched[i]] : left \in {0} \cup DOMAIN matched}

\* What REACT_FILL_SCRIPT does to the page: the first match is focused if it can be
\* filled, and then filled, unless it turns out to be a file input.
FillScript ==
    IF matched = <<>> \/ matched[1].kind \notin Fillable
    THEN UNCHANGED matched
    ELSE \E fields \in Focused :
            matched' = IF matched[1].kind = "file" THEN fields
                       ELSE [fields EXCEPT ![1] = FillField(@, form.ask.value, form.ask.blur)]

\* What it answers: not found, not fillable or a file input, filled.
FillCode ==
    IF matched = <<>> THEN 83 ELSE IF matched[1].kind \in Fillable \ {"file"} THEN 0 ELSE 81

Fill ==
    /\ form.step = "evaluate" /\ form.ask.name = "fill" /\ session.target
    /\ IF Parses(form.ask)
       THEN FillScript /\ FormEnds(FillCode)
       ELSE FormEnds(110) /\ UNCHANGED matched
    /\ UNCHANGED <<session, traffic, waiting>>

\* CLICK_ELEMENT_SCRIPT: the first visible match, or the first.
Target ==
    LET visible == {i \in DOMAIN matched : matched[i].visible}
    IN  IF visible = {} THEN 1 ELSE CHOOSE i \in visible : \A j \in visible : i <= j

ClickScript ==
    IF matched = <<>> THEN UNCHANGED matched
    ELSE matched' = [matched EXCEPT ![Target].clicks = @ + 1]

WaitsFor(ask) == ask.waitNetwork \/ ask.waitNavigation

Clicks(ask) == ask.name \in {"click", "submit"}

Click ==
    /\ form.step = "evaluate" /\ Clicks(form.ask) /\ session.target
    /\ Parses(form.ask) /\ ClickScript
    /\ IF form.ask.name = "submit" /\ WaitsFor(form.ask) /\ matched # <<>>
       THEN /\ form' = [form EXCEPT !.step = "wait"]
            /\ waiting' = [NoWait EXCEPT !.idle = TRUE]
       ELSE FormEnds(IF matched = <<>> THEN 83 ELSE 0) /\ UNCHANGED waiting
    /\ UNCHANGED <<session, traffic>>

ClickBreaks ==
    /\ form.step = "evaluate" /\ Clicks(form.ask) /\ session.target
    /\ ~Parses(form.ask)
    /\ FormEnds(110)
    /\ UNCHANGED <<session, matched, traffic, waiting>>

\* The script ran but its answer does not come: the connection is lost, or a
\* dialog it opened blocks the page for 30 s.
ScriptUnanswered ==
    /\ form.step = "evaluate" /\ Parses(form.ask)
    /\ \/ Clicks(form.ask) /\ ClickScript
       \/ form.ask.name = "fill" /\ FillScript
    /\ FormEnds(110)
    /\ UNCHANGED <<session, traffic, waiting>>

\* executeScript: any answer but a value is an error of the script; one whose
\* message holds "ENOENT" or "ECONNREFUSED" is read as "no daemon".
Eval ==
    /\ form.step = "evaluate" /\ form.ask.name = "eval" /\ session.target
    /\ \E code \in {0, 83, 101, 104} : FormEnds(code)
    /\ UNCHANGED <<session, matched, traffic, waiting>>

\* The tab or the browser is gone before the script is sent.
EvaluateFails ==
    /\ form.step \in {"index", "evaluate"} /\ ~session.target
    /\ FormEnds(IF form.ask.name = "eval" THEN 104 ELSE 110)
    /\ UNCHANGED <<session, matched, traffic, waiting>>

(***************************************************************************)
(* waitForCompletion.                                                      *)
(***************************************************************************)
CheckCompletion(w) ==
    IF /\ ~form.ask.waitNetwork \/ w.active = 0
       /\ form.ask.waitNavigation => w.navigated
    THEN FormEnds(0) ELSE UNCHANGED form

\* Network.enable takes effect, or fails.
EnableNetwork ==
    /\ form.step = "wait" /\ ~waiting.enabled
    /\ IF session.target
       THEN waiting' = [waiting EXCEPT !.enabled = TRUE] /\ UNCHANGED form
       ELSE FormEnds(104) /\ UNCHANGED waiting
    /\ UNCHANGED <<session, matched, traffic>>

\* Mutant: a flag instead of a counter.
RequestFlagged == [waiting EXCEPT !.total = @ + 1, !.active = 1, !.idle = FALSE]

RequestStarted == [waiting EXCEPT !.total = @ + 1, !.active = @ + 1, !.idle = FALSE]

RequestFinished ==
    [waiting EXCEPT !.active = @ - 1, !.idle = @ \/ (waiting.active = 1 /\ form.ask.waitNetwork)]

Heard == form.step = "wait" /\ waiting.enabled

\* The page makes a request once it has been clicked.
RequestBegins ==
    /\ form.step = "wait" /\ session.target
    /\ traffic.made < MaxRequests
    /\ traffic' = [traffic EXCEPT !.made = @ + 1, !.seen = @ + (IF Heard THEN 1 ELSE 0),
                                  !.unseen = @ + (IF Heard THEN 0 ELSE 1), !.odd = @ \/ ~Heard]
    /\ waiting' = IF Heard THEN RequestStarted ELSE waiting
    /\ UNCHANGED <<session, matched, form>>

\* requestWillBeSent again, with the redirection's answer.
RequestRedirected ==
    /\ Heard /\ session.target
    /\ traffic.seen > 0 /\ traffic.made < MaxRequests
    /\ traffic' = [traffic EXCEPT !.made = @ + 1, !.odd = TRUE]
    /\ waiting' = RequestStarted
    /\ UNCHANGED <<session, matched, form>>

\* loadingFinished or loadingFailed.
RequestEnds ==
    /\ form.step = "wait" /\ session.target
    /\ \/ traffic.seen > 0 /\ traffic' = [traffic EXCEPT !.seen = @ - 1]
       \/ traffic.unseen > 0 /\ traffic' = [traffic EXCEPT !.unseen = @ - 1]
    /\ waiting' = IF Heard THEN RequestFinished ELSE waiting
    /\ UNCHANGED <<session, matched, form>>

IdleExpires ==
    /\ form.step = "wait" /\ waiting.idle
    /\ waiting' = [waiting EXCEPT !.idle = FALSE]
    /\ CheckCompletion(waiting')
    /\ UNCHANGED <<session, matched, traffic>>

\* The domains the command enables on its connection.
EnabledDomains == {"Network"}

\* The page navigates.  The command listens to Page.frameNavigated.
PageNavigates ==
    /\ form.step = "wait" /\ session.target /\ ~traffic.loaded
    /\ traffic' = [traffic EXCEPT !.loaded = TRUE]
    /\ IF "Page" \in EnabledDomains /\ form.ask.waitNavigation
       THEN /\ waiting' = [waiting EXCEPT !.navigated = TRUE]
            /\ CheckCompletion(waiting')
       ELSE UNCHANGED <<waiting, form>>
    /\ UNCHANGED <<session, matched>>

\* Mutant: the timeout is dropped with the idle timer.
WaitTimesOutIdle ==
    /\ form.step = "wait" /\ waiting.idle
    /\ FormEnds(102)
    /\ UNCHANGED <<session, matched, traffic, waiting>>

WaitTimesOut ==
    /\ form.step = "wait"
    /\ FormEnds(102)
    /\ UNCHANGED <<session, matched, traffic, waiting>>

\* The session is stopped, the tab closed, while the command runs.
TargetGoes ==
    /\ form.step \notin {"idle", "over"} /\ session.target
    /\ session' = [session EXCEPT !.target = FALSE]
    /\ UNCHANGED <<matched, form, traffic, waiting>>

FormNext ==
    \/ \E ask \in Forms : BeginForm(ask)
    \/ CheckSession \/ ConnectForm \/ GetElementByIndex
    \/ Fill \/ Click \/ ClickBreaks \/ ScriptUnanswered \/ Eval \/ EvaluateFails
    \/ EnableNetwork \/ RequestBegins \/ RequestRedirected \/ RequestEnds
    \/ IdleExpires \/ PageNavigates \/ WaitTimesOut \/ TargetGoes

FormSpec == FormInit /\ [][FormNext]_formVars

\* Awaited calls are answered or fail and the timeout of the wait expires.
FormFairness ==
    /\ WF_formVars(CheckSession) /\ WF_formVars(ConnectForm) /\ WF_formVars(GetElementByIndex)
    /\ WF_formVars(Fill \/ Click \/ ClickBreaks \/ ScriptUnanswered \/ Eval \/ EvaluateFails)
    /\ WF_formVars(WaitTimesOut)

(***************************************************************************)
(* Properties.                                                             *)
(***************************************************************************)
\* The events that tell the page of a value; the others tell where the focus is.
Tells == {"input", "change", "focusout"}

Acted(f) == f.clicks > 0 \/ f.value # "" \/ \E e \in ToSet(f.seen) : e[1] \in Tells

\* A script may run fill, click and submit again after any exit code that blames the
\* user or the session (80 to 99, and 103): nothing has been filled or clicked.  They
\* have not even moved the focus, unless the code is 81, of a file input that fill
\* focuses before it refuses it.  A command that ends acts on one element at most,
\* clicks it once, the first visible one, or fills the first; success means it did;
\* every handler that is told of a value saw the one the field then holds.
ActsOnce ==
    form.step = "over" =>
        /\ form.exit \in 80 .. 99 \cup {103} =>
               \A i \in DOMAIN matched :
                   /\ ~Acted(matched[i])
                   /\ matched[i].seen # <<>> => form.exit = 81 /\ matched[1].kind = "file"
        /\ \A i, j \in DOMAIN matched : Acted(matched[i]) /\ Acted(matched[j]) => i = j /\ matched[i].clicks <= 1
        /\ form.exit = 0 /\ form.ask.name # "eval" => \E i \in DOMAIN matched : Acted(matched[i])
        /\ \A i \in DOMAIN matched : \A e \in ToSet(matched[i].seen) : e[1] \in Tells => i = 1 /\ e[2] = matched[i].value
        /\ \A i, j \in DOMAIN matched : matched[i].clicks > 0 /\ matched[j].visible => j >= i /\ matched[i].visible

\* A submit that waited for the network and succeeds leaves no request under
\* way, unless one began before the command listened or was redirected: then
\* the count of active requests is off by one for good.
SubmitIsIdle ==
    form.exit = 0 /\ form.ask.name = "submit" /\ form.ask.waitNetwork /\ ~traffic.odd => traffic.seen = 0

\* What a form command did, to the element it names and to the network.
FormsDoWhatTheySay == ActsOnce /\ SubmitIsIdle

\* A command that has begun ends.
FormsEnd == form.step \notin {"idle", "over"} ~> form.step = "over"
=============================================================================
