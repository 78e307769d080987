------------------------------ MODULE MCCommandLine ------------------------------
(***************************************************************************)
(* Model-checking instance of what a command line meets: the pure functions *)
(* over every call with arguments of bounded sets (CommandLineCalls),      *)
(* and four processes, one per mode: the telemetry viewers, the DOM query   *)
(* commands with the concurrency limiter, the form commands, and a stream   *)
(* of frames with its reader.  The modes share no state.                    *)
(***************************************************************************)
EXTENDS TelemetryViews, DomQuery, FormCommand, CommandLineCalls, JsonlFraming

Chars == {"a", "A", "b", "."}
MCWords == {"a", "A", "b", "http", "HTTP", "https", "file", "about", "data", "vbscript"}
MCNumbers == {"9"}
MCLower == [c \in Chars \cup MCWords \cup MCNumbers \cup {":", "/", "?", "!", " ", "*"} |->
                CASE c = "A" -> "a" [] c = "HTTP" -> "http" [] OTHER -> c]
MCDomains == {<<"b", ".", "a">>}
MCSkipPatterns == {<<"*", ".", "b">>}
P(n, o, t, r, e) == [name |-> n, optional |-> o, type |-> t, ref |-> r, enum |-> e]
Cmd(n, desc, ps) == [name |-> n, description |-> desc, parameters |-> ps,
                     returns |-> <<[optional |-> FALSE, type |-> "", ref |-> ""]>>]
MCProtocol ==
    << [domain |-> <<"A">>, events |-> 2, commands |->
          << Cmd(<<"a", "b">>, <<"b", "b">>, <<P("x", FALSE, "string", "", <<"one", "two">>), P("y", TRUE, "object", "", <<>>)>>),
             Cmd(<<"b", "b", "b", "a", "b", "b", "A">>, <<>>, <<P("x", FALSE, "", "T", <<>>), P("y", FALSE, "array", "", <<>>)>>) >>],
       [domain |-> <<"b", "A">>, events |-> 0, commands |-> <<Cmd(<<"a">>, <<"A", "b", "A">>, <<>>), Cmd(<<"A", "b">>, <<>>, <<P("z", TRUE, "boolean", "", <<>>)>>)>>],
       [domain |-> <<"b", "b">>, events |-> 1, commands |-> <<>>] >>

Words3 == SeqOf({"a", "b"}, 3)
TypedNames == SeqOf(Chars, 4) \cup {<<"b">> \o n \o <<"b", "A", "b", "b", "a">> : n \in SeqOf(Chars, 3)}
TypedUrls ==
    {p \o h \o r :
        p \in {<<>>, <<"http", ":", "/", "/">>, <<"HTTP", ":", "/", "/">>, <<"http", ":">>, <<"https", ":", "/">>,
               <<"file", ":", "/", "/">>, <<"about", ":">>, <<"data", ":">>, <<"vbscript", ":">>, <<"a", ":">>, <<"a", ":", "/", "/">>},
        h \in {<<>>, <<"b">>, <<"b", ".", "A">>, <<"!">>, <<"a", " ">>},
        r \in {<<>>, <<":", "9">>, <<":", "a">>, <<"/", "A">>, <<"/", "!">>, <<"?", "a">>}}
Site(server, path) == <<"http", ":", "/", "/">> \o server \o path
Sites == {Site(h, p) : h \in {<<"b", ".", "a">>, <<"a">>, <<"a", ":", "9">>}, p \in {<<"/">>, <<"/", "A", ".", "b">>}}
PatternSets == {{}, {<<"a">>}, {<<"*", "a", "/", "*">>, <<"b", "*">>}}
Options == [fetchAll : BOOLEAN, include : PatternSets, exclude : PatternSets, max : {2}]

MCFrames == {<<"a">>, <<"E1", "E2">>, <<"a", "E1", "E2">>}

MCMessages == {[type |-> "log", excluded |-> FALSE], [type |-> "error", excluded |-> FALSE], [type |-> "log", excluded |-> TRUE]}
Viewing(name, filter, last, network, index) == [name |-> name, filter |-> filter, last |-> last, network |-> network, index |-> index]
MCViewings == {Viewing("tail", "", 1, FALSE, 0), Viewing("peek", "", 10, TRUE, 0), Viewing("console", "", 0, FALSE, 0), Viewing("console", "error", 1, FALSE, 0),
               Viewing("details", "", 0, FALSE, 1)}

MCCalls ==
    [is : {"edit"}, s : Words3, t : Words3]
        \cup [is : {"name"}, name : TypedNames]
        \cup [is : {"url"}, url : TypedUrls]
        \cup [is : {"pattern"}, s : SeqOf({"a", "."}, 3), pattern : SeqOf({"a", "A", ".", "*"}, 3)]
        \cup [is : {"pages"}, items : {[i \in 1 .. n |-> i] : n \in 0 .. 9}, lastN : 1 .. 6]
        \cup [is : {"exit"}, command : CommandNames, outcome : Outcomes]
        \cup [is : {"body"}, url : Sites, mime : {"", "text", "css", "png"}, size : 1 .. 3, options : Options]

Modes == {"view", "query", "form", "frames"}
Mode(name) == sample.is = name

MCInit ==
    /\ sample \in Calls \cup [is : Modes]
    /\ ViewInit /\ Init /\ DomInit /\ FramingInit
    /\ Mode("frames") \/ decoder = "stream"
    /\ IF Mode("form") THEN FormInit
       ELSE FormInitOn([alive |-> TRUE, metadata |-> TRUE, target |-> TRUE, defaultPort |-> TRUE], <<>>)

queryVars == <<vars, domVars>>
MCNext ==
    /\ UNCHANGED sample
    /\ \/ Mode("view") /\ ViewNext /\ UNCHANGED <<queryVars, formVars, framingVars>>
       \/ Mode("query") /\ DomNext /\ UNCHANGED <<viewVars, formVars, framingVars>>
       \/ Mode("form") /\ FormNext /\ UNCHANGED <<viewVars, queryVars, framingVars>>
       \/ Mode("frames") /\ FramingNext /\ UNCHANGED <<viewVars, queryVars, formVars>>
       \/ sample.is \notin Modes /\ UNCHANGED <<viewVars, queryVars, formVars, framingVars>>

MCSpec ==
    /\ MCInit /\ [][MCNext]_<<sample, viewVars, queryVars, formVars, framingVars>>
    /\ ViewFairness /\ DomFairness /\ FormFairness

MCQueries == {[name |-> "query", nodeId |-> FALSE, all |-> FALSE, nth |-> 0], [name |-> "get", nodeId |-> FALSE, all |-> TRUE, nth |-> 0],
              [name |-> "get", nodeId |-> FALSE, all |-> FALSE, nth |-> 0], [name |-> "get", nodeId |-> TRUE, all |-> FALSE, nth |-> 0],
              [name |-> "get", nodeId |-> FALSE, all |-> FALSE, nth |-> 3]}
MCTasks == 1 .. 4
MCMatches == <<4, 2>>
MCForms ==
    {[NoForm EXCEPT !.name = n, !.index = i] : n \in {"click", "submit"}, i \in 0 .. 1}
        \cup {[NoForm EXCEPT !.name = "submit", !.waitNetwork = w, !.waitNavigation = v] : w \in BOOLEAN, v \in BOOLEAN}
        \cup {[NoForm EXCEPT !.name = "fill", !.value = "option", !.quoted = q, !.blur = b] : q \in BOOLEAN, b \in BOOLEAN}
        \cup {[NoForm EXCEPT !.name = "click", !.quoted = TRUE], [NoForm EXCEPT !.name = "eval"]}
MCFields == [kind : {"text"}, visible : BOOLEAN] \cup [kind : {"select", "checkbox", "editable", "file", "div"}, visible : {TRUE}]

\* A command that has begun ends, and the code it ends with tells why.
CommandsEnd == []ExitTellsCause /\ QueryEnds /\ FormsEnd
=============================================================================
