------------------------------- MODULE UrlFilters -------------------------------
(***************************************************************************)
(* utils/url.ts and telemetry/filters.ts: what becomes of the URL a user   *)
(* types before Chrome is sent there, and which requests and bodies the    *)
(* collectors keep.                                                        *)
(*                                                                         *)
(* A URL, a host name or a pattern is a sequence of tokens: words (a       *)
(* scheme, a label, a path segment), single characters of punctuation, and *)
(* numbers.  The wildcard is the token "*".                                *)
(***************************************************************************)
EXTENDS Text

CONSTANTS
    Words,              \* tokens of letters
    Numbers,            \* tokens of digits
    ExcludedDomains,    \* DEFAULT_EXCLUDED_DOMAINS
    SkipBodyPatterns,   \* DEFAULT_SKIP_BODY_PATTERNS
    SkipBodyMimeTypes,  \* DEFAULT_SKIP_BODY_MIME_TYPES
    TextMimeTypes       \* those with json, javascript, text or html in them

\* Lowering a token leaves it a word or not, and changes nothing the second time.
ASSUME LowerAssumption ==
    /\ {"http", ":", "/"} \subseteq DOMAIN LowerOf /\ "http" \in Words
    /\ \A c \in {"http", ":", "/"} : LowerOf[c] = c
    /\ \A c \in DOMAIN LowerOf :
           /\ LowerOf[c] \in DOMAIN LowerOf /\ LowerOf[LowerOf[c]] = LowerOf[c]
           /\ LowerOf[c] \in Words <=> c \in Words

(***************************************************************************)
(* utils/url.ts                                                            *)
(***************************************************************************)
Hierarchical == {"http", "https", "file"}
PreservedPrefixes ==
    {<<s, ":", "/", "/">> : s \in Hierarchical}
        \cup {<<s, ":">> : s \in {"about", "chrome", "data", "javascript", "blob"}}
ValidProtocols == Hierarchical \cup {"about", "chrome", "data", "javascript", "blob"}
InvalidInHost == {"!", "?"}    \* of the code's class [!@#$%^&*()=+[\]{}\\|;'",<>?]

HasPrefix(url, prefixes) == \E p \in prefixes : StartsWith(ToLower(url), p)

\* Mutant: the prefixes are compared as typed.
NormalizeTyped(url) ==
    IF \E p \in PreservedPrefixes : StartsWith(url, p) THEN url
    ELSE <<"http", ":", "/", "/">> \o url

\* The protocol in lower case if it is one of those preserved, http:// before
\* anything else.
NormalizeUrl(url) ==
    IF ~HasPrefix(url, PreservedPrefixes) THEN <<"http", ":", "/", "/">> \o url
    ELSE <<LowerOf[url[1]]>> \o Tail(url)

\* new URL(url): a scheme is a word before a colon.  http, https and file take
\* any number of slashes before the authority; another scheme has an authority
\* after two, and otherwise a path alone.
NoUrl == [ok |-> FALSE, protocol |-> "", host |-> <<>>, port |-> <<>>, path |-> <<>>]

Before(s, stops) ==   \* the part of s before the first of stops
    LET i == SelectInSeq(s, LAMBDA c : c \in stops) IN IF i = 0 THEN s ELSE SubSeq(s, 1, i - 1)

DropSlashes(s) ==
    LET i == SelectInSeq(s, LAMBDA c : c # "/") IN IF i = 0 THEN <<>> ELSE SubSeq(s, i, Len(s))

\* Every part is known: is it a URL?
Located(scheme, host, port, path) ==
    LET web == scheme \in {"http", "https"}
    IN  IF \/ host = <<>> /\ (web \/ port # <<>>)
           \/ Len(port) > 1 \/ (port # <<>> /\ port[1] \notin Numbers)
           \/ \E i \in DOMAIN host : host[i] = " "
        THEN NoUrl
        ELSE [ok |-> TRUE, protocol |-> scheme, host |-> ToLower(host), port |-> port,
              path |-> IF web /\ path = <<>> THEN <<"/">> ELSE path]

WithHost(scheme, host, authority, rest) ==
    Located(scheme, host, SubSeq(authority, Len(host) + 2, Len(authority)),
            Before(SubSeq(rest, Len(authority) + 1, Len(rest)), {"?"}))

WithAuthority(scheme, authority, rest) ==
    WithHost(scheme, Before(authority, {":"}), authority, rest)

AfterScheme(scheme, rest) ==
    CASE scheme \in {"http", "https"} ->
             WithAuthority(scheme, Before(DropSlashes(rest), {"/", "?"}), DropSlashes(rest))
      [] scheme \notin {"http", "https"} /\ StartsWith(rest, <<"/", "/">>) ->
             WithAuthority(scheme, Before(Tail(Tail(rest)), {"/", "?"}), Tail(Tail(rest)))
      [] OTHER -> [ok |-> TRUE, protocol |-> scheme, host |-> <<>>, port |-> <<>>,
                   path |-> Before(rest, {"?"})]

ParseUrl(url) ==
    IF Len(url) < 2 \/ url[1] \notin Words \/ url[2] # ":" THEN NoUrl
    ELSE AfterScheme(LowerOf[url[1]], SubSeq(url, 3, Len(url)))

\* The checks in their order; \A c : c = " " is url.trim() = ''.
ValidateUrl(url) ==
    /\ \E i \in DOMAIN url : url[i] # " "
    /\ ~Includes(url, <<" ">>)
    /\ ~StartsWith(ToLower(url), <<"vbscript", ":">>)
    /\ \/ HasPrefix(url, {<<s, ":">> : s \in {"javascript", "data", "blob"}})
       \/ ToSet(Before(url, {"/"})) \cap InvalidInHost = {}
    /\ LET parsed == ParseUrl(NormalizeUrl(url))
       IN  /\ parsed.ok
           /\ parsed.protocol \in ValidProtocols
           /\ parsed.protocol \in {"http", "https"} => parsed.host # <<>>

SafeParseUrl(input) ==
    ParseUrl(IF ParseUrl(input).ok THEN input ELSE <<"http", ":", "/", "/">> \o input)

HostOr(parsed, input) == IF parsed.ok THEN parsed.host ELSE input

ExtractHostname(input) == HostOr(SafeParseUrl(input), input)

\* parsed.host with its port, and the path.
HostWithPathOr(parsed, input) ==
    IF ~parsed.ok THEN input
    ELSE parsed.host \o (IF parsed.port = <<>> THEN <<>> ELSE <<":">> \o parsed.port) \o parsed.path

ExtractHostnameWithPath(input) == HostWithPathOr(SafeParseUrl(input), input)

(***************************************************************************)
(* telemetry/filters.ts                                                    *)
(***************************************************************************)
ShouldExcludeDomain(url, includeAll) ==
    ~includeAll /\ \E d \in ExcludedDomains : Includes(ToLower(ExtractHostname(url)), ToLower(d))

\* Mutant: the star stands for one token at least.
MatchStarPlus(at, str, token) ==
    IF token = "*" THEN {j \in 1 .. Len(str) : \E i \in at : i < j}
    ELSE {i + 1 : i \in {i \in at : i < Len(str) /\ LowerOf[str[i + 1]] = LowerOf[token]}}

\* From the lengths of str consumed so far to those after one more token of the
\* pattern: * is .*, every other character stands for itself, in either case.
MatchToken(at, str, token) ==
    IF token = "*" THEN {j \in 0 .. Len(str) : \E i \in at : i <= j}
    ELSE {i + 1 : i \in {i \in at : i < Len(str) /\ LowerOf[str[i + 1]] = LowerOf[token]}}

\* The lengths that the first k tokens of the pattern can consume.
Consumed(str, pattern) ==
    LET at[k \in 0 .. Len(pattern)] ==
            IF k = 0 THEN {0} ELSE MatchToken(at[k - 1], str, pattern[k])
    IN  at

MatchesWildcard(str, pattern) == Len(str) \in Consumed(str, pattern)[Len(pattern)]

MatchesAnyPattern(url, patterns) ==
    \E shown \in {ExtractHostname(url), ExtractHostnameWithPath(url)}, p \in patterns :
        MatchesWildcard(shown, p)

\* Mutant: the exclusions are looked at first.
EvaluateExcludeFirst(url, include, exclude, default) ==
    /\ ~MatchesAnyPattern(url, exclude)
    /\ IF include # {} THEN MatchesAnyPattern(url, include) ELSE default

EvaluatePatternMatch(url, include, exclude, default) ==
    IF include # {} THEN MatchesAnyPattern(url, include)
    ELSE ~MatchesAnyPattern(url, exclude) /\ default

\* options is [fetchAll, include, exclude, max]; a MIME type is its essence in
\* lower case, "" when there is none.
ShouldFetchBody(url, mime, options) ==
    IF options.include # {} THEN EvaluatePatternMatch(url, options.include, {}, FALSE)
    ELSE /\ ~EvaluatePatternMatch(url, options.exclude, {}, FALSE)
         /\ \/ options.fetchAll
            \/ /\ mime \notin SkipBodyMimeTypes
               /\ ~EvaluatePatternMatch(url, SkipBodyPatterns, {}, FALSE)

\* The first reason to skip, or "fetch".
ShouldFetchBodyWithReason(url, mime, size, options) ==
    CASE mime \notin TextMimeTypes -> "Non-text response type"
      [] mime \in TextMimeTypes /\ size > options.max -> "Response too large"
      [] mime \in TextMimeTypes /\ size <= options.max /\ ~ShouldFetchBody(url, mime, options) -> "Auto-optimization"
      [] OTHER -> "fetch"

ShouldExcludeUrl(url, include, exclude) == ~EvaluatePatternMatch(url, include, exclude, TRUE)

\* telemetry/network.ts: domains first, then the patterns.
ShouldFilterRequest(url, includeAll, include, exclude) ==
    ShouldExcludeDomain(url, includeAll) \/ ShouldExcludeUrl(url, include, exclude)

(***************************************************************************)
(* Properties, of one input each.                                          *)
(***************************************************************************)
\* The start command validates what was typed and the worker navigates, after
\* its own normalisation, to something else: what passes the check is a URL
\* Chrome can open, with a protocol of the list, the same however often it is
\* normalised, the URL the user meant if it was complete, and seen by the
\* filters under the host and path Chrome will report.
ValidatedIsNavigatedFor(typed) ==
    \A url \in {NormalizeUrl(typed)} : \A to \in {ParseUrl(url)} :
        ValidateUrl(typed) =>
            /\ to.ok /\ to.protocol \in ValidProtocols
            /\ NormalizeUrl(url) = url
            /\ HasPrefix(typed, PreservedPrefixes) => to = ParseUrl(typed)
            /\ ~HasPrefix(typed, PreservedPrefixes) => to.protocol = "http"
            /\ ExtractHostname(url) = to.host
            /\ StartsWith(ExtractHostnameWithPath(url), to.host)

\* A pattern matches when the text between its stars is found in order, the
\* first piece at the beginning and the last at the end.
Occurs(piece, str, i) == ToLower(SubSeq(str, i + 1, i + Len(piece))) = ToLower(piece)

WildcardMeansFor(str, pattern) ==
    LET pieces == Split(pattern, "*")
        n      == Len(pieces)
    IN  MatchesWildcard(str, pattern) <=>
            \E start \in [1 .. n -> 0 .. Len(str)] :
                /\ \A k \in 1 .. n : start[k] + Len(pieces[k]) <= Len(str) /\ Occurs(pieces[k], str, start[k])
                /\ \A k \in 1 .. n - 1 : start[k] + Len(pieces[k]) <= start[k + 1]
                /\ start[1] = 0 /\ start[n] + Len(pieces[n]) = Len(str)

\* The precedence of the rules, as what an option may change: an include pattern
\* that matches decides alone, one that does not match hides everything else,
\* more exclusions never keep more, fetchAll and a larger limit never keep less,
\* and no option fetches what is no text or too large.
FiltersAreMonotoneFor(url, mime, size, o) ==
    LET isText == mime \in TextMimeTypes
        fetched(options) == ShouldFetchBodyWithReason(url, mime, size, options) = "fetch"
        kept(include, exclude) == ~ShouldFilterRequest(url, TRUE, include, exclude)
    IN  /\ o.include # {} => /\ kept(o.include, o.exclude) <=> MatchesAnyPattern(url, o.include)
                             /\ fetched(o) <=> /\ MatchesAnyPattern(url, o.include)
                                               /\ isText /\ size <= o.max
        /\ kept(o.include, o.exclude) => kept(o.include, {})
        /\ fetched(o) => /\ fetched([o EXCEPT !.exclude = {}])
                         /\ fetched([o EXCEPT !.fetchAll = TRUE])
                         /\ fetched([o EXCEPT !.max = @ + 1])
                         /\ isText /\ size <= o.max
        /\ o.fetchAll /\ isText /\ size <= o.max /\ o.include = {} =>
               (fetched(o) <=> ~MatchesAnyPattern(url, o.exclude))
        /\ ShouldFilterRequest(url, FALSE, o.include, o.exclude) <=>
               ShouldExcludeDomain(url, FALSE) \/ ~kept(o.include, o.exclude)
=============================================================================
