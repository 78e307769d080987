------------------------------- MODULE CdpCommand -------------------------------
(***************************************************************************)
(* bdg cdp: the look-up of names in the protocol schema (cdp/protocol.ts,  *)
(* cdp/schema.ts), the suggestions for a mistyped name                     *)
(* (utils/levenshtein.ts) and the modes of the command (commands/cdp.ts).  *)
(*                                                                         *)
(* Names are sequences of characters.  undefined and '' are both falsy and *)
(* the code tells them apart nowhere: both are the empty sequence.         *)
(* Descriptions take part in the search only, so a command carries one.    *)
(***************************************************************************)
EXTENDS Text, FiniteSets

CONSTANT Protocol   \* the merged domains, in the order of the two files

\* What the protocol files guarantee: names are not empty and have no dot, and no
\* two domains, and no two commands of a domain, differ by the case of their
\* letters only.
Spelled(name) == name \in Seq(DOMAIN LowerOf \ {"."}) \ {<<>>}

ASSUME ProtocolAssumption ==
    /\ Protocol \in Seq(ToSet(Protocol))
    /\ \A d \in ToSet(Protocol) : Spelled(d.domain) /\ d.commands \in Seq(ToSet(d.commands))
    /\ \A d \in ToSet(Protocol) : \A c \in ToSet(d.commands) : Spelled(c.name)
    /\ \A i, j \in DOMAIN Protocol : ToLower(Protocol[i].domain) = ToLower(Protocol[j].domain) => i = j
    /\ \A d \in ToSet(Protocol) : \A i, j \in DOMAIN d.commands :
          ToLower(d.commands[i].name) = ToLower(d.commands[j].name) => i = j

None == <<>>

(***************************************************************************)
(* Look-up, by the first match in the protocol's order; 0 when none.       *)
(***************************************************************************)
FindDomain(name) == SelectInSeq(Protocol, LAMBDA d : ToLower(d.domain) = ToLower(name))

Commands(domainName) ==
    IF FindDomain(domainName) = 0 THEN <<>> ELSE Protocol[FindDomain(domainName)].commands

FindCommand(domainName, name) ==
    SelectInSeq(Commands(domainName), LAMBDA c : ToLower(c.name) = ToLower(name))

FullName(domain, command) == domain \o <<".">> \o command

\* Mutant: a known name is sent as it was typed.
NormalizeMethodTyped(input) ==
    LET parts == Split(input, ".")
    IN  IF Len(parts) = 1 \/ FindCommand(parts[1], parts[2]) = 0 THEN None
        ELSE FullName(parts[1], parts[2])

\* The spelling of the protocol's own, for positions found by the look-up.
Spelling(d, c) ==
    IF d = 0 \/ c = 0 THEN None ELSE FullName(Protocol[d].domain, Protocol[d].commands[c].name)

NormalizeParts(parts) ==
    IF Len(parts) = 1 \/ parts[1] = <<>> \/ parts[2] = <<>> THEN None
    ELSE Spelling(FindDomain(parts[1]), FindCommand(parts[1], parts[2]))

NormalizeMethod(input) == NormalizeParts(Split(input, "."))

(***************************************************************************)
(* Schemas.  A parameter is [name, optional, type, ref, enum]; "" stands   *)
(* for a missing type or $ref.                                             *)
(***************************************************************************)
ResolveType(t) == IF t.ref # "" THEN t.ref ELSE IF t.type # "" THEN t.type ELSE "any"

ParamToSchema(p) ==
    [name |-> p.name, type |-> ResolveType(p), required |-> ~p.optional, enum |-> p.enum]

ExampleValue(p) ==
    IF p.enum # <<>> THEN Head(p.enum)
    ELSE CASE p.type = "string" -> "example"
           [] p.type \in {"integer", "number"} -> "0"
           [] p.type = "boolean" -> "true"
           [] p.type = "array" -> "[]"
           [] p.type = "object" -> "{}"
           [] OTHER -> "null"

\* Mutant: the example fills in the optional parameters instead.
ExampleOfOptional(params) ==
    LET shown == {i \in DOMAIN params : ~params[i].required}
    IN  [n \in {params[i].name : i \in shown} |->
            ExampleValue(params[CHOOSE i \in shown : params[i].name = n])]

\* The parameters of the example: the required ones, each with a value.
ExampleParams(params) ==
    LET shown == {i \in DOMAIN params : params[i].required}
    IN  [n \in {params[i].name : i \in shown} |->
            ExampleValue(params[CHOOSE i \in shown : params[i].name = n])]

MethodSchema(domain, command) ==
    LET params == [i \in DOMAIN command.parameters |-> ParamToSchema(command.parameters[i])]
    IN  [name |-> FullName(domain, command.name), method |-> command.name,
         parameters |-> params, returns |-> [i \in DOMAIN command.returns |->
             [type |-> ResolveType(command.returns[i]), optional |-> command.returns[i].optional]],
         example |-> [command |-> FullName(domain, command.name),
                      params |-> ExampleParams(params)]]

GetDomainMethods(domainName) ==
    LET commands == Commands(domainName)
    IN  [i \in DOMAIN commands |->
            MethodSchema(Protocol[FindDomain(domainName)].domain, commands[i])]

GetMethodSchema(domainName, name) == GetDomainMethods(domainName)[FindCommand(domainName, name)]

DomainSummary(d) ==
    [name |-> d.domain, commandCount |-> Len(d.commands), eventCount |-> d.events]

\* Names or descriptions that contain the query.
SearchMethods(query) ==
    LET has(c)   == \/ Includes(ToLower(c.name), ToLower(query))
                    \/ Includes(ToLower(c.description), ToLower(query))
        found(d) == Keep(d.commands, {k \in DOMAIN d.commands : has(d.commands[k])})
    IN  FlattenSeq([i \in DOMAIN Protocol |->
            [k \in DOMAIN found(Protocol[i]) |->
                MethodSchema(Protocol[i].domain, found(Protocol[i])[k])]])

(***************************************************************************)
(* Suggestions.                                                            *)
(***************************************************************************)
Least(S) == CHOOSE x \in S : \A y \in S : x <= y

Cost(a, b) == IF a = b THEN 0 ELSE 1

\* The cell of a column from the one above, the one before and the one above that.
Cell(above, before, aboveBefore, cost) == Least({above + 1, before + 1, aboveBefore + cost})

\* Row i of the matrix.  The cell of column j is at position j + 1.
AddCell(cells, above, s, t, i, j) ==
    Append(cells, Cell(above[j + 1], cells[j], above[j], Cost(s[i], t[j])))

NextRow(above, s, t, i) ==
    LET cells[j \in 0 .. Len(t)] ==
            IF j = 0 THEN <<i>> ELSE AddCell(cells[j - 1], above, s, t, i, j)
    IN  cells[Len(t)]

Matrix(s, t) ==
    LET row[i \in 0 .. Len(s)] ==
            IF i = 0 THEN [j \in 1 .. Len(t) + 1 |-> j - 1] ELSE NextRow(row[i - 1], s, t, i)
    IN  row

Levenshtein(s, t) == Matrix(s, t)[Len(s)][Len(t) + 1]

\* distance <= Math.max(length / 2, 3), without the fraction.
WithinReach(distance, length) == distance <= 3 \/ 2 * distance <= length

\* a.distance - b.distance, for a stable sort: place, the position in the list,
\* decides between equals.
NotAfter(a, b) == a.distance < b.distance \/ (a.distance = b.distance /\ a.place <= b.place)

\* Mutant: the most distant first.
FarthestOf(candidates, limit) ==
    LET all == ToSet(candidates)
    IN  [k \in 1 .. Least({limit, Len(candidates)}) |->
            CHOOSE m \in all : Cardinality({x \in all : NotAfter(m, x)}) = k]

\* candidates.sort(by distance).slice(0, limit): the k-th is the one that k
\* candidates do not come after.
ClosestOf(candidates, limit) ==
    LET all == ToSet(candidates)
    IN  [k \in 1 .. Least({limit, Len(candidates)}) |->
            CHOOSE m \in all : Cardinality({x \in all : NotAfter(x, m)}) = k]

\* The names with their distances, in their order, those in reach only.
InReach(target, names, distances) ==
    Keep([i \in DOMAIN names |-> [name |-> names[i], distance |-> distances[i], place |-> i]],
         {i \in DOMAIN names : WithinReach(distances[i], Len(target))})

Names(matches) == [i \in DOMAIN matches |-> matches[i].name]

FindClosestMatches(target, candidates, limit) ==
    LET far == [i \in DOMAIN candidates |-> Levenshtein(ToLower(target), ToLower(candidates[i]))]
    IN  Names(ClosestOf(InReach(target, candidates, far), limit))

\* A method is as far as the nearer of its full name and its bare name.
MethodDistance(typed, fullName) ==
    Least({Levenshtein(ToLower(typed), ToLower(fullName)),
           Levenshtein(ToLower(typed), ToLower(Split(fullName, ".")[2]))})

SimilarOf(typed, methods) ==
    Names(ClosestOf(InReach(typed, methods,
                            [i \in DOMAIN methods |-> MethodDistance(typed, methods[i])]), 3))

DomainMethodNames(d) == LET methods == GetDomainMethods(d.domain)
                        IN  [k \in DOMAIN methods |-> methods[k].name]

FindSimilarMethods(typed, domain) ==
    LET searched == Keep(Protocol, {i \in DOMAIN Protocol :
                                       domain = None \/ ToLower(Protocol[i].domain) = ToLower(domain)})
    IN  SimilarOf(typed, FlattenSeq([i \in DOMAIN searched |-> DomainMethodNames(searched[i])]))

(***************************************************************************)
(* The modes, in the order the command tests for them.  An invocation is   *)
(* [method, search, list, describe, params]; params is "none", "json" or   *)
(* "malformed".  A reply says what was answered: data, or the suggestions. *)
(***************************************************************************)
Erring(suggestions) == [ok |-> FALSE, is |-> "error", data |-> suggestions]
Answering(is, data)   == [ok |-> TRUE, is |-> is, data |-> data]

HandleSearch(query) == Answering("methods", SearchMethods(query))

HandleListDomains ==
    Answering("domains", [i \in DOMAIN Protocol |-> DomainSummary(Protocol[i])])

HandleListDomainMethods(name) ==
    IF FindDomain(name) = 0 THEN Erring(<<>>) ELSE Answering("methods", GetDomainMethods(name))

DescribeParts(name, parts) ==
    IF Len(parts) = 1 \/ parts[2] = <<>>
    THEN IF FindDomain(parts[1]) = 0
         THEN Erring(FindSimilarMethods(name, None))
         ELSE Answering("domain", DomainSummary(Protocol[FindDomain(parts[1])]))
    ELSE IF FindCommand(parts[1], parts[2]) = 0
         THEN Erring(FindSimilarMethods(name, parts[1]))
         ELSE Answering("method", GetMethodSchema(parts[1], parts[2]))

HandleDescribeMethod(name) == DescribeParts(name, Split(name, "."))

\* The method sent to the daemon, when the name is known and --params parses.
HandleExecuteMethod(name, params) ==
    LET normalized == NormalizeMethod(name)
    IN  IF normalized = None THEN Erring(FindSimilarMethods(name, None))
        ELSE IF params = "malformed" THEN Erring(<<>>) ELSE Answering("sent", normalized)

CdpReply(call) ==
    CASE call.search # <<>> -> HandleSearch(call.search)
      [] call.search = <<>> /\ call.list ->
            IF call.method = <<>> THEN HandleListDomains ELSE HandleListDomainMethods(call.method)
      [] call.search = <<>> /\ ~call.list /\ call.describe /\ call.method # <<>> ->
            HandleDescribeMethod(call.method)
      [] call.search = <<>> /\ ~call.list /\ ~call.describe /\ call.method # <<>> ->
            HandleExecuteMethod(call.method, call.params)
      [] OTHER -> Erring(<<>>)

(***************************************************************************)
(* Properties, of one input each.                                          *)
(***************************************************************************)
Execute(name)  == CdpReply([method |-> name, search |-> <<>>, list |-> FALSE,
                            describe |-> FALSE, params |-> "none"])
Describe(name) == CdpReply([method |-> name, search |-> <<>>, list |-> FALSE,
                            describe |-> TRUE, params |-> "none"])

\* What is offered can be used: execution takes a name exactly when --describe
\* shows a method under it, and then sends the name shown; that name, and every
\* name suggested for one that is not known, executes as it stands, however the
\* letters are cased and wherever the dots are.
NamesAgreeFor(name) ==
    \A run \in {Execute(name)}, says \in {Describe(name)} :
        /\ run.ok <=> says.is = "method"
        /\ run.ok => /\ run.data = says.data.name
                     /\ ToLower(run.data) = ToLower(SubSeq(name, 1, Len(run.data)))
        /\ \A reply \in {run, says} : ~reply.ok =>
               \A offered \in ToSet(reply.data) : Execute(offered) = Answering("sent", offered)

\* Listing, searching and describing tell the same of a method, and its example
\* runs as printed: the name is the method's own and every required parameter,
\* and no other, has a value.
SchemasAgreeFor(name) ==
    \A m \in ToSet(SearchMethods(name)) \cup ToSet(GetDomainMethods(name)) :
        /\ Describe(m.name) = Answering("method", m)
        /\ Execute(m.example.command) = Answering("sent", m.name)
        /\ LET d == FindDomain(Split(m.name, ".")[1])
               c == FindCommand(Split(m.name, ".")[1], m.method)
               p == Protocol[d].commands[c].parameters
           IN  DOMAIN m.example.params = {p[i].name : i \in {j \in DOMAIN p : ~p[j].optional}}

\* The closest names are suggested: at most three, all in reach, the nearest
\* first, and none left out that is nearer than one of them or fits beside them.
SuggestionsAreClosestFor(name) ==
    LET offered == FindSimilarMethods(name, None)
        known   == UNION {{m.name : m \in ToSet(GetDomainMethods(d.domain))} : d \in ToSet(Protocol)}
        far(n)  == MethodDistance(name, n)
    IN  /\ Len(offered) <= 3
        /\ \A i, j \in DOMAIN offered : i < j => offered[i] # offered[j] /\ far(offered[i]) <= far(offered[j])
        /\ \A i \in DOMAIN offered : offered[i] \in known /\ WithinReach(far(offered[i]), Len(name))
        /\ \A n \in known \ ToSet(offered) : WithinReach(far(n), Len(name)) =>
               Len(offered) = 3 /\ \A i \in DOMAIN offered : far(offered[i]) <= far(n)

\* An alignment of two strings pairs positions without crossing; unpaired
\* letters are deleted or inserted, paired ones that differ substituted.
Alignments(s, t) ==
    {A \in SUBSET ((DOMAIN s) \X (DOMAIN t)) :
        \A p, q \in A : p # q => (p[1] < q[1] /\ p[2] < q[2]) \/ (q[1] < p[1] /\ q[2] < p[2])}

AlignmentCost(A, s, t) ==
    Len(s) + Len(t) - 2 * Cardinality(A) + Cardinality({p \in A : s[p[1]] # t[p[2]]})

\* The matrix gives the cost of the cheapest alignment.
DistanceIsMinimalFor(s, t) ==
    Levenshtein(s, t) = Least({AlignmentCost(A, s, t) : A \in Alignments(s, t)})
=============================================================================
