---------------------------------- MODULE Text ----------------------------------
(***************************************************************************)
(* The few string operations of JavaScript the command-line program relies *)
(* on, over strings represented as sequences of characters.  Characters    *)
(* are whatever the instance chooses; LowerOf gives the lower case of each. *)
(***************************************************************************)
EXTENDS Naturals, Sequences, SequencesExt, FiniteSets

CONSTANT LowerOf

ToLower(s) == [i \in DOMAIN s |-> LowerOf[s[i]]]

Pieces(s, cuts) == [k \in 1 .. Len(cuts) - 1 |-> SubSeq(s, cuts[k] + 1, cuts[k + 1] - 1)]

\* The members of a finite set of numbers from the least to the greatest: the
\* k-th is the one that k members do not exceed.
Ascending(S) ==
    [k \in 1 .. Cardinality(S) |-> CHOOSE i \in S : Cardinality({j \in S : j <= i}) = k]

\* The elements of s at some positions, in their order.
Keep(s, S) == LET at == Ascending(S) IN [k \in DOMAIN at |-> s[at[k]]]

\* s.split(c): always one part more than there are separators.
Split(s, c) ==
    Pieces(s, <<0>> \o Ascending({i \in DOMAIN s : s[i] = c}) \o <<Len(s) + 1>>)

\* s.includes(t)
Includes(s, t) == \E i \in 0 .. Len(s) - Len(t) : SubSeq(s, i + 1, i + Len(t)) = t

StartsWith(s, t) == IsPrefix(t, s)
=============================================================================
