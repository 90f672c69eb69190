------------------------------- MODULE Texts -------------------------------
(***************************************************************************)
(* Texts as the filters see them: sequences of lexemes (strings), a blank, *)
(* a line end, a tab, an entity or a tag being one lexeme each, and the    *)
(* few operations every filter shares.  Ranges are inclusive.              *)
(***************************************************************************)
EXTENDS Integers, SequencesExt, FiniteSetsExt

White == {" ", "\n", "\t"}

Blank(t) == \A i \in DOMAIN t : t[i] \in White

Slice(t, r) == SubSeq(t, r.from, r.to)

\* A range without the white space at its two ends.
Core(t, r) ==
    LET solid == {i \in r.from .. r.to : t[i] \notin White}
    IN  [from |-> Min(solid), to |-> Max(solid)]

Trim(t) == IF Blank(t) THEN <<>> ELSE Slice(t, Core(t, [from |-> 1, to |-> Len(t)]))

\* A set of numbers in ascending order.
InOrder(S) == [k \in 1 .. Cardinality(S) |-> CHOOSE x \in S : Cardinality({y \in S : y <= x}) = k]

\* The elements of a sequence at some of its positions.
Kept(s, positions) ==
    LET order == InOrder(positions) IN [k \in DOMAIN order |-> s[order[k]]]

\* A set of ranges, by where they start.
ByStart(ranges) ==
    LET starts == InOrder({r.from : r \in ranges})
    IN  [k \in DOMAIN starts |-> CHOOSE r \in ranges : r.from = starts[k]]

\* The maximal runs of positions of t that satisfy a set of positions.
RunsOf(positions) ==
    LET starts == {i \in positions : i - 1 \notin positions}
        endOf(i) == Min({j \in positions : j >= i /\ j + 1 \notin positions})
    IN  {[from |-> i, to |-> endOf(i)] : i \in starts}

Entities == [amp |-> "&", lt |-> "<", gt |-> ">", quot |-> "\""]
Entity(name) == CASE name = "amp" -> "&amp;" [] name = "lt" -> "&lt;"
                  [] name = "gt" -> "&gt;" [] name = "quot" -> "&quot;"

Decoded(t) ==
    [i \in DOMAIN t |->
        IF \E n \in DOMAIN Entities : Entity(n) = t[i]
        THEN Entities[CHOOSE n \in DOMAIN Entities : Entity(n) = t[i]] ELSE t[i]]

\* Text with the named characters replaced by their entities.
Escaped(names, t) ==
    [i \in DOMAIN t |->
        IF \E n \in names : Entities[n] = t[i]
        THEN Entity(CHOOSE n \in names : Entities[n] = t[i]) ELSE t[i]]

(* The ranges of a text replaced by other texts, or nothing when two of   *)
(* the ranges overlap.                                                     *)
Overlapping(edits) ==
    \E a, b \in edits : a # b /\ a.from <= b.to /\ b.from <= a.to

Spliced(t, edits) ==
    LET at(i) == {e \in edits : e.from <= i /\ i <= e.to}
    IN  FlattenSeq([i \in DOMAIN t |->
            IF at(i) = {} THEN <<t[i]>>
            ELSE LET e == CHOOSE x \in at(i) : TRUE
                 IN  IF e.from = i THEN e.text ELSE <<>>])

\* What a filter hands to the engine for one structural path.
Unit(path, source) ==
    [path |-> path, source |-> source, hasTarget |-> FALSE, target |-> <<>>, tagged |-> FALSE]
=============================================================================
