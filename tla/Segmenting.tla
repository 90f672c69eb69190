----------------------------- MODULE Segmenting -----------------------------
(***************************************************************************)
(* tl-segmentation, and the two halves of the engine around it: units are *)
(* split into the segments of the grid at import and put together again    *)
(* per structural path at export.  A rule set, built in or SRX, is the set *)
(* of lexemes it breaks after; an abbreviation is one lexeme.              *)
(***************************************************************************)
EXTENDS Texts

\* Lines with their line ends.
LineEnds(t) == {i \in DOMAIN t : t[i] = "\n"} \cup {Len(t)}

Lines(t) ==
    {[from |-> Max({0} \cup {e \in LineEnds(t) : e < end}) + 1, to |-> end] : end \in LineEnds(t)}

\* A paragraph is a run of lines that are not blank.
ParagraphRanges(t) ==
    ByStart(RunsOf(UNION {l.from .. l.to : l \in {x \in Lines(t) : ~Blank(Slice(t, x))}}))

\* White space after a break belongs to the sentence that ends there.
Boundary(t, i) == Max({j \in i .. Len(t) : Blank(SubSeq(t, i + 1, j))})

Boundaries(t, rules) == {Boundary(t, i) : i \in {j \in DOMAIN t : t[j] \in rules}}

SentenceRanges(t, rules) ==
    LET cut(acc, b) ==
            IF b > acc.done /\ ~Blank(SubSeq(t, acc.done + 1, b))
            THEN [done |-> b, ranges |-> Append(acc.ranges, [from |-> acc.done + 1, to |-> b])]
            ELSE acc
        all == FoldLeft(cut, [done |-> 0, ranges |-> <<>>],
                        InOrder(Boundaries(t, rules) \cup {Len(t)}))
    IN  all.ranges

Ranges(t, mode, rules) ==
    IF mode = "paragraph" THEN ParagraphRanges(t) ELSE SentenceRanges(t, rules)

(* One segment per range.  White space between two cores is the gap of     *)
(* the later one; what follows the last core is dropped.                   *)
Whole(u) == <<[path |-> u.path, gap |-> <<>>, source |-> u.source, target |-> u.target]>>

\* Mutant: the first white space between two sentences is skipped.
GapShort(t, cores, k) ==
    SubSeq(t, (IF k = 1 THEN 0 ELSE cores[k - 1].to + 1) + 1, cores[k].from - 1)

Gap(t, cores, k) ==
    SubSeq(t, (IF k = 1 THEN 0 ELSE cores[k - 1].to) + 1, cores[k].from - 1)

Pieces(u, mode, rules) ==
    LET ranges == Ranges(u.source, mode, rules)
        cores  == [k \in DOMAIN ranges |-> Core(u.source, ranges[k])]
    IN  IF u.tagged \/ u.hasTarget \/ ranges = <<>> THEN Whole(u)
        ELSE [k \in DOMAIN cores |->
                [path |-> u.path, gap |-> Gap(u.source, cores, k),
                 source |-> Slice(u.source, cores[k]), target |-> <<>>]]

BuildSegments(units, mode, rules) ==
    FlattenSeq([k \in DOMAIN units |-> Pieces(units[k], mode, rules)])

(* Export: consecutive segments of one path make one text, and a path that *)
(* nobody translated is left out.                                          *)
Exported(row) == row.gap \o (IF Blank(row.target) THEN row.source ELSE row.target)

Groups(rows) ==
    LET starts == {i \in DOMAIN rows : i = 1 \/ rows[i].path # rows[i - 1].path}
        endOf(i) == Max({j \in i .. Len(rows) : \A k \in i .. j : rows[k].path = rows[i].path})
    IN  ByStart({[from |-> i, to |-> endOf(i)] : i \in starts})

MergeForExport(rows) ==
    LET translated(g) == \E i \in g.from .. g.to : ~Blank(rows[i].target)
        all == Groups(rows)
        groups == Kept(all, {n \in DOMAIN all : translated(all[n])})
    IN  [k \in DOMAIN groups |->
            [path |-> rows[groups[k].from].path,
             target |-> FlattenSeq([i \in 1 .. groups[k].to - groups[k].from + 1 |->
                                        Exported(rows[groups[k].from + i - 1])])]]
=============================================================================
