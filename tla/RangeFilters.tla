---------------------------- MODULE RangeFilters ----------------------------
(***************************************************************************)
(* The filters that own byte ranges of one text: plain text, Markdown and  *)
(* HTML.  Import lists the ranges a translator may change; export replaces *)
(* them and leaves every other byte alone.                                 *)
(***************************************************************************)
EXTENDS Segmenting

NotWritten == [kind |-> "refused", body |-> <<>>]

RangePath(category, r) == <<category, r.from, r.to>>

(***************************** plain text **********************************)
\* The byte order mark is skipped, and counts in the offsets.
Content(body) == IF body # <<>> /\ body[1] = "BOM" THEN [body EXCEPT ![1] = " "] ELSE body

TxtSpans(body) ==
    LET t == Content(body)
        ranges == ParagraphRanges(t)
    IN  [k \in DOMAIN ranges |-> Core(t, ranges[k])]

TxtUnits(body) ==
    LET spans == TxtSpans(body)
    IN  [k \in DOMAIN spans |-> Unit(RangePath("txt", spans[k]), Slice(body, spans[k]))]

(****************************** Markdown ***********************************)
Fences == {"ticks", "tildes"}
Digits == {"1", "2"}
Specials == {"\n", "*", "_", "~", "[", "]", "!"}

\* The first lexeme of a line that is not white, or the line's end.
Indented(t, l) == Min({i \in l.from .. l.to : t[i] \notin White} \cup {l.to + 1})

FenceOf(t, l) ==
    IF Indented(t, l) <= l.to /\ t[Indented(t, l)] \in Fences THEN t[Indented(t, l)] ELSE "none"

\* The lines of fenced blocks, fences included.
FencedLines(t) ==
    LET step(acc, l) ==
            LET f == FenceOf(t, l)
            IN  IF acc.open # "none"
                THEN [open |-> IF f = acc.open THEN "none" ELSE acc.open, lines |-> acc.lines \cup {l}]
                ELSE IF f # "none" THEN [open |-> f, lines |-> acc.lines \cup {l}] ELSE acc
    IN  FoldLeft(step, [open |-> "none", lines |-> {}], ByStart(Lines(t))).lines

(* The markers a line may begin with.  A line that begins with a digit and *)
(* holds a full stop and a blank is taken for a list item.                 *)
Dots(t, l, i) == {j \in i .. l.to - 1 : t[j] = "." /\ t[j + 1] = " "}

PrefixEnd(t, l) ==
    LET end[i \in l.from .. l.to + 1] ==
            IF i < l.to /\ t[i] \in {"#", ">", "-", "*", "+"} /\ t[i + 1] = " " THEN end[i + 2]
            ELSE IF i <= l.to /\ t[i] \in Digits /\ Dots(t, l, i) # {} THEN end[Min(Dots(t, l, i)) + 2]
            ELSE i
    IN  end[Indented(t, l)]

MarkupLine(t, l) ==
    LET i == Indented(t, l)
    IN  i <= l.to /\ t[i] = "<" /\ \E j \in i .. l.to : t[j] = ">"

LineSyntax(t) ==
    UNION {IF l \in FencedLines(t) \/ MarkupLine(t, l) THEN l.from .. l.to
           ELSE l.from .. PrefixEnd(t, l) - 1 : l \in Lines(t)}

\* Code spans, link destinations and emphasis, wherever they are.
InlineSyntax(t) ==
    LET mark[i \in 1 .. Len(t) + 1] ==
            IF i > Len(t) THEN {}
            ELSE IF t[i] \in {"tick", "ticks"} /\ \E j \in i + 1 .. Len(t) : t[j] = t[i]
                 THEN LET j == Min({k \in i + 1 .. Len(t) : t[k] = t[i]}) IN (i .. j) \cup mark[j + 1]
            ELSE IF t[i] = "]" /\ i < Len(t) /\ t[i + 1] = "("
                 THEN LET j == Min({k \in i + 1 .. Len(t) : t[k] = ")"} \cup {Len(t)}) IN (i .. j) \cup mark[j + 1]
            ELSE (IF t[i] \in Specials THEN {i} ELSE {}) \cup mark[i + 1]
    IN  mark[1]

Protected(t) == LineSyntax(t) \cup InlineSyntax(t)

(* Syntax next to a span becomes an inline tag of its unit.  The byte order *)
(* mark is none.  (Nor is syntax of more than 256 bytes, which is left out.) *)
ByteOrderMark(body) == {i \in {1} : body # <<>> /\ body[i] = "BOM"}

MarkdownUnits(body) ==
    LET t == Content(body)
        syntax == Protected(t) \ ByteOrderMark(body)
        runs == {r \in RunsOf(DOMAIN t \ Protected(t)) : ~Blank(Slice(t, r))}
        spans == ByStart({Core(t, r) : r \in runs})
    IN  [k \in DOMAIN spans |->
            [Unit(RangePath("md", spans[k]), Slice(body, spans[k]))
                EXCEPT !.tagged = spans[k].from - 1 \in syntax \/ spans[k].to + 1 \in syntax]]

(******************************** HTML *************************************)
StartTag == [b |-> "<b>", p |-> "<p>", code |-> "<code>", script |-> "<script>"]
EndTag == [b |-> "</b>", p |-> "</p>", code |-> "</code>", script |-> "</script>"]
InlineNames == {"b", "code"}
ExcludedNames == {"script", "code"}
Quotes == {"\"", "'"}
AttributeTag == "<img alt="
Loose == {"<br>", "<!-->"}
NameOf(tags, x) == CHOOSE n \in DOMAIN tags : tags[n] = x
Element(tags, x) == \E n \in DOMAIN tags : tags[n] = x

\* A tag with an attribute ends at the first bracket outside quotes.
QuoteAt(t, i, j) ==
    FoldLeft(LAMBDA q, x : IF q = "none" /\ x \in Quotes THEN x ELSE IF q = x THEN "none" ELSE q,
             "none", SubSeq(t, i + 1, j - 1))
TagEnds(t, i) == {j \in i + 1 .. Len(t) : t[j] = ">" /\ QuoteAt(t, i, j) = "none"}

ImageTags(t) == {i \in DOMAIN t : t[i] = AttributeTag}

WellFormed(t) == \A i \in ImageTags(t) : TagEnds(t, i) # {}

Markup(t) ==
    {i \in DOMAIN t : Element(StartTag, t[i]) \/ Element(EndTag, t[i]) \/ t[i] \in Loose}
        \cup UNION {i .. Min(TagEnds(t, i)) : i \in ImageTags(t)}

\* The elements open before a position; an end tag closes what is inside it.
OpenAt(t, i) ==
    LET closed(stack, n) ==
            IF \E k \in DOMAIN stack : stack[k] = n
            THEN SubSeq(stack, 1, Max({k \in DOMAIN stack : stack[k] = n}) - 1) ELSE stack
        step(stack, x) ==
            IF Element(StartTag, x) THEN Append(stack, NameOf(StartTag, x))
            ELSE IF Element(EndTag, x) THEN closed(stack, NameOf(EndTag, x)) ELSE stack
    IN  ToSet(FoldLeft(step, <<>>, SubSeq(t, 1, i - 1)))

TextUnits(t) ==
    LET runs == {r \in RunsOf(DOMAIN t \ Markup(t)) :
                    ~Blank(Slice(t, r)) /\ OpenAt(t, r.from) \cap ExcludedNames = {}}
        spans == ByStart({Core(t, r) : r \in runs})
        paired(n, i) == \E j \in i .. Len(t) : t[j] = EndTag[n]
    IN  [k \in DOMAIN spans |->
            [Unit(RangePath("text", spans[k]), Decoded(Slice(t, spans[k])))
                EXCEPT !.tagged = \E n \in OpenAt(t, spans[k].from) \cap InlineNames : paired(n, spans[k].to)]]

AttributeValue(t, i) ==
    IF t[i + 1] \in Quotes
    THEN [from |-> i + 2, to |-> Min({j \in i + 2 .. Len(t) : t[j] = t[i + 1]}) - 1]
    ELSE [from |-> i + 1, to |-> Min({j \in i + 1 .. Len(t) : t[j] \in White \cup {">"}}) - 1]

AttributeUnits(t) ==
    LET spans == ByStart({v \in {AttributeValue(t, i) : i \in ImageTags(t)} : ~Blank(Slice(t, v))})
    IN  [k \in DOMAIN spans |-> Unit(RangePath("attr", spans[k]), Decoded(Slice(t, spans[k])))]

HtmlUnits(t) == IF WellFormed(t) THEN TextUnits(t) \o AttributeUnits(t) ELSE <<>>

EscapedFor(category, t) ==
    IF category = "attr" THEN Escaped({"amp", "lt", "gt", "quot"}, t)
    ELSE IF category = "text" THEN Escaped({"amp", "lt", "gt"}, t) ELSE t

(****************************** export *************************************)
RangeExport(doc, merged) ==
    LET edits == {[from |-> merged[k].path[2], to |-> merged[k].path[3],
                   text |-> EscapedFor(merged[k].path[1], merged[k].target)] : k \in DOMAIN merged}
        output == Spliced(doc.body, edits)
    IN  IF Overlapping(edits) \/ (doc.kind = "html" /\ ~WellFormed(output)) THEN NotWritten
        ELSE [doc EXCEPT !.body = output]
=============================================================================
