----------------------------- MODULE XliffFilter -----------------------------
(***************************************************************************)
(* The XLIFF 1.2 and 2.1 filter.  A unit is a source and, in any of three  *)
(* forms, a target: absent, an empty element or an element with content.   *)
(* Content is a sequence of lexemes, inline tags among them; a translation *)
(* is laid over the text slots between the tags in proportion.             *)
(* CDATA sections and comments inside a unit are left out.                 *)
(***************************************************************************)
EXTENDS OfficeFilters

Tags == {"<g>", "</g>", "<x/>", "<mrk>", "</mrk>"}

\* Wrappers that are no tag of the translator's.
Wrappers == {"<mrk>", "</mrk>"}

InlineText(content) == Decoded(Kept(content, {i \in DOMAIN content : content[i] \notin Tags}))

\* The runs of text between two tags, each with where its text begins.
Slots(content) == ByStart(RunsOf({i \in DOMAIN content : content[i] \notin Tags}))

LengthOf(r) == r.to - r.from + 1

TextBefore(content, k) == FoldLeft(LAMBDA n, r : n + LengthOf(r), 0, SubSeq(Slots(content), 1, k - 1))

\* How much of a target of len lexemes has been written when slot k ends.
SlotEnd(content, k, len) ==
    LET total == TextBefore(content, Len(Slots(content)) + 1)
        end == TextBefore(content, k + 1)
    IN  IF total = 0 THEN len ELSE (end * len + (total \div 2)) \div total

Escapes == {"amp", "lt", "gt", "quot"}

Rendered(content, target) ==
    LET slots == Slots(content)
        upTo(k) == IF k = 0 THEN 0 ELSE SlotEnd(content, k, Len(target))
        share(k) == SubSeq(target, upTo(k - 1) + 1, upTo(k))
        at(i) == IF content[i] \in Tags THEN <<content[i]>>
                 ELSE IF \E k \in DOMAIN slots : slots[k].from = i
                      THEN Escaped(Escapes, share(CHOOSE k \in DOMAIN slots : slots[k].from = i))
                 ELSE <<>>
    IN  IF InlineText(content) = target THEN content
        ELSE FlattenSeq([i \in DOMAIN content |-> at(i)])
                 \o Escaped(Escapes, SubSeq(target, upTo(Len(slots)) + 1, Len(target)))

(* form is "none", "empty" (<target/>) or "pair"; what is written beside   *)
(* an empty element is outside every element the import reads.             *)
TransUnit(source, form, inner) ==
    [source |-> source, form |-> form, inner |-> inner, beside |-> <<>>]

XliffUnits(units) ==
    [k \in DOMAIN units |->
        [path |-> k, source |-> InlineText(units[k].source),
         hasTarget |-> units[k].form # "none", target |-> InlineText(units[k].inner),
         tagged |-> \E i \in DOMAIN units[k].source : units[k].source[i] \in Tags \ Wrappers]]

Template(u) == IF u.form = "none" THEN u.source ELSE u.inner

Delivered(u, target) ==
    IF u.form = "empty" THEN [u EXCEPT !.beside = Rendered(Template(u), target)]
    ELSE [u EXCEPT !.form = "pair", !.inner = Rendered(Template(u), target)]

XliffExport(doc, merged) ==
    IF ~AllApplied(merged, DOMAIN doc.body) THEN NotWritten
    ELSE [doc EXCEPT !.body = [k \in DOMAIN doc.body |->
            IF Asked(merged, k) = {} THEN doc.body[k]
            ELSE Delivered(doc.body[k], TargetAt(merged, k))]]
=============================================================================
