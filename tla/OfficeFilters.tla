---------------------------- MODULE OfficeFilters ----------------------------
(***************************************************************************)
(* The Office Open XML filters: DOCX, PPTX, XLSX and the bilingual tables. *)
(* A paragraph, a cell or a shared string is a sequence of nodes: text of  *)
(* a run with its format, and what Word keeps between the texts (tabs,     *)
(* breaks, deleted runs).  Replacing a text writes the first text node and *)
(* empties the others.                                                     *)
(***************************************************************************)
EXTENDS RangeFilters

Node(kind, fmt, text) == [kind |-> kind, fmt |-> fmt, text |-> text]

\* What each filter reads of a node: DOCX turns tabs and breaks into text.
DocxReads == {"text", "tab"}
PlainReads == {"text"}

TextOf(nodes, reads) ==
    FlattenSeq([i \in DOMAIN nodes |-> IF nodes[i].kind \in reads THEN nodes[i].text ELSE <<>>])

\* Mutant: texts inside tracked deletions count.
TextNodesDeleted(nodes) == {i \in DOMAIN nodes : nodes[i].kind \in {"text", "del"}}

TextNodes(nodes) == {i \in DOMAIN nodes : nodes[i].kind = "text"}

\* A unit carries format tags when its runs do not look alike.
Formatted(nodes) ==
    \E i, j \in TextNodes(nodes) :
        nodes[i].text # <<>> /\ nodes[j].text # <<>> /\ nodes[i].fmt # nodes[j].fmt

Rewritten(nodes, target) ==
    [i \in DOMAIN nodes |->
        IF i \notin TextNodes(nodes) THEN nodes[i]
        ELSE [nodes[i] EXCEPT !.text = IF i = Min(TextNodes(nodes)) THEN target ELSE <<>>]]

\* A bookmark before the first text, for the layout preview.
Anchored(nodes) ==
    IF TextNodes(nodes) = {} THEN nodes
    ELSE InsertAt(nodes, Min(TextNodes(nodes)), Node("anchor", "plain", <<>>))

\* The target export asks for at a path, if any.
Asked(merged, path) == {k \in DOMAIN merged : merged[k].path = path}
TargetAt(merged, path) == merged[CHOOSE k \in Asked(merged, path) : TRUE].target

\* A translation whose path is not in the package refuses the whole export.
AllApplied(merged, paths) == \A k \in DOMAIN merged : merged[k].path \in paths

(************************** DOCX and PPTX **********************************)
(* Parts hold paragraphs.  The first part stands for all that are always    *)
(* imported, one after the other: in a DOCX the body with its headers,      *)
(* footers, footnotes and endnotes, in a PPTX the slides.  Comments and     *)
(* speaker notes are imported on request only and exported always.          *)
PartPath(doc, n, i) == <<doc.kind, n, i>>
Reads(kind) == IF kind = "docx" THEN DocxReads ELSE PlainReads
Main == 1

PartUnits(doc, n) ==
    LET pars == doc.body[n]
        shown == InOrder({i \in DOMAIN pars : ~Blank(TextOf(pars[i], Reads(doc.kind)))
                                                    /\ TextNodes(pars[i]) # {}})
    IN  [k \in DOMAIN shown |->
            [Unit(PartPath(doc, n, shown[k]), TextOf(pars[shown[k]], Reads(doc.kind)))
                EXCEPT !.tagged = Formatted(pars[shown[k]])]]

DocumentUnits(doc) == PartUnits(doc, Main)

PartPaths(doc) ==
    UNION {{PartPath(doc, n, i) : i \in {j \in DOMAIN doc.body[n] : TextNodes(doc.body[n][j]) # {}}}
               : n \in DOMAIN doc.body}

DocumentWritten(doc, merged, anchors) ==
    LET written(n, i) ==
            IF Asked(merged, PartPath(doc, n, i)) = {} THEN doc.body[n][i]
            ELSE Rewritten(doc.body[n][i], TargetAt(merged, PartPath(doc, n, i)))
        marked(n, i) ==
            IF PartPath(doc, n, i) \in anchors THEN Anchored(written(n, i)) ELSE written(n, i)
    IN  IF ~AllApplied(merged, PartPaths(doc)) THEN NotWritten
        ELSE [doc EXCEPT !.body = [n \in DOMAIN doc.body |->
                [i \in DOMAIN doc.body[n] |-> marked(n, i)]]]

\* PPTX reads and writes its slides the same way, without anchors.
PptxUnits(doc) == DocumentUnits(doc)

PptxWritten(doc, merged) == DocumentWritten(doc, merged, {})

(******************************** XLSX *************************************)
(* A cell holds its own nodes, points into the table of shared strings or  *)
(* is a formula.  A translated shared cell gets a clone of its string.     *)
Cell(kind, index, nodes) == [kind |-> kind, index |-> index, nodes |-> nodes]

CellNodes(book, cell) == IF cell.kind = "shared" THEN book.shared[cell.index] ELSE cell.nodes

CellText(book, cell) ==
    IF cell.kind = "formula" THEN <<>> ELSE TextOf(CellNodes(book, cell), PlainReads)

XlsxUnits(book) ==
    LET shown == InOrder({i \in DOMAIN book.cells : ~Blank(CellText(book, book.cells[i]))})
    IN  [k \in DOMAIN shown |->
            [Unit(shown[k], CellText(book, book.cells[shown[k]]))
                EXCEPT !.tagged = Formatted(CellNodes(book, book.cells[shown[k]]))]]

\* Where the clone for the k-th shared cell that is translated goes.
SharedCells(book, merged) ==
    InOrder({i \in DOMAIN book.cells : Asked(merged, i) # {} /\ book.cells[i].kind = "shared"})

\* Mutant: every clone gets the first free index.
NewIndexFirst(book, k) == Len(book.shared) + 1

NewIndex(book, k) == Len(book.shared) + k

Clones(book, merged) ==
    LET asked == SharedCells(book, merged)
    IN  [k \in DOMAIN asked |->
            Rewritten(book.shared[book.cells[asked[k]].index], TargetAt(merged, asked[k]))]

XlsxWritten(book, merged) ==
    LET asked == SharedCells(book, merged)
        written(i) ==
            IF Asked(merged, i) = {} THEN book.cells[i]
            ELSE IF book.cells[i].kind = "inline"
                 THEN [book.cells[i] EXCEPT !.nodes = Rewritten(@, TargetAt(merged, i))]
            ELSE [book.cells[i] EXCEPT !.index =
                    NewIndex(book, CHOOSE k \in DOMAIN asked : asked[k] = i)]
    IN  [shared |-> book.shared \o Clones(book, merged),
         cells |-> [i \in DOMAIN book.cells |-> written(i)]]

Editable(book) == {i \in DOMAIN book.cells : book.cells[i].kind # "formula"}

XlsxExport(doc, merged) ==
    IF ~AllApplied(merged, Editable(doc.body)) THEN NotWritten
    ELSE [doc EXCEPT !.body = XlsxWritten(@, merged)]

(*************************** bilingual tables ******************************)
(* Rows of a source and a target, a header being left out; a row without   *)
(* one of the two refuses the document.                                    *)
Header(source, target) == source = <<"Source">> /\ target = <<"Target">>

TableUnits(rows) ==
    LET texts == [r \in DOMAIN rows |-> [source |-> rows[r][1], target |-> rows[r][2]]]
        shown == InOrder({r \in DOMAIN rows : ~(r = 1 /\ Header(texts[r].source, texts[r].target))})
    IN  IF \E r \in DOMAIN rows : Blank(texts[r].source) \/ Blank(texts[r].target) THEN <<>>
        ELSE [k \in DOMAIN shown |->
                [Unit(shown[k], texts[shown[k]].source)
                    EXCEPT !.hasTarget = TRUE, !.target = texts[shown[k]].target]]

DocxTableUnits(table) ==
    TableUnits([r \in DOMAIN table |-> <<TextOf(table[r][1], DocxReads), TextOf(table[r][2], DocxReads)>>])

DocxTableExport(doc, merged, anchors) ==
    LET written(r) ==
            IF Asked(merged, r) = {} THEN doc.body[r]
            ELSE [doc.body[r] EXCEPT ![2] = Rewritten(@, TargetAt(merged, r))]
    IN  IF ~AllApplied(merged, DOMAIN doc.body) THEN NotWritten
        ELSE [doc EXCEPT !.body = [r \in DOMAIN doc.body |->
                IF r \in anchors THEN [written(r) EXCEPT ![2] = Anchored(@)] ELSE written(r)]]

\* In a workbook the source is in column A and the target in column B.
SheetRows(book) ==
    [r \in 1 .. Len(book.cells) \div 2 |->
        <<CellText(book, book.cells[2 * r - 1]), CellText(book, book.cells[2 * r])>>]

XlsxTableUnits(book) == TableUnits(SheetRows(book))

XlsxTableExport(doc, merged) ==
    LET inColumnB == [k \in DOMAIN merged |-> [merged[k] EXCEPT !.path = 2 * @]]
    IN  XlsxExport(doc, inColumnB)
=============================================================================
