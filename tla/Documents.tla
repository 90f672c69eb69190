------------------------------ MODULE Documents ------------------------------
(***************************************************************************)
(* A document's way through the engine: document.import copies the file    *)
(* and cuts it into the rows of the grid, rows are translated one by one,  *)
(* and document.export writes the translations into a copy of the managed  *)
(* file, under another name first when it replaces a file.                 *)
(***************************************************************************)
EXTENDS XliffFilter

CONSTANTS Files,       \* files a user may import, [kind, body]
          Texts,       \* what a translator may type into a row
          Rules,       \* rule sets: sets of lexemes a sentence ends after
          MaxEdits,    \* edits between imports
          MaxExports   \* exports of a document

(* What a file of each format holds, once its bytes were parsed.           *)
Nodes == Seq([kind : STRING, fmt : STRING, text : Seq(STRING)])

IsCell(book, cell) ==
    /\ cell = Cell(cell.kind, cell.index, cell.nodes)
    /\ \/ cell.kind = "shared" /\ cell.index \in DOMAIN book.shared
       \/ cell.kind = "inline" /\ cell.nodes \in Nodes
       \/ cell.kind = "formula"

IsBook(book) ==
    /\ book.shared \in Seq(Nodes)
    /\ Len(book.cells) \in Nat /\ DOMAIN book.cells = 1 .. Len(book.cells)
    /\ \A i \in DOMAIN book.cells : IsCell(book, book.cells[i])

IsDocument(doc) ==
    /\ doc = [kind |-> doc.kind, body |-> doc.body]
    /\ \/ doc.kind \in {"txt", "md", "html"} /\ doc.body \in Seq(STRING)
       \/ doc.kind \in {"docx", "pptx"} /\ doc.body \in Seq(Seq(Nodes)) /\ doc.body # <<>>
       \/ doc.kind \in {"xlsx", "bilingual-xlsx"} /\ IsBook(doc.body)
       \/ /\ doc.kind = "bilingual-docx"
          /\ doc.body \in Seq(Seq(Nodes)) /\ \A r \in DOMAIN doc.body : Len(doc.body[r]) = 2
       \/ /\ doc.kind = "xliff"
          /\ doc.body \in Seq([source : Seq(STRING), form : {"none", "empty", "pair"},
                               inner : Seq(STRING), beside : Seq(STRING)])

ASSUME DocumentsAssumption ==
    /\ MaxEdits \in Nat /\ MaxExports \in Nat
    /\ Texts \subseteq Seq(STRING) /\ \A text \in Texts : text # <<>> => ~Blank(text)
    /\ \A file \in Files : IsDocument(file)

VARIABLES copy,      \* the managed copy, or Absent
          rows,      \* the rows of the grid
          output,    \* the file at the destination, or Absent
          staged,    \* the sibling file an overwriting export writes first
          answer,    \* of the last request
          sent,      \* the rows the last successful export saw
          edits, exports

vars == <<copy, rows, output, staged, answer, sent, edits, exports>>

Absent == [kind |-> "absent", body |-> <<>>]

(* The user's own file that may be at the destination beforehand.          *)
Foreign == [kind |-> "foreign", body |-> <<>>]

Units(doc) ==
    CASE doc.kind = "txt" -> TxtUnits(doc.body)
      [] doc.kind = "md" -> MarkdownUnits(doc.body)
      [] doc.kind = "html" -> HtmlUnits(doc.body)
      [] doc.kind = "docx" -> DocumentUnits(doc)
      [] doc.kind = "pptx" -> PptxUnits(doc)
      [] doc.kind = "xlsx" -> XlsxUnits(doc.body)
      [] doc.kind = "bilingual-docx" -> DocxTableUnits(doc.body)
      [] doc.kind = "bilingual-xlsx" -> XlsxTableUnits(doc.body)
      [] doc.kind = "xliff" -> XliffUnits(doc.body)

WrittenFile(doc, merged, anchors) ==
    CASE doc.kind \in {"txt", "md", "html"} -> RangeExport(doc, merged)
      [] doc.kind = "docx" -> DocumentWritten(doc, merged, anchors)
      [] doc.kind = "pptx" -> PptxWritten(doc, merged)
      [] doc.kind = "xlsx" -> XlsxExport(doc, merged)
      [] doc.kind = "bilingual-docx" -> DocxTableExport(doc, merged, anchors)
      [] doc.kind = "bilingual-xlsx" -> XlsxTableExport(doc, merged)
      [] doc.kind = "xliff" -> XliffExport(doc, merged)

DocumentsInit ==
    /\ copy = Absent
    /\ rows = <<>>
    /\ output \in {Absent, Foreign}
    /\ staged = Absent
    /\ answer = "none"
    /\ sent = <<>>
    /\ edits = 0
    /\ exports = 0

\* The filter must find something to translate, and no unit may be blank.
Importable(units) == units # <<>> /\ \A k \in DOMAIN units : ~Blank(units[k].source)

Import(file, mode, rules) ==
    /\ copy = Absent
    /\ Importable(Units(file))
    /\ copy' = file
    /\ rows' = BuildSegments(Units(file), mode, rules)
    /\ answer' = "imported"
    /\ UNCHANGED <<output, staged, sent, edits, exports>>

Edit(i, text) ==
    /\ edits < MaxEdits
    /\ rows' = [rows EXCEPT ![i].target = text]
    /\ answer' = "edited"
    /\ edits' = edits + 1
    /\ UNCHANGED <<copy, output, staged, sent, exports>>

(* A destination that exists is replaced only on request.                  *)
Exists == output # Absent

\* Mutant: a failing export has already removed the file it was to replace.
FailsRemoving(why) ==
    /\ answer' = why
    /\ output' = Absent
    /\ UNCHANGED <<copy, rows, staged, sent, edits>>

Fails(why) ==
    /\ answer' = why
    /\ UNCHANGED <<copy, rows, output, staged, sent, edits>>

Paths == {rows[i].path : i \in DOMAIN rows}

Result(anchors) == WrittenFile(copy, MergeForExport(rows), IF anchors THEN Paths ELSE {})

\* The write or the publication may fail; a staged file is then removed.
Publish(result) ==
    \/ Fails("failed")
    \/ /\ ~Exists
       /\ output' = result
       /\ sent' = rows
       /\ answer' = "exported"
       /\ UNCHANGED <<copy, rows, staged, edits>>
    \/ /\ Exists
       /\ staged' = result
       /\ answer' = "staged"
       /\ UNCHANGED <<copy, rows, output, sent, edits>>

Export(overwrite, anchors) ==
    /\ copy # Absent /\ staged = Absent
    /\ exports < MaxExports
    /\ exports' = exports + 1
    /\ IF Exists /\ ~overwrite THEN Fails("exists")
       ELSE IF Result(anchors) = NotWritten THEN Fails("refused")
       ELSE Publish(Result(anchors))

\* The second half of an overwriting export; the engine does nothing between.
Rename ==
    /\ staged # Absent
    /\ staged' = Absent
    /\ \/ output' = staged /\ sent' = rows /\ answer' = "exported"
       \/ answer' = "failed" /\ UNCHANGED <<output, sent>>
    /\ UNCHANGED <<copy, rows, edits, exports>>

DocumentsNext ==
    \/ \E file \in Files, mode \in {"paragraph", "sentence"}, rules \in Rules : Import(file, mode, rules)
    \/ staged = Absent /\ \E i \in DOMAIN rows, text \in Texts : Edit(i, text)
    \/ \E overwrite, anchors \in BOOLEAN : Export(overwrite, anchors)
    \/ Rename

DocumentsSpec == DocumentsInit /\ [][DocumentsNext]_vars
-----------------------------------------------------------------------------
(* What a reader of a file finds beside the texts of its units.            *)
Bare(nodes) ==
    LET lasting == Kept(nodes, {i \in DOMAIN nodes : nodes[i].kind # "anchor"})
    IN  [i \in DOMAIN lasting |->
            IF lasting[i].kind = "text" THEN [lasting[i] EXCEPT !.text = <<>>] ELSE lasting[i]]

OutsideRanges(doc) ==
    LET units == Units(doc)
        owned == UNION {units[k].path[2] .. units[k].path[3] : k \in DOMAIN units}
    IN  Kept(doc.body, DOMAIN doc.body \ owned)

Bones(doc) ==
    CASE doc.kind \in {"txt", "md", "html"} -> OutsideRanges(doc)
      [] doc.kind \in {"docx", "pptx"} ->
            [n \in DOMAIN doc.body |-> [i \in DOMAIN doc.body[n] |-> Bare(doc.body[n][i])]]
      [] doc.kind \in {"xlsx", "bilingual-xlsx"} ->
            [i \in DOMAIN doc.body.cells |->
                IF doc.body.cells[i].kind = "formula" THEN doc.body.cells[i].nodes
                ELSE Bare(CellNodes(doc.body, doc.body.cells[i]))]
      [] doc.kind = "bilingual-docx" ->
            [r \in DOMAIN doc.body |-> <<doc.body[r][1], Bare(doc.body[r][2])>>]
      [] doc.kind = "xliff" -> [k \in DOMAIN doc.body |-> doc.body[k].source]

Delivery(doc, k) == IF Units(doc)[k].hasTarget THEN Units(doc)[k].target ELSE Units(doc)[k].source

\* The rows of a grid that were cut from one unit.
RowsAt(grid, path) == Kept(grid, {i \in DOMAIN grid : grid[i].path = path})

(* What must be read back of unit k: its rows put together, or the unit as *)
(* it was when nobody translated a row of it.                              *)
RowsOf(k) == RowsAt(sent, Units(copy)[k].path)

Translation(k) == FlattenSeq([i \in DOMAIN RowsOf(k) |-> Exported(RowsOf(k)[i])])

Promised(k) ==
    IF \A i \in DOMAIN RowsOf(k) : Blank(RowsOf(k)[i].target) THEN Delivery(copy, k) ELSE Translation(k)

WasExported == sent # <<>> /\ output \notin {Absent, Foreign}

(* The exported file, imported again, has every unit of the document with  *)
(* the translation the grid showed; units nobody touched read as before.   *)
TranslationsLand ==
    WasExported =>
        /\ Len(Units(output)) = Len(Units(copy))
        /\ \A k \in DOMAIN Units(copy) : Delivery(output, k) = Promised(k)

(* Whatever is not the text of a unit is the same in the exported file:    *)
(* markup, formats, formulas, cells, sources.                              *)
NothingElseChanges == WasExported => Bones(output) = Bones(copy)

(* The rows of a unit, with the gaps between them, are the unit: no text   *)
(* is lost, doubled or moved by the segmentation, wherever it breaks.      *)
RowsCoverUnits ==
    copy # Absent =>
        \A k \in DOMAIN Units(copy) :
            LET own == RowsAt(rows, Units(copy)[k].path)
            IN  Trim(FlattenSeq([i \in DOMAIN own |-> own[i].gap \o own[i].source])) = Trim(Units(copy)[k].source)

(* A file at the destination changes only by an export that reports        *)
(* success, and one that was there only by a complete staged file taking   *)
(* its place; an export that fails leaves nothing staged.                  *)
OutputOnlyOnSuccess ==
    [][/\ output' # output => answer' = "exported"
       /\ output' # output /\ Exists => output' = staged
       /\ answer' \in {"failed", "exists", "refused"} => staged' = Absent]_vars

(* XLIFF: "Export therefore changes only target inner ranges (or inserts a *)
(* missing target)" - nothing is written beside a target element.          *)
OnlyTargetsChange ==
    output.kind = "xliff" => \A k \in DOMAIN output.body : output.body[k].beside = <<>>
=============================================================================
