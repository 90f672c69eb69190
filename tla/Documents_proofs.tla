-------------------------- MODULE Documents_proofs --------------------------
(***************************************************************************)
(* Proofs about Documents: each of the nine filters finds units in every   *)
(* file that no two rows of the grid can confuse, so the rows of a unit    *)
(* are always its text; an export that fails leaves the destination alone; *)
(* an export that succeeds, of every structured format, moves nothing but  *)
(* the texts of the units; and of these and of plain text it is read back  *)
(* as the translation the grid showed.                                     *)
(***************************************************************************)
EXTENDS Documents, Filters_proofs

-----------------------------------------------------------------------------
(* The rows of a unit *)

LEMMA OwnRowsAreThePieces ==
  ASSUME NEW Row, NEW seqs \in Seq(Seq(Row)), NEW path, ApartBy(path, seqs),
         NEW grid, SameRows(grid, FlattenSeq(seqs)), DOMAIN grid = 1..Len(grid),
         NEW k \in 1..Len(seqs)
  PROVE  ArePieces(RowsAt(grid, path[k]), seqs[k])
<1> DEFINE flat == FlattenSeq(seqs)
           m == Len(seqs[k])
           own == RowsAt(grid, path[k])
           I == {i \in DOMAIN grid : grid[i].path = path[k]}
<1>1. PICK a : Placed(grid, flat, path[k], seqs[k], a)
  BY RowsArePlaced
<1>2. m \in Nat
  <2>1. seqs[k] \in Seq(Row)
    OBVIOUS
  <2> QED BY <2>1
<1>3. /\ a \in Nat /\ I = a + 1..a + m
      /\ \A j \in 1..m : a + j \in DOMAIN grid /\ flat[a + j] = seqs[k][j]
  BY <1>1 DEF Placed
<1>4. \A i \in DOMAIN grid : /\ grid[i].path = flat[i].path
                              /\ grid[i].gap = flat[i].gap /\ grid[i].source = flat[i].source
  BY DEF SameRows
<1>5. own = [j \in DOMAIN InOrder(I) |-> grid[InOrder(I)[j]]]
  BY DEF RowsAt, Kept
<1> HIDE DEF I, own, m, flat
<1>6. InOrder(I) = [j \in 1..m |-> a + j]
  BY <1>2, <1>3, InOrderInterval
<1>7. DOMAIN own = 1..m /\ \A j \in 1..m : own[j] = grid[a + j]
  BY <1>5, <1>6
<1>8. \A j \in 1..m : own[j].gap = seqs[k][j].gap /\ own[j].source = seqs[k][j].source
  BY <1>3, <1>4, <1>7
<1> QED BY <1>7, <1>8 DEF ArePieces, own, m

(***************************************************************************)
(* However a document is cut, the rows of each unit are the unit.          *)
(***************************************************************************)
UnitIsCovered(grid, u) ==
  LET own == RowsAt(grid, u.path)
  IN  Joins([i \in DOMAIN own |-> own[i].gap \o own[i].source], u.source)

LEMMA BuiltRowsCover ==
  ASSUME NEW L, NEW units, AreUnits(units, L), NEW mode, NEW rules,
         NEW grid, SameRows(grid, BuildSegments(units, mode, rules)), DOMAIN grid = 1..Len(grid),
         NEW k \in DOMAIN units
  PROVE  UnitIsCovered(grid, units[k])
<1> DEFINE N == Len(units)
           seqs == SegmentsOf(units, mode, rules)
           path == PathsOf(units)
           own == RowsAt(grid, path[k])
           m == Len(seqs[k])
<1>1. N \in Nat /\ DOMAIN units = 1..N /\ k \in 1..N
  BY DEF AreUnits
<1>2. PICK Row : seqs \in Seq(Seq(Row))
  BY SegmentsAre
<1>3. /\ Len(seqs) = N /\ (\A i \in DOMAIN units : Piecewise(units[i], L, seqs[i])) /\ ApartBy(path, seqs)
      /\ BuildSegments(units, mode, rules) = FlattenSeq(seqs)
  BY SegmentsAre
<1>4. path[k] = units[k].path
  BY DEF PathsOf
<1> HIDE DEF N, seqs, path
<1>5. SameRows(grid, FlattenSeq(seqs))
  BY <1>3
<1>10. DOMAIN own = 1..m /\ \A j \in 1..m : own[j].gap = seqs[k][j].gap /\ own[j].source = seqs[k][j].source
  <2>1. k \in 1..Len(seqs)
    BY <1>1, <1>3
  <2>2. ArePieces(own, seqs[k])
    BY <1>2, <1>3, <1>5, <2>1, OwnRowsAreThePieces
  <2> QED BY <2>2 DEF ArePieces
<1>11. Joins([i \in 1..m |-> seqs[k][i].gap \o seqs[k][i].source], units[k].source)
  BY <1>3 DEF Piecewise
<1>12. own = RowsAt(grid, units[k].path)
  BY <1>4
<1> HIDE DEF own, m
<1>13. [i \in DOMAIN own |-> own[i].gap \o own[i].source] = [i \in 1..m |-> seqs[k][i].gap \o seqs[k][i].source]
  <2>1. \A i \in 1..m : own[i].gap \o own[i].source = seqs[k][i].gap \o seqs[k][i].source
    BY <1>10
  <2>2. [i \in 1..m |-> own[i].gap \o own[i].source] = [i \in 1..m |-> seqs[k][i].gap \o seqs[k][i].source]
    BY <2>1
  <2> QED BY <1>10, <2>2
<1>14. Joins([i \in DOMAIN own |-> own[i].gap \o own[i].source], units[k].source)
  BY <1>11, <1>13
<1> QED BY <1>12, <1>14 DEF UnitIsCovered

(***************************************************************************)
(* The units of the other formats are the paragraphs, cells or rows a      *)
(* filter shows, in their order: place tells the path of each.             *)
(***************************************************************************)
ShownUnits(units, I, place) ==
  /\ DOMAIN units = DOMAIN InOrder(I) /\ units = [k \in DOMAIN units |-> units[k]]
  /\ \A k \in DOMAIN units : /\ units[k].path = place[InOrder(I)[k]]
                              /\ units[k].source \in Seq(Lexemes) /\ units[k].target \in Seq(Lexemes)

LEMMA ShownAreUnits ==
  ASSUME NEW n \in Nat, NEW I \in SUBSET (1..n), NEW units, NEW place, ShownUnits(units, I, place),
         \A i, j \in 1..n : place[i] = place[j] => i = j
  PROVE  AreUnits(units, Lexemes)
<1> DEFINE N == Cardinality(I)
           shown == InOrder(I)
<1>1. I \in SUBSET (0..n)
  <2>1. \A i \in 1..n : i \in 0..n
    OBVIOUS
  <2> QED BY <2>1
<1>2. /\ shown \in [1..N -> I] /\ N \in Nat
      /\ \A j, k \in 1..N : j < k => shown[j] < shown[k]
  BY <1>1, InOrderSorts
<1> HIDE DEF N
<1>3. /\ DOMAIN units = 1..N /\ units = [k \in 1..N |-> units[k]]
      /\ \A k \in 1..N : /\ units[k].path = place[shown[k]]
                         /\ units[k].source \in Seq(Lexemes) /\ units[k].target \in Seq(Lexemes)
  BY <1>2 DEF ShownUnits
<1> HIDE DEF shown
<1>4. Len(units) = N
  <2> DEFINE S == {units[k] : k \in 1..N}
  <2>1. units \in [1..N -> S]
    BY <1>3
  <2> HIDE DEF S
  <2> QED BY <1>2, <1>3, <2>1
<1>5. ASSUME NEW j \in 1..N, NEW k \in 1..N, units[j].path = units[k].path PROVE j = k
  <2>1. shown[j] \in 1..n /\ shown[k] \in 1..n
    BY <1>2
  <2>2. shown[j] = shown[k]
    BY <1>3, <1>5, <2>1
  <2>3. PICK x : x = shown[j]
    OBVIOUS
  <2>4. x \in Nat
    BY <2>1, <2>3
  <2>5. ~(j < k) /\ ~(k < j)
    BY <1>2, <2>2, <2>3, <2>4
  <2> QED BY <1>2, <2>5
<1> QED BY <1>2, <1>3, <1>4, <1>5 DEF AreUnits

-----------------------------------------------------------------------------
(* The units of every file *)

(***************************************************************************)
(* Word, PowerPoint and Excel documents.                                   *)
(***************************************************************************)
LEMMA TextOfType ==
  ASSUME NEW nodes \in Nodes, NEW reads
  PROVE  TextOf(nodes, reads) \in Seq(Lexemes)
<1> DEFINE R == [kind : STRING, fmt : STRING, text : Seq(STRING)]
           seqs == [i \in DOMAIN nodes |-> IF nodes[i].kind \in reads THEN nodes[i].text ELSE <<>>]
<1>1. \A x \in R : x.text \in Seq(STRING)
  OBVIOUS
<1>2. <<>> \in Seq(STRING)
  OBVIOUS
<1>3. nodes \in Seq(R)
  BY DEF Nodes
<1> HIDE DEF R
<1>4. Len(nodes) \in Nat /\ DOMAIN nodes = 1..Len(nodes) /\ \A i \in 1..Len(nodes) : nodes[i] \in R
  BY <1>3
<1>5. seqs \in [1..Len(nodes) -> Seq(STRING)]
  BY <1>1, <1>2, <1>4
<1>6. TextOf(nodes, reads) = FlattenSeq(seqs)
  BY DEF TextOf
<1> HIDE DEF seqs
<1>7. seqs \in Seq(Seq(STRING))
  BY <1>4, <1>5
<1>8. FlattenSeq(seqs) \in Seq(STRING)
  BY <1>7, FlattenHasBlocks DEF FlattensInto
<1> QED BY <1>6, <1>8, AsLexemes

LEMMA PartUnitsAre ==
  ASSUME NEW doc, doc.body \in Seq(Seq(Nodes)), doc.body # <<>>
  PROVE  AreUnits(DocumentUnits(doc), Lexemes)
<1> DEFINE pars == doc.body[Main]
           I == {i \in DOMAIN pars : ~Blank(TextOf(pars[i], Reads(doc.kind))) /\ TextNodes(pars[i]) # {}}
           shown == InOrder(I)
           n == Len(pars)
           place == [i \in 1..n |-> PartPath(doc, Main, i)]
           units == DocumentUnits(doc)
<1>1. pars \in Seq(Nodes)
  <2>1. 1 \in 1..Len(doc.body)
    OBVIOUS
  <2> QED BY <2>1 DEF Main
<1>2. units = [k \in DOMAIN shown |->
                 [Unit(PartPath(doc, Main, shown[k]), TextOf(pars[shown[k]], Reads(doc.kind)))
                    EXCEPT !.tagged = Formatted(pars[shown[k]])]]
  BY DEF DocumentUnits, PartUnits
<1> HIDE DEF pars
<1>3. n \in Nat /\ DOMAIN pars = 1..n /\ \A i \in 1..n : pars[i] \in Nodes
  BY <1>1
<1>4. I \in SUBSET (1..n)
  BY <1>3
<1>5. \A k \in DOMAIN shown : shown[k] \in 1..n
  <2>1. I \in SUBSET (0..n)
    <3>1. \A i \in 1..n : i \in 0..n
      BY <1>3
    <3> QED BY <1>4, <3>1
  <2>2. shown \in [1..Cardinality(I) -> I]
    BY <1>3, <2>1, InOrderSorts
  <2> HIDE DEF shown
  <2> QED BY <1>4, <2>2
<1> HIDE DEF I, n, units
<1>6. <<>> \in Seq(Lexemes)
  OBVIOUS
<1>7. ASSUME NEW k \in DOMAIN shown
      PROVE  /\ units[k].path = place[shown[k]]
             /\ units[k].source \in Seq(Lexemes) /\ units[k].target \in Seq(Lexemes)
  <2>1. shown[k] \in 1..n /\ pars[shown[k]] \in Nodes
    BY <1>3, <1>5
  <2>2. TextOf(pars[shown[k]], Reads(doc.kind)) \in Seq(Lexemes)
    BY <2>1, TextOfType
  <2> HIDE DEF shown
  <2>3. /\ units[k].path = PartPath(doc, Main, shown[k]) /\ units[k].target = <<>>
        /\ units[k].source = TextOf(pars[shown[k]], Reads(doc.kind))
    BY <1>2 DEF Unit
  <2> QED BY <1>6, <2>1, <2>2, <2>3
<1>8. ShownUnits(units, I, place)
  BY <1>2, <1>7 DEF ShownUnits
<1>9. \A i, j \in 1..n : place[i] = place[j] => i = j
  BY DEF PartPath
<1>10. AreUnits(units, Lexemes)
  BY <1>3, <1>4, <1>8, <1>9, ShownAreUnits
<1> QED BY <1>10 DEF units

LEMMA CellTextType ==
  ASSUME NEW book, IsBook(book), NEW i \in DOMAIN book.cells
  PROVE  CellText(book, book.cells[i]) \in Seq(Lexemes)
<1> DEFINE cell == book.cells[i]
<1>1. IsCell(book, cell) /\ book.shared \in Seq(Nodes)
  BY DEF IsBook
<1> HIDE DEF cell
<1>2. CASE cell.kind = "formula"
  <2>1. CellText(book, cell) = <<>>
    BY <1>2 DEF CellText
  <2>2. <<>> \in Seq(Lexemes)
    OBVIOUS
  <2> QED BY <2>1, <2>2 DEF cell
<1>3. CASE cell.kind # "formula"
  <2>1. CellNodes(book, cell) \in Nodes
    BY <1>1, <1>3 DEF IsCell, CellNodes
  <2>2. CellText(book, cell) = TextOf(CellNodes(book, cell), PlainReads)
    BY <1>3 DEF CellText
  <2>3. TextOf(CellNodes(book, cell), PlainReads) \in Seq(Lexemes)
    BY <2>1, TextOfType
  <2> QED BY <2>2, <2>3 DEF cell
<1> QED BY <1>2, <1>3

LEMMA XlsxUnitsAre ==
  ASSUME NEW book, IsBook(book)
  PROVE  AreUnits(XlsxUnits(book), Lexemes)
<1> DEFINE n == Len(book.cells)
           I == {i \in DOMAIN book.cells : ~Blank(CellText(book, book.cells[i]))}
           shown == InOrder(I)
           place == [i \in 1..n |-> i]
           units == XlsxUnits(book)
<1>1. n \in Nat /\ DOMAIN book.cells = 1..n
  BY DEF IsBook
<1>2. units = [k \in DOMAIN shown |->
                 [Unit(shown[k], CellText(book, book.cells[shown[k]]))
                    EXCEPT !.tagged = Formatted(CellNodes(book, book.cells[shown[k]]))]]
  BY DEF XlsxUnits
<1>3. I \in SUBSET (1..n)
  BY <1>1
<1>4. \A k \in DOMAIN shown : shown[k] \in 1..n
  <2>1. I \in SUBSET (0..n)
    <3>1. \A i \in 1..n : i \in 0..n
      BY <1>1
    <3> QED BY <1>3, <3>1
  <2>2. shown \in [1..Cardinality(I) -> I]
    BY <1>1, <2>1, InOrderSorts
  <2> HIDE DEF shown
  <2> QED BY <1>3, <2>2
<1> HIDE DEF I, n, units
<1>5. <<>> \in Seq(Lexemes)
  OBVIOUS
<1>6. ASSUME NEW k \in DOMAIN shown
      PROVE  /\ units[k].path = place[shown[k]]
             /\ units[k].source \in Seq(Lexemes) /\ units[k].target \in Seq(Lexemes)
  <2>1. shown[k] \in 1..n /\ shown[k] \in DOMAIN book.cells
    BY <1>1, <1>4
  <2>2. CellText(book, book.cells[shown[k]]) \in Seq(Lexemes)
    BY <2>1, CellTextType
  <2> HIDE DEF shown
  <2>3. /\ units[k].path = shown[k] /\ units[k].target = <<>>
        /\ units[k].source = CellText(book, book.cells[shown[k]])
    BY <1>2 DEF Unit
  <2> QED BY <1>5, <2>1, <2>2, <2>3
<1>7. ShownUnits(units, I, place)
  BY <1>2, <1>6 DEF ShownUnits
<1>8. \A i, j \in 1..n : place[i] = place[j] => i = j
  OBVIOUS
<1>9. AreUnits(units, Lexemes)
  BY <1>1, <1>3, <1>7, <1>8, ShownAreUnits
<1> QED BY <1>9 DEF units

(***************************************************************************)
(* Bilingual tables.                                                       *)
(***************************************************************************)
AreRows(table) ==
  /\ Len(table) \in Nat /\ DOMAIN table = 1..Len(table)
  /\ \A r \in 1..Len(table) : table[r][1] \in Seq(Lexemes) /\ table[r][2] \in Seq(Lexemes)

LEMMA TableUnitsAre ==
  ASSUME NEW table, AreRows(table)
  PROVE  AreUnits(TableUnits(table), Lexemes)
<1> DEFINE n == Len(table)
           texts == [r \in DOMAIN table |-> [source |-> table[r][1], target |-> table[r][2]]]
           I == {r \in DOMAIN table : ~(r = 1 /\ Header(texts[r].source, texts[r].target))}
           shown == InOrder(I)
           place == [i \in 1..n |-> i]
           units == TableUnits(table)
           blank == \E r \in DOMAIN table : Blank(texts[r].source) \/ Blank(texts[r].target)
           all == [k \in DOMAIN shown |->
                     [Unit(shown[k], texts[shown[k]].source)
                        EXCEPT !.hasTarget = TRUE, !.target = texts[shown[k]].target]]
<1>1. n \in Nat /\ DOMAIN table = 1..n
  BY DEF AreRows
<1>2. units = IF blank THEN <<>> ELSE all
  BY DEF TableUnits
<1>3. \A r \in 1..n : texts[r].source \in Seq(Lexemes) /\ texts[r].target \in Seq(Lexemes)
  BY <1>1 DEF AreRows
<1>4. I \in SUBSET (1..n)
  BY <1>1
<1>5. \A k \in DOMAIN shown : shown[k] \in 1..n
  <2>1. I \in SUBSET (0..n)
    <3>1. \A i \in 1..n : i \in 0..n
      BY <1>1
    <3> QED BY <1>4, <3>1
  <2>2. shown \in [1..Cardinality(I) -> I]
    BY <1>1, <2>1, InOrderSorts
  <2> HIDE DEF shown
  <2> QED BY <1>4, <2>2
<1> HIDE DEF I, n, units, blank, texts
<1>6. CASE blank
  <2>1. units = <<>> /\ Len(<<>>) = 0 /\ DOMAIN <<>> = 1..0
    BY <1>2, <1>6
  <2> QED BY <2>1 DEF AreUnits, units
<1>7. CASE ~blank
  <2>1. units = all
    BY <1>2, <1>7
  <2> HIDE DEF shown
  <2>2. ASSUME NEW k \in DOMAIN shown
        PROVE  /\ units[k].path = place[shown[k]]
               /\ units[k].source \in Seq(Lexemes) /\ units[k].target \in Seq(Lexemes)
    <3>1. shown[k] \in 1..n
      BY <1>5
    <3>2. /\ units[k].path = shown[k] /\ units[k].target = texts[shown[k]].target
          /\ units[k].source = texts[shown[k]].source
      BY <2>1 DEF Unit
    <3> QED BY <1>3, <3>1, <3>2
  <2>3. ShownUnits(units, I, place)
    BY <2>1, <2>2 DEF ShownUnits, shown
  <2>4. \A i, j \in 1..n : place[i] = place[j] => i = j
    OBVIOUS
  <2>5. AreUnits(units, Lexemes)
    BY <1>1, <1>4, <2>3, <2>4, ShownAreUnits
  <2> QED BY <2>5 DEF units
<1> QED BY <1>6, <1>7

LEMMA DocxTableUnitsAre ==
  ASSUME NEW table \in Seq(Seq(Nodes)), \A r \in DOMAIN table : Len(table[r]) = 2
  PROVE  AreUnits(DocxTableUnits(table), Lexemes)
<1> DEFINE texts == [r \in DOMAIN table |-> <<TextOf(table[r][1], DocxReads), TextOf(table[r][2], DocxReads)>>]
           n == Len(table)
<1>1. n \in Nat /\ DOMAIN table = 1..n /\ \A r \in 1..n : table[r] \in Seq(Nodes) /\ Len(table[r]) = 2
  OBVIOUS
<1> HIDE DEF n
<1>2. ASSUME NEW r \in 1..n
      PROVE  texts[r][1] \in Seq(Lexemes) /\ texts[r][2] \in Seq(Lexemes)
  <2>1. table[r][1] \in Nodes /\ table[r][2] \in Nodes
    BY <1>1
  <2>2. TextOf(table[r][1], DocxReads) \in Seq(Lexemes)
    BY <2>1, TextOfType
  <2>3. TextOf(table[r][2], DocxReads) \in Seq(Lexemes)
    BY <2>1, TextOfType
  <2>4. texts[r] = <<TextOf(table[r][1], DocxReads), TextOf(table[r][2], DocxReads)>>
    BY <1>1
  <2> QED BY <2>2, <2>3, <2>4
<1>3. Len(texts) = n /\ DOMAIN texts = 1..n
  <2> DEFINE S == {<<TextOf(table[r][1], DocxReads), TextOf(table[r][2], DocxReads)>> : r \in 1..n}
  <2>1. texts \in [1..n -> S]
    BY <1>1
  <2> HIDE DEF S, texts
  <2> QED BY <1>1, <2>1
<1>4. DocxTableUnits(table) = TableUnits(texts)
  BY DEF DocxTableUnits
<1> HIDE DEF texts
<1>5. AreRows(texts)
  BY <1>1, <1>2, <1>3 DEF AreRows
<1> QED BY <1>4, <1>5, TableUnitsAre

LEMMA XlsxTableUnitsAre ==
  ASSUME NEW book, IsBook(book)
  PROVE  AreUnits(XlsxTableUnits(book), Lexemes)
<1> DEFINE texts == SheetRows(book)
           m == Len(book.cells)
           n == m \div 2
<1>1. m \in Nat /\ DOMAIN book.cells = 1..m
  BY DEF IsBook
<1>2. texts = [r \in 1..n |-> <<CellText(book, book.cells[2 * r - 1]), CellText(book, book.cells[2 * r])>>]
  BY DEF SheetRows
<1> HIDE DEF m, texts
<1>3. n \in Nat /\ \A r \in 1..n : 2 * r \in 1..m /\ 2 * r - 1 \in 1..m
  BY <1>1
<1> HIDE DEF n
<1>4. ASSUME NEW r \in 1..n
      PROVE  texts[r][1] \in Seq(Lexemes) /\ texts[r][2] \in Seq(Lexemes)
  <2>1. CellText(book, book.cells[2 * r - 1]) \in Seq(Lexemes)
    BY <1>1, <1>3, CellTextType
  <2>2. CellText(book, book.cells[2 * r]) \in Seq(Lexemes)
    BY <1>1, <1>3, CellTextType
  <2>3. texts[r] = <<CellText(book, book.cells[2 * r - 1]), CellText(book, book.cells[2 * r])>>
    BY <1>2
  <2> QED BY <2>1, <2>2, <2>3
<1>5. Len(texts) = n /\ DOMAIN texts = 1..n
  <2> DEFINE S == {<<CellText(book, book.cells[2 * r - 1]), CellText(book, book.cells[2 * r])>> : r \in 1..n}
  <2>1. texts \in [1..n -> S]
    BY <1>2
  <2> HIDE DEF S
  <2> QED BY <1>2, <1>3, <2>1
<1>6. AreRows(texts)
  BY <1>3, <1>4, <1>5 DEF AreRows
<1>7. AreUnits(TableUnits(texts), Lexemes)
  BY <1>6, TableUnitsAre
<1> QED BY <1>7 DEF XlsxTableUnits, texts

(***************************************************************************)
(* XLIFF: the texts between the tags.                                      *)
(***************************************************************************)
LEMMA InlineTextType ==
  ASSUME NEW content \in Seq(STRING)
  PROVE  InlineText(content) \in Seq(Lexemes)
<1> DEFINE I == {i \in DOMAIN content : content[i] \notin Tags}
<1>1. content \in Seq(Lexemes)
  BY AsLexemes
<1>2. I \in SUBSET (DOMAIN content)
  OBVIOUS
<1>3. InlineText(content) = Decoded(Kept(content, I))
  BY DEF InlineText
<1> HIDE DEF I
<1>4. Kept(content, I) \in Seq(Lexemes)
  BY <1>1, <1>2, KeptType
<1> QED BY <1>3, <1>4, DecodedType

LEMMA XliffUnitsAre ==
  ASSUME NEW body \in Seq([source : Seq(STRING), form : {"none", "empty", "pair"},
                           inner : Seq(STRING), beside : Seq(STRING)])
  PROVE  AreUnits(XliffUnits(body), Lexemes)
<1> DEFINE R == [source : Seq(STRING), form : {"none", "empty", "pair"},
                 inner : Seq(STRING), beside : Seq(STRING)]
           n == Len(body)
           units == XliffUnits(body)
           tagged(k) == \E i \in DOMAIN body[k].source : body[k].source[i] \in Tags \ Wrappers
<1>1. \A x \in R : x.source \in Seq(STRING) /\ x.inner \in Seq(STRING)
  OBVIOUS
<1>2. units = [k \in DOMAIN body |->
                 [path |-> k, source |-> InlineText(body[k].source), hasTarget |-> body[k].form # "none",
                  target |-> InlineText(body[k].inner), tagged |-> tagged(k)]]
  BY DEF XliffUnits
<1>0. body \in Seq(R)
  OBVIOUS
<1> HIDE DEF R, tagged, units
<1>3. n \in Nat /\ DOMAIN body = 1..n /\ \A k \in 1..n : body[k] \in R
  BY <1>0
<1> HIDE DEF n
<1>4. ASSUME NEW k \in 1..n
      PROVE  units[k].path = k /\ units[k].source \in Seq(Lexemes) /\ units[k].target \in Seq(Lexemes)
  <2>1. body[k].source \in Seq(STRING) /\ body[k].inner \in Seq(STRING)
    BY <1>1, <1>3
  <2>2. InlineText(body[k].source) \in Seq(Lexemes)
    BY <2>1, InlineTextType
  <2>3. InlineText(body[k].inner) \in Seq(Lexemes)
    BY <2>1, InlineTextType
  <2>4. /\ units[k].path = k /\ units[k].source = InlineText(body[k].source)
        /\ units[k].target = InlineText(body[k].inner)
    BY <1>2, <1>3
  <2> QED BY <2>2, <2>3, <2>4
<1>5. DOMAIN units = 1..n /\ units = [k \in 1..n |-> units[k]]
  BY <1>2, <1>3
<1>6. Len(units) = n
  <2> DEFINE S == {units[k] : k \in 1..n}
  <2>1. units \in [1..n -> S]
    BY <1>5
  <2> HIDE DEF S
  <2> QED BY <1>3, <1>5, <2>1
<1>7. AreUnits(units, Lexemes)
  BY <1>3, <1>4, <1>5, <1>6 DEF AreUnits
<1> QED BY <1>7 DEF units

-----------------------------------------------------------------------------
(* The grid of a document *)

(***************************************************************************)
(* Whatever a file holds, the filter of its kind finds units in it that a  *)
(* grid can be made of: texts, and no two at the same place.               *)
(***************************************************************************)
LEMMA FileUnitsAre ==
  ASSUME NEW doc, IsDocument(doc)
  PROVE  AreUnits(Units(doc), Lexemes)
<1>1. CASE doc.kind = "txt" /\ doc.body \in Seq(STRING)
  <2>1. AreUnits(TxtUnits(doc.body), Lexemes)
    BY <1>1, AsLexemes, TxtUnitsAre
  <2> QED BY <1>1, <2>1 DEF Units
<1>2. CASE doc.kind = "md" /\ doc.body \in Seq(STRING)
  <2>1. AreUnits(MarkdownUnits(doc.body), Lexemes)
    BY <1>2, AsLexemes, MarkdownUnitsAre
  <2> QED BY <1>2, <2>1 DEF Units
<1>3. CASE doc.kind = "html" /\ doc.body \in Seq(STRING)
  <2>1. AreUnits(HtmlUnits(doc.body), Lexemes)
    BY <1>3, AsLexemes, HtmlUnitsAre
  <2> QED BY <1>3, <2>1 DEF Units
<1>4. CASE doc.kind = "docx" /\ doc.body \in Seq(Seq(Nodes)) /\ doc.body # <<>>
  <2>1. AreUnits(DocumentUnits(doc), Lexemes)
    BY <1>4, PartUnitsAre
  <2> QED BY <1>4, <2>1 DEF Units
<1>5. CASE doc.kind = "pptx" /\ doc.body \in Seq(Seq(Nodes)) /\ doc.body # <<>>
  <2>1. AreUnits(DocumentUnits(doc), Lexemes)
    BY <1>5, PartUnitsAre
  <2> QED BY <1>5, <2>1 DEF Units, PptxUnits
<1>6. CASE doc.kind = "xlsx" /\ IsBook(doc.body)
  <2>1. AreUnits(XlsxUnits(doc.body), Lexemes)
    BY <1>6, XlsxUnitsAre
  <2> QED BY <1>6, <2>1 DEF Units
<1>7. CASE doc.kind = "bilingual-xlsx" /\ IsBook(doc.body)
  <2>1. AreUnits(XlsxTableUnits(doc.body), Lexemes)
    BY <1>7, XlsxTableUnitsAre
  <2> QED BY <1>7, <2>1 DEF Units
<1>8. CASE /\ doc.kind = "bilingual-docx"
           /\ doc.body \in Seq(Seq(Nodes)) /\ \A r \in DOMAIN doc.body : Len(doc.body[r]) = 2
  <2>1. AreUnits(DocxTableUnits(doc.body), Lexemes)
    BY <1>8, DocxTableUnitsAre
  <2> QED BY <1>8, <2>1 DEF Units
<1>9. CASE /\ doc.kind = "xliff"
           /\ doc.body \in Seq([source : Seq(STRING), form : {"none", "empty", "pair"},
                                inner : Seq(STRING), beside : Seq(STRING)])
  <2>1. AreUnits(XliffUnits(doc.body), Lexemes)
    BY <1>9, XliffUnitsAre
  <2> QED BY <1>9, <2>1 DEF Units
<1>10. \/ doc.kind = "txt" /\ doc.body \in Seq(STRING)
       \/ doc.kind = "md" /\ doc.body \in Seq(STRING)
       \/ doc.kind = "html" /\ doc.body \in Seq(STRING)
       \/ doc.kind = "docx" /\ doc.body \in Seq(Seq(Nodes)) /\ doc.body # <<>>
       \/ doc.kind = "pptx" /\ doc.body \in Seq(Seq(Nodes)) /\ doc.body # <<>>
       \/ doc.kind = "xlsx" /\ IsBook(doc.body)
       \/ doc.kind = "bilingual-xlsx" /\ IsBook(doc.body)
       \/ /\ doc.kind = "bilingual-docx"
          /\ doc.body \in Seq(Seq(Nodes)) /\ \A r \in DOMAIN doc.body : Len(doc.body[r]) = 2
       \/ /\ doc.kind = "xliff"
          /\ doc.body \in Seq([source : Seq(STRING), form : {"none", "empty", "pair"},
                               inner : Seq(STRING), beside : Seq(STRING)])
  BY Zenon DEF IsDocument
<1> QED BY <1>1, <1>2, <1>3, <1>4, <1>5, <1>6, <1>7, <1>8, <1>9, <1>10

Modes == {"paragraph", "sentence"}

\* The rows import builds, and that people may have typed into since.
Grid(units, grid) ==
  DOMAIN grid = 1..Len(grid) /\ \E mode \in Modes, rules \in Rules :
                                  SameRows(grid, BuildSegments(units, mode, rules))

LEMMA BuiltIsGrid ==
  ASSUME NEW L, NEW units, AreUnits(units, L), NEW mode \in Modes, NEW rules \in Rules
  PROVE  Grid(units, BuildSegments(units, mode, rules))
<1> DEFINE built == BuildSegments(units, mode, rules)
<1>1. PICK Row : SegmentsOf(units, mode, rules) \in Seq(Seq(Row))
  BY SegmentsAre
<1>2. built = FlattenSeq(SegmentsOf(units, mode, rules))
  BY SegmentsAre
<1>5. built \in Seq(Row)
  BY <1>1, <1>2, FlattenHasBlocks DEF FlattensInto
<1>6. DOMAIN built = 1..Len(built)
  BY <1>5
<1>7. SameRows(built, built)
  BY DEF SameRows
<1> QED BY <1>6, <1>7 DEF Grid, built

(***************************************************************************)
(* What a step of the engine can make of the grid.                         *)
(***************************************************************************)
RowsInv ==
  copy # Absent => IsDocument(copy) /\ Grid(Units(copy), rows)

LEMMA RowsKept ==
  ASSUME DocumentsAssumption, RowsInv, [DocumentsNext]_vars
  PROVE  RowsInv'
<1>1. ASSUME NEW file \in Files, NEW mode \in {"paragraph", "sentence"}, NEW rules \in Rules,
             Import(file, mode, rules)
      PROVE  RowsInv'
  <2>1. IsDocument(file)
    BY DEF DocumentsAssumption
  <2>2. AreUnits(Units(file), Lexemes)
    BY <2>1, FileUnitsAre
  <2>3. Grid(Units(file), BuildSegments(Units(file), mode, rules))
    BY <2>2, BuiltIsGrid DEF Modes
  <2>4. copy' = file /\ rows' = BuildSegments(Units(file), mode, rules)
    BY <1>1 DEF Import
  <2>5. IsDocument(copy') /\ Grid(Units(copy'), rows')
    BY <2>1, <2>3, <2>4
  <2> QED BY <2>5 DEF RowsInv
<1>2. ASSUME NEW i \in DOMAIN rows, NEW text \in Texts, Edit(i, text)
      PROVE  RowsInv'
  <2> SUFFICES ASSUME copy' # Absent PROVE IsDocument(copy') /\ Grid(Units(copy'), rows')
    BY DEF RowsInv
  <2>1. copy' = copy /\ rows' = [rows EXCEPT ![i].target = text]
    BY <1>2 DEF Edit
  <2>2. IsDocument(copy) /\ Grid(Units(copy), rows)
    BY <2>1 DEF RowsInv
  <2>3. PICK mode \in Modes, rules \in Rules : SameRows(rows, BuildSegments(Units(copy), mode, rules))
    BY <2>2 DEF Grid
  <2> DEFINE built == BuildSegments(Units(copy), mode, rules)
  <2>4. DOMAIN rows' = DOMAIN rows
    BY <2>1
  <2>5. Len(rows') = Len(rows)
    BY <2>4
  <2>6. \A k \in DOMAIN rows : /\ rows'[k].path = rows[k].path /\ rows'[k].gap = rows[k].gap
                               /\ rows'[k].source = rows[k].source
    BY <2>1
  <2>7. SameRows(rows', built)
    BY <2>3, <2>5, <2>6 DEF SameRows
  <2>8. Grid(Units(copy), rows')
    BY <2>2, <2>3, <2>4, <2>5, <2>7 DEF Grid
  <2> QED BY <2>1, <2>2, <2>8
<1>3. ASSUME UNCHANGED <<copy, rows>> PROVE RowsInv'
  BY <1>3 DEF RowsInv
<1>4. ASSUME NEW overwrite \in BOOLEAN, NEW anchors \in BOOLEAN, Export(overwrite, anchors)
      PROVE  UNCHANGED <<copy, rows>>
  BY <1>4 DEF Export, Fails, Publish
<1>5. ASSUME Rename PROVE UNCHANGED <<copy, rows>>
  BY <1>5 DEF Rename
<1>6. ASSUME UNCHANGED vars PROVE UNCHANGED <<copy, rows>>
  BY <1>6 DEF vars
<1> QED BY <1>1, <1>2, <1>3, <1>4, <1>5, <1>6 DEF DocumentsNext

(***************************************************************************)
(* However a file is segmented, and whatever is typed afterwards, the rows *)
(* of each of its units are the text of the unit: for every file of every  *)
(* format, every rule set and both modes.                                  *)
(***************************************************************************)
THEOREM RowsCover == DocumentsSpec => []RowsCoverUnits
<1>1. DocumentsInit => RowsInv
  BY DEF DocumentsInit, RowsInv
<1>2. RowsInv /\ [DocumentsNext]_vars => RowsInv'
  BY DocumentsAssumption, RowsKept
<1>3. RowsInv => RowsCoverUnits
  <2> SUFFICES ASSUME RowsInv, copy # Absent, NEW k \in DOMAIN Units(copy)
               PROVE  UnitIsCovered(rows, Units(copy)[k])
    BY DEF RowsCoverUnits, UnitIsCovered, Joins
  <2>1. IsDocument(copy) /\ Grid(Units(copy), rows)
    BY DEF RowsInv
  <2>2. PICK mode \in Modes, rules \in Rules : SameRows(rows, BuildSegments(Units(copy), mode, rules))
    BY <2>1 DEF Grid
  <2>4. DOMAIN rows = 1..Len(rows)
    BY <2>1 DEF Grid
  <2>3. AreUnits(Units(copy), Lexemes)
    BY <2>1, FileUnitsAre
  <2> QED BY <2>2, <2>3, <2>4, BuiltRowsCover
<1> QED BY <1>1, <1>2, <1>3, PTL DEF DocumentsSpec

(***************************************************************************)
(* A failing export leaves the destination as it was, and nothing staged.  *)
(***************************************************************************)
THEOREM OutputIsReplacedWhole == DocumentsSpec => OutputOnlyOnSuccess
<1> DEFINE Step == /\ output' # output => answer' = "exported"
                   /\ output' # output /\ Exists => output' = staged
                   /\ answer' \in {"failed", "exists", "refused"} => staged' = Absent
<1>1. [DocumentsNext]_vars => [Step]_vars
  <2> SUFFICES ASSUME DocumentsNext PROVE Step
    OBVIOUS
  <2>1. ASSUME NEW file \in Files, NEW mode \in {"paragraph", "sentence"}, NEW rules \in Rules,
               Import(file, mode, rules)
        PROVE  Step
    BY <2>1 DEF Import
  <2>2. ASSUME NEW i \in DOMAIN rows, NEW text \in Texts, Edit(i, text)
        PROVE  Step
    BY <2>2 DEF Edit
  <2>3. ASSUME NEW overwrite \in BOOLEAN, NEW anchors \in BOOLEAN, Export(overwrite, anchors)
        PROVE  Step
    BY <2>3 DEF Export, Fails, Publish, Exists
  <2>4. ASSUME Rename PROVE Step
    BY <2>4 DEF Rename
  <2> QED BY <2>1, <2>2, <2>3, <2>4 DEF DocumentsNext
<1> QED BY <1>1, PTL DEF DocumentsSpec, OutputOnlyOnSuccess

-----------------------------------------------------------------------------
(* What export leaves of a paragraph or a cell *)

NodeOver(L) == [kind : STRING \cup {"anchor"}, fmt : STRING \cup {"plain"}, text : Seq(L)]

NodesOver(L) == Seq(NodeOver(L))

\* Nodes over an alphabet are a sequence of nodes.
LEMMA NodesAre ==
  ASSUME NEW L, NEW nodes \in NodesOver(L)
  PROVE  /\ Len(nodes) \in Nat /\ DOMAIN nodes = 1..Len(nodes)
         /\ \A i \in 1..Len(nodes) : nodes[i] \in NodeOver(L)
<1>1. nodes \in Seq(NodeOver(L))
  BY DEF NodesOver
<1>2. Len(nodes) \in Nat /\ DOMAIN nodes = 1..Len(nodes) /\ \A i \in 1..Len(nodes) : nodes[i] \in NodeOver(L)
  BY <1>1
<1> QED BY <1>2 DEF NodeOver

\* Rewriting touches the texts of text nodes only.
LEMMA RewrittenIs ==
  ASSUME NEW L, NEW nodes \in NodesOver(L), NEW target \in Seq(L)
  PROVE  /\ Rewritten(nodes, target) \in NodesOver(L)
         /\ DOMAIN Rewritten(nodes, target) = DOMAIN nodes
         /\ Len(Rewritten(nodes, target)) = Len(nodes)
         /\ \A i \in DOMAIN nodes :
              Rewritten(nodes, target)[i] =
                IF nodes[i].kind # "text" THEN nodes[i]
                ELSE [nodes[i] EXCEPT !.text = IF i = Min(TextNodes(nodes)) THEN target ELSE <<>>]
<1> DEFINE n == Len(nodes)
           rewritten == Rewritten(nodes, target)
<1>1. n \in Nat /\ DOMAIN nodes = 1..n /\ \A i \in 1..n : nodes[i] \in NodeOver(L)
  BY NodesAre
<1>2. rewritten = [i \in DOMAIN nodes |->
                     IF nodes[i].kind # "text" THEN nodes[i]
                     ELSE [nodes[i] EXCEPT !.text = IF i = Min(TextNodes(nodes)) THEN target ELSE <<>>]]
  BY DEF Rewritten, TextNodes
<1> HIDE DEF n, rewritten
<1>3. ASSUME NEW i \in 1..n PROVE rewritten[i] \in NodeOver(L)
  <2>1. nodes[i] \in NodeOver(L) /\ <<>> \in Seq(L)
    BY <1>1
  <2>2. [nodes[i] EXCEPT !.text = target] \in NodeOver(L)
    BY <2>1 DEF NodeOver
  <2>3. [nodes[i] EXCEPT !.text = <<>>] \in NodeOver(L)
    BY <2>1 DEF NodeOver
  <2>4. \/ rewritten[i] = nodes[i] \/ rewritten[i] = [nodes[i] EXCEPT !.text = target]
        \/ rewritten[i] = [nodes[i] EXCEPT !.text = <<>>]
    BY <1>1, <1>2
  <2> QED BY <2>1, <2>2, <2>3, <2>4
<1>4. rewritten = [i \in 1..n |-> rewritten[i]] /\ rewritten \in [1..n -> NodeOver(L)]
  BY <1>1, <1>2, <1>3
<1>5. rewritten \in Seq(NodeOver(L)) /\ Len(rewritten) = n
  BY <1>1, <1>4
<1> QED BY <1>1, <1>2, <1>4, <1>5 DEF NodesOver, n, rewritten

\* A text node without its text, which is what export may change.
Emptied(node) == IF node.kind = "text" THEN [node EXCEPT !.text = <<>>] ELSE node

Lasting(nodes) == {i \in DOMAIN nodes : nodes[i].kind # "anchor"}

\* The bones of a text node do not show its text.
LEMMA BareIs ==
  ASSUME NEW n \in Nat, NEW nodes, DOMAIN nodes = 1..n
  PROVE  Bare(nodes) = Kept([i \in 1..n |-> Emptied(nodes[i])], Lasting(nodes))
<1> DEFINE I == Lasting(nodes)
           N == Cardinality(I)
           order == InOrder(I)
           bare == [i \in 1..n |-> Emptied(nodes[i])]
           lasting == Kept(nodes, I)
<1>1. I \in SUBSET (0..n) /\ \A i \in I : i \in 1..n
  <2>1. \A i \in 1..n : i \in 0..n
    OBVIOUS
  <2> QED BY <2>1 DEF Lasting
<1> HIDE DEF I
<1>2. order \in [1..N -> I] /\ N \in Nat
  BY <1>1, InOrderSorts
<1> HIDE DEF N
<1>3. lasting = [k \in DOMAIN order |-> nodes[order[k]]] /\ Kept(bare, I) = [k \in DOMAIN order |-> bare[order[k]]]
  BY DEF Kept
<1> HIDE DEF order
<1>4. lasting = [k \in 1..N |-> nodes[order[k]]] /\ Kept(bare, I) = [k \in 1..N |-> bare[order[k]]]
  BY <1>2, <1>3
<1>5. Bare(nodes) = [k \in DOMAIN lasting |-> Emptied(lasting[k])]
  BY DEF Bare, Emptied, Lasting, I
<1> HIDE DEF lasting, bare
<1>6. Bare(nodes) = [k \in 1..N |-> Emptied(lasting[k])]
  BY <1>4, <1>5
<1>7. \A k \in 1..N : Emptied(lasting[k]) = bare[order[k]]
  <2> SUFFICES ASSUME NEW k \in 1..N PROVE Emptied(lasting[k]) = bare[order[k]]
    OBVIOUS
  <2>1. lasting[k] = nodes[order[k]] /\ order[k] \in 1..n
    BY <1>1, <1>2, <1>4
  <2>2. bare[order[k]] = Emptied(nodes[order[k]])
    BY <2>1 DEF bare
  <2> QED BY <2>1, <2>2
<1> QED BY <1>4, <1>6, <1>7 DEF I, bare

\* So rewriting leaves the bones alone,
LEMMA BareRewritten ==
  ASSUME NEW L, NEW nodes \in NodesOver(L), NEW target \in Seq(L)
  PROVE  Bare(Rewritten(nodes, target)) = Bare(nodes)
<1> DEFINE n == Len(nodes)
           new == Rewritten(nodes, target)
<1>1. n \in Nat /\ DOMAIN nodes = 1..n /\ \A i \in 1..n : nodes[i] \in NodeOver(L)
  BY NodesAre
<1>2. DOMAIN new = 1..n
      /\ \A i \in 1..n : new[i] = IF nodes[i].kind # "text" THEN nodes[i]
                                  ELSE [nodes[i] EXCEPT !.text = IF i = Min(TextNodes(nodes)) THEN target ELSE <<>>]
  BY <1>1, RewrittenIs
<1> HIDE DEF n, new
<1>3. ASSUME NEW i \in 1..n PROVE Emptied(new[i]) = Emptied(nodes[i]) /\ new[i].kind = nodes[i].kind
  <2>1. nodes[i] \in NodeOver(L)
    BY <1>1
  <2>2. PICK text : new[i] = IF nodes[i].kind # "text" THEN nodes[i] ELSE [nodes[i] EXCEPT !.text = text]
    BY <1>2
  <2>3. [nodes[i] EXCEPT !.text = text].kind = nodes[i].kind
    BY <2>1
  <2>4. [[nodes[i] EXCEPT !.text = text] EXCEPT !.text = <<>>] = [nodes[i] EXCEPT !.text = <<>>]
    BY <2>1
  <2> QED BY <2>2, <2>3, <2>4 DEF Emptied
<1>4. Lasting(new) = Lasting(nodes)
  BY <1>1, <1>2, <1>3 DEF Lasting
<1>5. [i \in 1..n |-> Emptied(new[i])] = [i \in 1..n |-> Emptied(nodes[i])]
  BY <1>3
<1>6. Bare(new) = Kept([i \in 1..n |-> Emptied(new[i])], Lasting(new))
  BY <1>1, <1>2, BareIs
<1>7. Bare(nodes) = Kept([i \in 1..n |-> Emptied(nodes[i])], Lasting(nodes))
  BY <1>1, BareIs
<1> QED BY <1>4, <1>5, <1>6, <1>7 DEF new

\* Where the nodes are once a bookmark stands before the first text.
LEMMA AnchoredIs ==
  ASSUME NEW L, NEW nodes \in NodesOver(L), TextNodes(nodes) # {}
  PROVE  \E m \in 1..Len(nodes) :
           /\ m = Min(TextNodes(nodes))
           /\ Anchored(nodes) \in NodesOver(L)
           /\ Inserts(Anchored(nodes), nodes, m, Node("anchor", "plain", <<>>))
<1> DEFINE n == Len(nodes)
           m == Min(TextNodes(nodes))
           a == Node("anchor", "plain", <<>>)
<1>1. n \in Nat /\ DOMAIN nodes = 1..n
  BY NodesAre
<1>2. TextNodes(nodes) \in SUBSET (0..n) /\ \A i \in TextNodes(nodes) : i \in 1..n
  <2>1. \A i \in 1..n : i \in 0..n
    BY <1>1
  <2> HIDE DEF n
  <2> QED BY <1>1, <2>1 DEF TextNodes
<1>3. m \in 1..n
  BY <1>1, <1>2, Extremes
<1>4. a \in NodeOver(L)
  <2>1. <<>> \in Seq(L)
    OBVIOUS
  <2>2. \A x \in Seq(L) : [kind |-> "anchor", fmt |-> "plain", text |-> x] \in NodeOver(L)
    BY DEF NodeOver
  <2>3. a = [kind |-> "anchor", fmt |-> "plain", text |-> <<>>]
    BY DEF Node
  <2> HIDE DEF a
  <2> QED BY <2>1, <2>2, <2>3
<1>5. nodes \in Seq(NodeOver(L))
  BY DEF NodesOver
<1>6. Anchored(nodes) = InsertAt(nodes, m, a)
  BY DEF Anchored
<1> HIDE DEF a, m
<1>7. InsertAt(nodes, m, a) \in Seq(NodeOver(L)) /\ Inserts(InsertAt(nodes, m, a), nodes, m, a)
  BY <1>3, <1>4, <1>5, InsertAtIs
<1>8. m = Min(TextNodes(nodes)) /\ a = Node("anchor", "plain", <<>>)
  BY DEF m, a
<1> QED BY <1>3, <1>6, <1>7, <1>8 DEF NodesOver

\* and an anchor is no bone.
LEMMA BareAnchored ==
  ASSUME NEW L, NEW nodes \in NodesOver(L)
  PROVE  Bare(Anchored(nodes)) = Bare(nodes)
<1> DEFINE n == Len(nodes)
           new == Anchored(nodes)
<1>1. CASE TextNodes(nodes) = {}
  BY <1>1 DEF Anchored
<1>2. CASE TextNodes(nodes) # {}
  <2>1. n \in Nat /\ DOMAIN nodes = 1..n
    BY NodesAre
  <2>2. PICK m \in 1..n :
           /\ new \in NodesOver(L) /\ Len(new) = n + 1
           /\ \A i \in 1..n : i < m => new[i] = nodes[i]
           /\ new[m] = Node("anchor", "plain", <<>>)
           /\ \A i \in 1..n : ~(i < m) => new[i + 1] = nodes[i]
    BY <1>2, AnchoredIs DEF Inserts
  <2> HIDE DEF n, new
  <2>3. DOMAIN new = 1..n + 1 /\ n + 1 \in Nat
    BY <2>1, <2>2, NodesAre
  <2> DEFINE I == Lasting(nodes)
             J == Lasting(new)
             f == [i \in I |-> IF i < m THEN i ELSE i + 1]
             s == [i \in 1..n |-> Emptied(nodes[i])]
             t == [i \in 1..n + 1 |-> Emptied(new[i])]
  <2>4. I = {i \in 1..n : nodes[i].kind # "anchor"} /\ J = {i \in 1..n + 1 : new[i].kind # "anchor"}
    BY <2>1, <2>3 DEF Lasting
  <2> HIDE DEF I, J
  <2>5. m \in 1..n /\ \A i \in 1..n : (IF i < m THEN i ELSE i + 1) \in 1..n + 1
    BY <2>1
  <2>6. \A i \in 1..n : new[IF i < m THEN i ELSE i + 1] = nodes[i]
    BY <2>2
  <2>7. f \in [I -> J]
    BY <2>4, <2>5, <2>6
  <2>8. \A i, j \in I : i < j => f[i] < f[j]
    BY <2>1, <2>4
  <2>9. \A y \in J : \E i \in I : f[i] = y
    <3> SUFFICES ASSUME NEW y \in J PROVE \E i \in I : f[i] = y
      OBVIOUS
    <3>1. y \in 1..n + 1 /\ new[y].kind # "anchor"
      BY <2>4
    <3>0. new[m].kind = "anchor"
      BY <2>2 DEF Node
    <3>2. y # m
      BY <3>0, <3>1
    <3>3. CASE y < m
      <4>1. y \in 1..n
        BY <2>1, <3>1, <3>3
      <4>2. y \in I
        BY <2>2, <2>4, <3>1, <3>3, <4>1
      <4> QED BY <3>3, <4>2
    <3>4. CASE ~(y < m)
      <4>1. y - 1 \in 1..n /\ ~(y - 1 < m) /\ (y - 1) + 1 = y
        BY <2>1, <3>1, <3>2, <3>4
      <4>2. new[y] = nodes[y - 1]
        BY <2>2, <4>1
      <4>3. y - 1 \in I
        BY <2>4, <3>1, <4>1, <4>2
      <4>4. f[y - 1] = y
        BY <4>1, <4>3
      <4> QED BY <4>3, <4>4
    <3> QED BY <3>3, <3>4
  <2>10. \A i \in I : t[f[i]] = s[i]
    <3> SUFFICES ASSUME NEW i \in I PROVE t[f[i]] = s[i]
      OBVIOUS
    <3>1. i \in 1..n
      BY <2>4
    <3>2. f[i] \in 1..n + 1 /\ new[f[i]] = nodes[i]
      BY <2>5, <2>6, <3>1
    <3> HIDE DEF f
    <3> QED BY <3>1, <3>2
  <2>11. I \in SUBSET (1..n) /\ J \in SUBSET (1..n + 1)
    BY <2>4
  <2> HIDE DEF f, s, t
  <2>12. Kept(t, J) = Kept(s, I)
    <3>1. PICK q : q = n + 1
      OBVIOUS
    <3>2. Within(I, n) /\ Within(J, q)
      BY <2>1, <2>3, <2>11, <3>1 DEF Within
    <3>3. Agree(s, I, t, J)
      BY <2>7, <2>8, <2>9, <2>10 DEF Agree
    <3> QED BY <3>2, <3>3, KeptAgrees
  <2>13. Bare(new) = Kept(t, J)
    BY <2>3, BareIs DEF t, J
  <2>14. Bare(nodes) = Kept(s, I)
    BY <2>1, BareIs DEF s, I
  <2> QED BY <2>12, <2>13, <2>14 DEF new
<1> QED BY <1>1, <1>2

-----------------------------------------------------------------------------
(* The rows of a path put together again *)

\* Two texts are blank together when each is.
LEMMA BlankConcat ==
  ASSUME NEW S, NEW a \in Seq(S), NEW b \in Seq(S)
  PROVE  Blank(a \o b) <=> Blank(a) /\ Blank(b)
<1>1. /\ a \o b \in Seq(S) /\ Len(a \o b) = Len(a) + Len(b)
      /\ \A i \in 1..(Len(a) + Len(b)) : (a \o b)[i] = IF i <= Len(a) THEN a[i] ELSE b[i - Len(a)]
  BY ConcatProperties
<1>2. PICK w, p, q : w = a \o b /\ p = Len(a) /\ q = Len(b)
  OBVIOUS
<1>3. /\ p \in Nat /\ q \in Nat /\ DOMAIN a = 1..p /\ DOMAIN b = 1..q /\ DOMAIN w = 1..(p + q)
      /\ \A i \in 1..(p + q) : w[i] = IF i <= p THEN a[i] ELSE b[i - p]
  BY <1>1, <1>2
<1>4. \A i \in 1..p : i \in 1..(p + q) /\ w[i] = a[i]
  BY <1>3
<1>5. \A i \in 1..q : p + i \in 1..(p + q) /\ w[p + i] = b[i]
  <2> SUFFICES ASSUME NEW i \in 1..q PROVE p + i \in 1..(p + q) /\ w[p + i] = b[i]
    OBVIOUS
  <2>1. p + i \in 1..(p + q) /\ ~(p + i <= p) /\ (p + i) - p = i
    BY <1>3
  <2> QED BY <1>3, <2>1
<1>6. \A i \in 1..(p + q) : (i \in 1..p /\ w[i] = a[i]) \/ (i - p \in 1..q /\ w[i] = b[i - p])
  BY <1>3
<1>7. Blank(w) <=> \A i \in 1..(p + q) : w[i] \in White
  BY <1>3 DEF Blank
<1>8. Blank(a) <=> \A i \in 1..p : a[i] \in White
  BY <1>3 DEF Blank
<1>9. Blank(b) <=> \A i \in 1..q : b[i] \in White
  BY <1>3 DEF Blank
<1>10. Blank(w) => Blank(a) /\ Blank(b)
  BY <1>4, <1>5, <1>7, <1>8, <1>9
<1>11. Blank(a) /\ Blank(b) => Blank(w)
  <2> SUFFICES ASSUME \A i \in 1..p : a[i] \in White, \A i \in 1..q : b[i] \in White,
                      NEW i \in 1..(p + q)
               PROVE  w[i] \in White
    BY <1>7, <1>8, <1>9
  <2>1. CASE i \in 1..p /\ w[i] = a[i]
    BY <2>1
  <2>2. CASE i - p \in 1..q /\ w[i] = b[i - p]
    BY <2>2
  <2> QED BY <1>6, <2>1, <2>2
<1> QED BY <1>2, <1>10, <1>11

\* Texts joined are not blank when one of them is not.
LEMMA FlattenSolid ==
  ASSUME NEW S, NEW s \in Seq(Seq(S)), NEW m \in 1..Len(s), ~Blank(s[m])
  PROVE  ~Blank(FlattenSeq(s))
<1> DEFINE N == Len(s)
<1>1. N \in Nat /\ N # 0 /\ N \in Nat \ {0} /\ m \in 1..N /\ \A i \in 1..N : s[i] \in Seq(S)
  OBVIOUS
<1>2. PICK g : JoinsUp(N, s, g) /\ \A i \in 1..N : g[i] \in Seq(S)
  BY <1>1, JoinExists
<1>3. FlattenSeq(s) = g[N]
  BY <1>1, <1>2, FlattenIs
<1> HIDE DEF N
<1> DEFINE T == {i \in 0..N : i >= m => ~Blank(g[i])}
<1>4. 0 \in T
  BY <1>1
<1>5. ASSUME NEW i \in 0..N, i \in T, i < N PROVE i + 1 \in T
  <2>1. i + 1 \in 1..N /\ i + 1 \in 0..N /\ (i + 1) - 1 = i
    BY <1>1, <1>5
  <2>2. i + 1 >= m => i >= m \/ i + 1 = m
    BY <1>1
  <2>3. CASE i = 0
    <3>1. g[i + 1] = s[i + 1]
      BY <1>2, <2>3 DEF JoinsUp
    <3>2. i + 1 >= m => i + 1 = m
      BY <1>1, <2>3
    <3> QED BY <2>1, <3>1, <3>2
  <2>4. CASE i # 0
    <3>1. i \in 1..N /\ i + 1 # 1
      BY <1>1, <2>1, <2>4
    <3>2. g[i + 1] = g[i] \o s[i + 1]
      BY <1>2, <2>1, <3>1 DEF JoinsUp
    <3>3. g[i] \in Seq(S) /\ s[i + 1] \in Seq(S)
      BY <1>1, <1>2, <2>1, <3>1
    <3>4. Blank(g[i + 1]) => Blank(g[i]) /\ Blank(s[i + 1])
      BY <3>2, <3>3, BlankConcat
    <3>5. i >= m => ~Blank(g[i])
      BY <1>5
    <3> QED BY <2>1, <2>2, <3>4, <3>5
  <2> QED BY <2>3, <2>4
<1>6. N \in T
  <2> HIDE DEF T
  <2>1. N \in 0..N /\ \A i \in 0..N : i \in T /\ i < N => i + 1 \in T
    BY <1>1, <1>5
  <2> QED BY <1>1, <1>4, <2>1, Ascent
<1>7. N >= m
  BY <1>1
<1> QED BY <1>3, <1>6, <1>7

\* Ranges that start at different places, all of them, in order.
Distinct(X, n) ==
  /\ n \in Nat /\ \A r \in X : r.from \in 1..n
  /\ \A r, q \in X : r.from = q.from => r = q

\* Ranges with different starts are all listed, once each.
LEMMA ByStartLists ==
  ASSUME NEW X, NEW n, Distinct(X, n)
  PROVE  \E N \in Nat : /\ ByStart(X) = [k \in 1..N |-> ByStart(X)[k]]
                        /\ \A k \in 1..N : ByStart(X)[k] \in X
                        /\ \A j, k \in 1..N : j < k => ByStart(X)[j].from < ByStart(X)[k].from
                        /\ \A r \in X : \E k \in 1..N : ByStart(X)[k] = r
<1> DEFINE S == {r.from : r \in X}
           N == Cardinality(S)
           starts == InOrder(S)
           at(k) == CHOOSE r \in X : r.from = starts[k]
<1>1. n \in Nat /\ (\A r \in X : r.from \in 1..n) /\ \A r, q \in X : r.from = q.from => r = q
  BY DEF Distinct
<1>2. Within(S, n)
  BY <1>1 DEF Within
<1>3. \A x \in S : \E r \in X : r.from = x
  OBVIOUS
<1>4. \A r \in X : r.from \in S
  OBVIOUS
<1>5. ByStart(X) = [k \in DOMAIN starts |-> at(k)]
  BY DEF ByStart
<1> HIDE DEF S
<1>6. Ascending(starts, N, S)
  BY <1>2, InOrderAscends
<1> HIDE DEF starts, N
<1>7. /\ N \in Nat /\ starts \in [1..N -> S] /\ (\A j, k \in 1..N : j < k => starts[j] < starts[k])
      /\ \A x \in S : \E k \in 1..N : starts[k] = x
  BY <1>6 DEF Ascending
<1>8. \A k \in 1..N : at(k) \in X /\ at(k).from = starts[k]
  BY <1>3, <1>7
<1> HIDE DEF at
<1>9. ByStart(X) = [k \in 1..N |-> at(k)] /\ \A k \in 1..N : ByStart(X)[k] = at(k)
  BY <1>5, <1>7
<1>10. \A j, k \in 1..N : j < k => ByStart(X)[j].from < ByStart(X)[k].from
  BY <1>7, <1>8, <1>9
<1>11. ASSUME NEW r \in X PROVE \E k \in 1..N : ByStart(X)[k] = r
  <2>1. PICK k \in 1..N : starts[k] = r.from
    BY <1>4, <1>7
  <2>2. at(k) = r
    BY <1>1, <1>8, <2>1
  <2> QED BY <1>9, <2>2
<1>12. \A k \in 1..N : ByStart(X)[k] \in X
  BY <1>8, <1>9
<1>13. ByStart(X) = [k \in 1..N |-> ByStart(X)[k]]
  BY <1>9
<1> QED BY <1>7, <1>10, <1>11, <1>12, <1>13

(***************************************************************************)
(* The rows of a path lie together in a grid, and are texts.               *)
(***************************************************************************)
Together(grid) ==
  \A i, j, k \in DOMAIN grid : i <= j /\ j <= k /\ grid[i].path = grid[k].path => grid[j].path = grid[i].path

RowsOver(grid, L) ==
  /\ Len(grid) \in Nat /\ DOMAIN grid = 1..Len(grid)
  /\ \A i \in DOMAIN grid : grid[i].gap \in Seq(L) /\ grid[i].source \in Seq(L) /\ grid[i].target \in Seq(L)

\* What the rows of a path read, and whether anybody translated one of them.
TextAt(grid, path) == FlattenSeq([i \in DOMAIN RowsAt(grid, path) |-> Exported(RowsAt(grid, path)[i])])

Touched(grid, path) == \E i \in DOMAIN grid : grid[i].path = path /\ ~Blank(grid[i].target)

\* The group of rows that starts at i.
GroupAt(grid, i) ==
  [from |-> i, to |-> Max({j \in i..Len(grid) : \A k \in i..j : grid[k].path = grid[i].path})]

Starts(grid) == {i \in DOMAIN grid : i = 1 \/ grid[i].path # grid[i - 1].path}

\* The groups of a grid are its maximal runs of one path.
LEMMA GroupsAre ==
  ASSUME NEW grid, NEW N \in Nat, DOMAIN grid = 1..N, Len(grid) = N, Together(grid), NEW i \in Starts(grid)
  PROVE  /\ GroupAt(grid, i).from = i /\ GroupAt(grid, i).to \in i..N /\ i \in 1..N
         /\ {k \in DOMAIN grid : grid[k].path = grid[i].path} = i..GroupAt(grid, i).to
<1> DEFINE J == {j \in i..N : \A k \in i..j : grid[k].path = grid[i].path}
           e == GroupAt(grid, i).to
<1>1. i \in 1..N /\ (i = 1 \/ grid[i].path # grid[i - 1].path)
  BY DEF Starts
<1>2. e = Max(J) /\ GroupAt(grid, i).from = i
  BY DEF GroupAt
<1>3. i \in J
  BY <1>1
<1>4. J \in SUBSET (0..N)
  BY <1>1
<1> HIDE DEF e
<1>5. e \in J /\ \A y \in J : y <= e
  <2> HIDE DEF J
  <2> QED BY <1>2, <1>3, <1>4, Extremes
<1>6. e \in i..N /\ \A k \in i..e : grid[k].path = grid[i].path
  BY <1>5
<1>7. e + 1 \in 1..N => grid[e + 1].path # grid[i].path
  <2> SUFFICES ASSUME e + 1 \in 1..N, grid[e + 1].path = grid[i].path PROVE FALSE
    OBVIOUS
  <2>1. \A k \in i..(e + 1) : k \in i..e \/ k = e + 1
    BY <1>1, <1>6
  <2>2. e + 1 \in i..N
    BY <1>1, <1>6
  <2>3. e + 1 \in J
    BY <1>6, <2>1, <2>2
  <2>4. ~(e + 1 <= e)
    BY <1>1, <1>6
  <2> HIDE DEF J
  <2> QED BY <1>5, <2>3, <2>4
<1>8. ASSUME NEW k \in 1..N, grid[k].path = grid[i].path PROVE k \in i..e
  <2>1. CASE k < i
    <3>1. i - 1 \in 1..N /\ k <= i - 1 /\ i - 1 <= i /\ i # 1
      BY <1>1, <2>1
    <3>2. grid[i - 1].path = grid[k].path
      BY <1>1, <1>8, <3>1 DEF Together
    <3> QED BY <1>1, <1>8, <3>1, <3>2
  <2>2. CASE k > e
    <3>1. e + 1 \in 1..N /\ i <= e + 1 /\ e + 1 <= k
      BY <1>1, <1>6, <2>2
    <3>2. grid[e + 1].path = grid[i].path
      BY <1>1, <1>8, <3>1 DEF Together
    <3> QED BY <1>7, <3>1, <3>2
  <2> QED BY <1>1, <1>6, <2>1, <2>2
<1>9. \A k \in i..e : k \in 1..N
  BY <1>1, <1>6
<1>10. {k \in DOMAIN grid : grid[k].path = grid[i].path} = i..e
  BY <1>6, <1>8, <1>9
<1> QED BY <1>1, <1>2, <1>6, <1>10 DEF e

\* Every row belongs to the group of its path.
LEMMA StartOf ==
  ASSUME NEW grid, NEW N \in Nat, DOMAIN grid = 1..N, Len(grid) = N, Together(grid), NEW j \in 1..N
  PROVE  \E i \in Starts(grid) : grid[i].path = grid[j].path
<1> DEFINE I == {k \in 1..N : grid[k].path = grid[j].path}
           i == Min(I)
<1>1. I \in SUBSET (0..N) /\ j \in I
  <2>1. \A k \in 1..N : k \in 0..N
    OBVIOUS
  <2> QED BY <2>1
<1>2. i \in I /\ \A y \in I : i <= y
  <2> HIDE DEF I
  <2> QED BY <1>1, Extremes
<1> HIDE DEF i
<1>3. i \in 1..N /\ grid[i].path = grid[j].path
  BY <1>2
<1>4. i # 1 => grid[i].path # grid[i - 1].path
  <2> SUFFICES ASSUME i # 1, grid[i].path = grid[i - 1].path PROVE FALSE
    OBVIOUS
  <2>1. i - 1 \in 1..N /\ ~(i <= i - 1)
    BY <1>3
  <2>2. i - 1 \in I
    BY <1>3, <2>1
  <2> HIDE DEF I
  <2> QED BY <1>2, <2>1, <2>2
<1> QED BY <1>3, <1>4 DEF Starts

-----------------------------------------------------------------------------
GroupText(grid, g) == FlattenSeq([x \in 1..g.to - g.from + 1 |-> Exported(grid[g.from + x - 1])])

\* A row is exported as a text over the alphabet of the rows.
LEMMA ExportedType ==
  ASSUME NEW L, NEW row, row.gap \in Seq(L), row.source \in Seq(L), row.target \in Seq(L)
  PROVE  Exported(row) \in Seq(L) /\ (~Blank(row.target) => ~Blank(Exported(row)))
<1> DEFINE t == IF Blank(row.target) THEN row.source ELSE row.target
<1>1. t \in Seq(L) /\ (~Blank(row.target) => t = row.target)
  OBVIOUS
<1>2. Exported(row) = row.gap \o t
  BY DEF Exported
<1> HIDE DEF t
<1>3. PICK a : a = row.gap
  OBVIOUS
<1>4. a \in Seq(L) /\ Exported(row) = a \o t
  BY <1>2, <1>3
<1>5. a \o t \in Seq(L)
  BY <1>1, <1>4, ConcatProperties
<1>6. Blank(a \o t) => Blank(t)
  BY <1>1, <1>4, BlankConcat
<1> QED BY <1>1, <1>4, <1>5, <1>6

\* A group of rows reads what the rows of its path read together.
LEMMA GroupTextIs ==
  ASSUME NEW L, NEW grid, RowsOver(grid, L), Together(grid), NEW i \in Starts(grid)
  PROVE  /\ GroupText(grid, GroupAt(grid, i)) = TextAt(grid, grid[i].path)
         /\ TextAt(grid, grid[i].path) \in Seq(L)
         /\ Touched(grid, grid[i].path) => ~Blank(TextAt(grid, grid[i].path))
<1> DEFINE N == Len(grid)
           p == grid[i].path
           e == GroupAt(grid, i).to
           own == RowsAt(grid, p)
           m == e - i + 1
           a == i - 1
           I == {k \in DOMAIN grid : grid[k].path = p}
<1>1. /\ N \in Nat /\ DOMAIN grid = 1..N
      /\ \A k \in 1..N : grid[k].gap \in Seq(L) /\ grid[k].source \in Seq(L) /\ grid[k].target \in Seq(L)
  BY DEF RowsOver
<1>2. GroupAt(grid, i).from = i /\ e \in i..N /\ i \in 1..N /\ I = i..e
  BY <1>1, GroupsAre
<1> HIDE DEF N, e, I
<1>3. m \in Nat /\ a \in Nat /\ a + 1 = i /\ a + m = e /\ \A x \in 1..m : a + x \in 1..N /\ i + x - 1 = a + x
  BY <1>1, <1>2
<1> HIDE DEF m, a
<1>4. InOrder(I) = [x \in 1..m |-> a + x]
  BY <1>2, <1>3, InOrderInterval
<1>5. own = [x \in DOMAIN InOrder(I) |-> grid[InOrder(I)[x]]]
  BY DEF RowsAt, Kept, I
<1> HIDE DEF own
<1>6. DOMAIN own = 1..m /\ \A x \in 1..m : own[x] = grid[a + x]
  BY <1>4, <1>5
<1> DEFINE texts == [x \in 1..m |-> Exported(own[x])]
<1>7. TextAt(grid, p) = FlattenSeq(texts)
  BY <1>6 DEF TextAt, own
<1>8. GroupText(grid, GroupAt(grid, i)) = FlattenSeq(texts)
  <2>1. GroupText(grid, GroupAt(grid, i)) = FlattenSeq([x \in 1..m |-> Exported(grid[i + x - 1])])
    BY <1>2 DEF GroupText, m, e
  <2>2. \A x \in 1..m : grid[i + x - 1] = own[x]
    BY <1>3, <1>6
  <2>3. [x \in 1..m |-> Exported(grid[i + x - 1])] = texts
    BY <2>2
  <2> QED BY <2>1, <2>3
<1>9. ASSUME NEW x \in 1..m
      PROVE  Exported(own[x]) \in Seq(L) /\ (~Blank(own[x].target) => ~Blank(Exported(own[x])))
  <2>1. own[x].gap \in Seq(L) /\ own[x].source \in Seq(L) /\ own[x].target \in Seq(L)
    BY <1>1, <1>3, <1>6
  <2> QED BY <2>1, ExportedType
<1>10. texts \in Seq(Seq(L)) /\ Len(texts) = m /\ \A x \in 1..m : texts[x] = Exported(own[x])
  <2> DEFINE Q == Seq(L)
  <2>1. \A x \in 1..m : Exported(own[x]) \in Q
    BY <1>9
  <2> HIDE DEF Q
  <2>2. texts \in [1..m -> Q] /\ \A x \in 1..m : texts[x] = Exported(own[x])
    BY <2>1
  <2> HIDE DEF texts
  <2>3. texts \in Seq(Q) /\ Len(texts) = m
    BY <1>3, <2>2
  <2> QED BY <2>2, <2>3 DEF Q
<1> HIDE DEF texts
<1>11. FlattenSeq(texts) \in Seq(L)
  BY <1>10, FlattenType
<1>12. ASSUME Touched(grid, p) PROVE ~Blank(FlattenSeq(texts))
  <2>1. PICK k \in 1..N : grid[k].path = p /\ ~Blank(grid[k].target)
    BY <1>1, <1>12 DEF Touched
  <2>2. k \in i..e
    BY <1>1, <1>2, <2>1 DEF I
  <2>3. k - a \in 1..m /\ a + (k - a) = k
    BY <1>2, <1>3, <2>2
  <2>4. ~Blank(texts[k - a])
    BY <1>6, <1>9, <1>10, <2>1, <2>3
  <2>5. k - a \in 1..Len(texts)
    BY <1>10, <2>3
  <2> QED BY <1>10, <2>4, <2>5, FlattenSolid
<1> QED BY <1>7, <1>8, <1>11, <1>12

(***************************************************************************)
(* What export hands to a filter: one text for every path that somebody    *)
(* translated a row of, and none for any other.                            *)
(***************************************************************************)
Merges(grid, merged, L) ==
  /\ Len(merged) \in Nat /\ DOMAIN merged = 1..Len(merged)
  /\ \A n \in DOMAIN merged :
       /\ merged[n] = [path |-> merged[n].path, target |-> merged[n].target]
       /\ Touched(grid, merged[n].path) /\ merged[n].target = TextAt(grid, merged[n].path)
       /\ merged[n].target \in Seq(L) /\ ~Blank(merged[n].target)
  /\ \A i \in DOMAIN grid : Touched(grid, grid[i].path) => \E n \in DOMAIN merged : merged[n].path = grid[i].path
  /\ \A j, k \in DOMAIN merged : merged[j].path = merged[k].path => j = k

\* The groups that somebody translated are merged, one text each.
LEMMA MergeIs ==
  ASSUME NEW L, NEW grid, RowsOver(grid, L), Together(grid)
  PROVE  Merges(grid, MergeForExport(grid), L)
<1> DEFINE N == Len(grid)
           X == {GroupAt(grid, i) : i \in Starts(grid)}
           all == ByStart(X)
           translated(g) == \E i \in g.from .. g.to : ~Blank(grid[i].target)
           J == {n \in DOMAIN all : translated(all[n])}
           order == InOrder(J)
           C == Cardinality(J)
           groups == Kept(all, J)
           merged == MergeForExport(grid)
<1>1. N \in Nat /\ DOMAIN grid = 1..N
  BY DEF RowsOver
<1>2. Groups(grid) = all
  BY DEF Groups, GroupAt, Starts
<1>3. merged = [k \in DOMAIN groups |-> [path |-> grid[groups[k].from].path, target |-> GroupText(grid, groups[k])]]
  BY <1>2 DEF MergeForExport, GroupText
<1> HIDE DEF N, merged
<1>4. ASSUME NEW i \in Starts(grid)
      PROVE  /\ GroupAt(grid, i).from = i /\ i \in 1..N
             /\ {k \in DOMAIN grid : grid[k].path = grid[i].path} = i..GroupAt(grid, i).to
  BY <1>1, GroupsAre DEF N
<1>5. Distinct(X, N)
  BY <1>1, <1>4 DEF Distinct
<1>6. \A i \in Starts(grid) : translated(GroupAt(grid, i)) <=> Touched(grid, grid[i].path)
  <2> SUFFICES ASSUME NEW i \in Starts(grid)
               PROVE  translated(GroupAt(grid, i)) <=> Touched(grid, grid[i].path)
    OBVIOUS
  <2>1. \A k : k \in i..GroupAt(grid, i).to <=> k \in DOMAIN grid /\ grid[k].path = grid[i].path
    BY <1>4
  <2>2. GroupAt(grid, i).from = i
    BY <1>4
  <2> QED BY <2>1, <2>2 DEF Touched
<1>7. \A g \in X : \E i \in Starts(grid) : g = GroupAt(grid, i)
  OBVIOUS
<1>8. \A i \in Starts(grid) : GroupAt(grid, i) \in X
  OBVIOUS
<1> HIDE DEF X
<1>9. PICK M \in Nat : /\ all = [k \in 1..M |-> all[k]] /\ \A k \in 1..M : all[k] \in X
                       /\ \A j, k \in 1..M : j < k => all[j].from < all[k].from
                       /\ \A r \in X : \E k \in 1..M : all[k] = r
  BY <1>5, ByStartLists
<1> HIDE DEF all, translated
<1>10. DOMAIN all = 1..M
  BY <1>9
<1>11. Within(J, M)
  BY <1>10 DEF Within
<1>12. \A k : k \in J <=> k \in 1..M /\ translated(all[k])
  BY <1>10
<1> HIDE DEF J
<1>13. Ascending(order, C, J)
  BY <1>11, InOrderAscends
<1>14. groups = [k \in DOMAIN order |-> all[order[k]]]
  BY DEF Kept
<1> HIDE DEF order, C, groups
<1>15. /\ C \in Nat /\ order \in [1..C -> J] /\ (\A j, k \in 1..C : j < k => order[j] < order[k])
       /\ \A x \in J : \E k \in 1..C : order[k] = x
  BY <1>13 DEF Ascending
<1>16. DOMAIN groups = 1..C /\ \A k \in 1..C : groups[k] = all[order[k]]
  BY <1>14, <1>15
<1>17. merged = [k \in 1..C |-> [path |-> grid[groups[k].from].path, target |-> GroupText(grid, groups[k])]]
  BY <1>3, <1>16
<1>18. DOMAIN merged = 1..C /\ Len(merged) = C
  <2> DEFINE S == {[path |-> grid[groups[k].from].path, target |-> GroupText(grid, groups[k])] : k \in 1..C}
  <2>1. merged \in [1..C -> S]
    BY <1>17
  <2> HIDE DEF S
  <2> QED BY <1>15, <2>1
<1>19. ASSUME NEW k \in 1..C
       PROVE  \E i \in Starts(grid) : /\ groups[k] = GroupAt(grid, i) /\ Touched(grid, grid[i].path)
                                      /\ merged[k].path = grid[i].path
                                      /\ merged[k].target = TextAt(grid, grid[i].path)
                                      /\ groups[k].from = i
  <2>1. order[k] \in J /\ groups[k] = all[order[k]]
    BY <1>15, <1>16
  <2>2. order[k] \in 1..M /\ translated(groups[k])
    BY <1>12, <2>1
  <2>3. groups[k] \in X
    BY <1>9, <2>1, <2>2
  <2>4. PICK i \in Starts(grid) : groups[k] = GroupAt(grid, i)
    BY <1>7, <2>3
  <2>5. Touched(grid, grid[i].path)
    BY <1>6, <2>2, <2>4
  <2>6. groups[k].from = i
    BY <1>4, <2>4
  <2>7. merged[k].path = grid[i].path /\ merged[k].target = GroupText(grid, GroupAt(grid, i))
    BY <1>17, <2>4, <2>6
  <2>8. GroupText(grid, GroupAt(grid, i)) = TextAt(grid, grid[i].path)
    BY GroupTextIs
  <2> QED BY <2>4, <2>5, <2>6, <2>7, <2>8
<1>20. ASSUME NEW k \in 1..C
       PROVE  /\ Touched(grid, merged[k].path) /\ merged[k].target = TextAt(grid, merged[k].path)
              /\ merged[k].target \in Seq(L) /\ ~Blank(merged[k].target)
  <2>1. PICK i \in Starts(grid) : /\ Touched(grid, grid[i].path) /\ merged[k].path = grid[i].path
                                  /\ merged[k].target = TextAt(grid, grid[i].path)
    BY <1>19
  <2>2. TextAt(grid, grid[i].path) \in Seq(L) /\ ~Blank(TextAt(grid, grid[i].path))
    BY <2>1, GroupTextIs
  <2> QED BY <2>1, <2>2
<1>21. ASSUME NEW j \in 1..N, Touched(grid, grid[j].path)
       PROVE  \E k \in 1..C : merged[k].path = grid[j].path
  <2>1. PICK i \in Starts(grid) : grid[i].path = grid[j].path
    BY <1>1, StartOf DEF N
  <2>2. PICK x \in 1..M : all[x] = GroupAt(grid, i)
    BY <1>8, <1>9
  <2>3. x \in J
    BY <1>6, <1>12, <1>21, <2>1, <2>2
  <2>4. PICK k \in 1..C : order[k] = x
    BY <1>15, <2>3
  <2>5. groups[k] = GroupAt(grid, i)
    BY <1>16, <2>2, <2>4
  <2>6. groups[k].from = i
    BY <1>4, <2>5
  <2>7. merged[k].path = grid[i].path
    BY <1>17, <2>6
  <2> QED BY <2>1, <2>7
<1>22. ASSUME NEW j \in 1..C, NEW l \in 1..C, merged[j].path = merged[l].path PROVE j = l
  <2>1. PICK x \in Starts(grid) : merged[j].path = grid[x].path /\ groups[j].from = x
    BY <1>19
  <2>2. PICK y \in Starts(grid) : merged[l].path = grid[y].path /\ groups[l].from = y
    BY <1>19
  <2>3. x = y
    <3>0. grid[x].path = grid[y].path /\ x \in DOMAIN grid /\ y \in DOMAIN grid
      BY <1>1, <1>4, <1>22, <2>1, <2>2
    <3>1. x \in y..GroupAt(grid, y).to /\ y \in x..GroupAt(grid, x).to
      <4>1. x \in {k \in DOMAIN grid : grid[k].path = grid[y].path}
        BY <3>0
      <4>2. y \in {k \in DOMAIN grid : grid[k].path = grid[x].path}
        BY <3>0
      <4> QED BY <1>4, <4>1, <4>2
    <3>2. x \in 1..N /\ y \in 1..N
      BY <1>4
    <3>3. x <= y /\ y <= x
      BY <3>1, <3>2
    <3> QED BY <3>2, <3>3
  <2>4. ASSUME NEW s \in 1..C, NEW t \in 1..C, groups[s].from = groups[t].from, s < t PROVE FALSE
    <3>1. order[s] < order[t] /\ order[s] \in 1..M /\ order[t] \in 1..M
      BY <1>12, <1>15, <2>4
    <3>2. all[order[s]].from < all[order[t]].from
      BY <1>9, <3>1
    <3>3. groups[s].from < groups[t].from
      BY <1>16, <3>2
    <3>4. PICK u \in Starts(grid) : groups[t].from = u
      BY <1>19
    <3>5. u \in 1..N /\ u < u
      BY <1>4, <2>4, <3>3, <3>4
    <3> QED BY <1>1, <3>5
  <2>5. ~(j < l) /\ ~(l < j)
    BY <2>1, <2>2, <2>3, <2>4
  <2> QED BY <1>15, <2>5
<1>23. C \in Nat /\ DOMAIN grid = 1..N
  BY <1>1, <1>15
<1>25. ASSUME NEW k \in 1..C PROVE merged[k] = [path |-> merged[k].path, target |-> merged[k].target]
  BY <1>17
<1>24. Merges(grid, merged, L)
  BY <1>18, <1>25, <1>20, <1>21, <1>22, <1>23 DEF Merges
<1> QED BY <1>24 DEF merged

\* How filters ask for it.
LEMMA AskedIs ==
  ASSUME NEW L, NEW grid, NEW merged, Merges(grid, merged, L), NEW path
  PROVE  /\ Asked(merged, path) # {} <=> Touched(grid, path)
         /\ Asked(merged, path) # {} => /\ TargetAt(merged, path) = TextAt(grid, path)
                                        /\ TargetAt(merged, path) \in Seq(L) /\ ~Blank(TargetAt(merged, path))
<1>1. /\ \A n \in DOMAIN merged :
           /\ Touched(grid, merged[n].path) /\ merged[n].target = TextAt(grid, merged[n].path)
           /\ merged[n].target \in Seq(L) /\ ~Blank(merged[n].target)
      /\ \A i \in DOMAIN grid : Touched(grid, grid[i].path) => \E n \in DOMAIN merged : merged[n].path = grid[i].path
  BY DEF Merges
<1>2. \A n : n \in Asked(merged, path) <=> n \in DOMAIN merged /\ merged[n].path = path
  BY DEF Asked
<1>3. ASSUME Touched(grid, path) PROVE Asked(merged, path) # {}
  <2>1. PICK i \in DOMAIN grid : grid[i].path = path
    BY <1>3 DEF Touched
  <2> QED BY <1>1, <1>2, <1>3, <2>1
<1>4. ASSUME Asked(merged, path) # {}
      PROVE  /\ Touched(grid, path) /\ TargetAt(merged, path) = TextAt(grid, path)
             /\ TargetAt(merged, path) \in Seq(L) /\ ~Blank(TargetAt(merged, path))
  <2> DEFINE n == CHOOSE k \in Asked(merged, path) : TRUE
  <2>1. n \in Asked(merged, path)
    BY <1>4
  <2>2. TargetAt(merged, path) = merged[n].target
    BY DEF TargetAt
  <2> HIDE DEF n
  <2> QED BY <1>1, <1>2, <2>1, <2>2
<1> QED BY <1>3, <1>4

-----------------------------------------------------------------------------
(* What an export was made from *)

\* What the texts of a document's rows are made of.
Alphabet(doc) == IF doc.kind = "xliff" /\ Texts \subseteq Seq(Clean) THEN Clean ELSE Lexemes

GridOver(units, grid, L) ==
  grid \in Seq(GridRow({units[i].path : i \in DOMAIN units}, L)) /\ Together(grid)

\* The segmentation makes rows over the alphabet of the units, those of a unit together.
LEMMA BuiltIsOver ==
  ASSUME NEW L, NEW units, AreUnits(units, L), NEW mode, NEW rules
  PROVE  GridOver(units, BuildSegments(units, mode, rules), L)
<1> DEFINE N == Len(units)
           Row == GridRow({units[i].path : i \in DOMAIN units}, L)
           seqs == SegmentsOf(units, mode, rules)
           path == PathsOf(units)
           built == BuildSegments(units, mode, rules)
<1>1. seqs \in Seq(Seq(Row)) /\ ApartBy(path, seqs) /\ built = FlattenSeq(seqs)
  BY SegmentsAre
<1> HIDE DEF Row, seqs, path, built
<1>2. built \in Seq(Row)
  BY <1>1, FlattenType
<1>3. SameRows(built, FlattenSeq(seqs)) /\ DOMAIN built = 1..Len(built)
  BY <1>1, <1>2 DEF SameRows
<1>4. ASSUME NEW i \in DOMAIN built, NEW j \in DOMAIN built, NEW k \in DOMAIN built,
             i <= j, j <= k, built[i].path = built[k].path
      PROVE  built[j].path = built[i].path
  <2>1. ASSUME NEW l \in 1..Len(seqs) PROVE \E a : Placed(built, FlattenSeq(seqs), path[l], seqs[l], a)
    BY <1>1, <1>3, RowsArePlaced
  <2>2. \E l \in 1..Len(seqs) : built[i].path = path[l]
    <3>1. Len(seqs) # 0
      <4> SUFFICES ASSUME Len(seqs) = 0 PROVE FALSE
        OBVIOUS
      <4>1. seqs = <<>>
        BY <1>1
      <4>2. FlattenSeq(seqs) = <<>>
        BY <4>1 DEF FlattenSeq
      <4> QED BY <1>1, <4>2
    <3>2. 1 \in 1..Len(seqs)
      BY <1>1, <3>1
    <3> QED BY <1>1, <1>3, <3>2, RowsArePlaced
  <2>3. PICK l \in 1..Len(seqs) : built[i].path = path[l]
    BY <2>2
  <2>4. PICK a : Placed(built, FlattenSeq(seqs), path[l], seqs[l], a)
    BY <2>1
  <2>5. a \in Nat /\ {x \in DOMAIN built : built[x].path = path[l]} = a + 1..a + Len(seqs[l])
    BY <2>4 DEF Placed
  <2>6. i \in a + 1..a + Len(seqs[l]) /\ k \in a + 1..a + Len(seqs[l])
    BY <1>4, <2>3, <2>5
  <2>7. j \in a + 1..a + Len(seqs[l])
    <3>1. PICK m : m = Len(seqs[l])
      OBVIOUS
    <3>2. i \in Nat /\ j \in Nat /\ k \in Nat
      BY <1>3
    <3>3. seqs[l] \in Seq(Row)
      BY <1>1
    <3>4. m \in Nat
      BY <3>1, <3>3
    <3>5. j \in a + 1..a + m
      BY <1>4, <2>5, <2>6, <3>1, <3>2, <3>4
    <3> QED BY <3>1, <3>5
  <2>8. j \in {x \in DOMAIN built : built[x].path = path[l]}
    BY <2>5, <2>7
  <2> QED BY <2>3, <2>8
<1>5. Together(built)
  BY <1>4 DEF Together
<1> QED BY <1>2, <1>5 DEF GridOver, Row, built

\* What such a grid says of its rows, in words the exports use.
LEMMA GridIsOver ==
  ASSUME NEW L, NEW units, NEW grid, GridOver(units, grid, L)
  PROVE  /\ RowsOver(grid, L) /\ Together(grid)
         /\ \A i \in DOMAIN grid : \E k \in DOMAIN units : grid[i].path = units[k].path
<1> DEFINE P == {units[i].path : i \in DOMAIN units}
           Row == GridRow(P, L)
<1>1. grid \in Seq(Row) /\ Together(grid)
  BY DEF GridOver
<1>2. \A x \in Row : x.path \in P /\ x.gap \in Seq(L) /\ x.source \in Seq(L) /\ x.target \in Seq(L)
  BY DEF GridRow
<1> HIDE DEF Row
<1>3. Len(grid) \in Nat /\ DOMAIN grid = 1..Len(grid) /\ \A i \in DOMAIN grid : grid[i] \in Row
  BY <1>1
<1>4. \A i \in DOMAIN grid : grid[i].path \in P /\ grid[i].gap \in Seq(L) /\ grid[i].source \in Seq(L)
                             /\ grid[i].target \in Seq(L)
  BY <1>2, <1>3
<1> QED BY <1>1, <1>3, <1>4 DEF RowsOver

\* A translator who types over the alphabet leaves the grid over it.
LEMMA EditedIsOver ==
  ASSUME NEW L, NEW units, NEW grid, GridOver(units, grid, L), NEW i \in DOMAIN grid, NEW text \in Seq(L)
  PROVE  GridOver(units, [grid EXCEPT ![i].target = text], L)
<1> DEFINE P == {units[k].path : k \in DOMAIN units}
           Row == GridRow(P, L)
           new == [grid EXCEPT ![i].target = text]
<1>1. grid \in Seq(Row) /\ Together(grid)
  BY DEF GridOver
<1>2. \A x \in Row : [x EXCEPT !.target = text] \in Row /\ [x EXCEPT !.target = text].path = x.path
  BY DEF GridRow
<1> HIDE DEF Row, P
<1>3. Len(grid) \in Nat /\ DOMAIN grid = 1..Len(grid) /\ \A k \in DOMAIN grid : grid[k] \in Row
  BY <1>1
<1>4. new = [k \in 1..Len(grid) |-> IF k = i THEN [grid[k] EXCEPT !.target = text] ELSE grid[k]]
  BY <1>3
<1> HIDE DEF new
<1>5. \A k \in 1..Len(grid) : new[k] \in Row /\ new[k].path = grid[k].path
  BY <1>2, <1>3, <1>4
<1>6. new \in Seq(Row) /\ DOMAIN new = DOMAIN grid
  <2>1. new = [k \in 1..Len(grid) |-> new[k]]
    BY <1>4
  <2> QED BY <1>3, <1>5, <2>1
<1>7. Together(new)
  BY <1>1, <1>3, <1>5, <1>6 DEF Together
<1> QED BY <1>6, <1>7 DEF GridOver, new, Row, P

-----------------------------------------------------------------------------
\* No character that an entity stands for is a tag or an entity itself.
LEMMA CharactersAreClean ==
  ASSUME NEW name \in DOMAIN Entities
  PROVE  Entities[name] \in Clean
<1>1. Entities[name] \in Lexemes
  BY DEF Lexemes
<1>2. name \in {"amp", "lt", "gt", "quot"}
  BY DEF Entities
<1>3. Entities[name] \notin Tags
  <2>1. Entities["amp"] \notin Tags /\ Entities["lt"] \notin Tags /\ Entities["gt"] \notin Tags
    BY DEF Entities, Tags
  <2>2. Entities["quot"] \notin Tags
    BY SMT DEF Entities, Tags
  <2> QED BY <1>2, <2>1, <2>2
<1>4. EntityNames = {"&amp;", "&lt;", "&gt;", "&quot;"}
  BY DEF EntityNames, Entity, Entities
<1>5. Entities[name] \notin EntityNames
  <2>1. Entities["amp"] \notin EntityNames /\ Entities["lt"] \notin EntityNames /\ Entities["gt"] \notin EntityNames
    BY <1>4 DEF Entities
  <2>2. Entities["quot"] \notin EntityNames
    BY <1>4 DEF Entities
  <2> QED BY <1>2, <2>1, <2>2
<1> QED BY <1>1, <1>3, <1>5 DEF Clean

\* Decoded text that holds no tag holds no entity either.
LEMMA DecodedClean ==
  ASSUME NEW s \in Seq(Lexemes), \A i \in DOMAIN s : s[i] \notin Tags
  PROVE  Decoded(s) \in Seq(Clean)
<1> DEFINE found(i) == \E name \in DOMAIN Entities : Entity(name) = s[i]
           of(i) == CHOOSE name \in DOMAIN Entities : Entity(name) = s[i]
           at(i) == IF found(i) THEN Entities[of(i)] ELSE s[i]
<1>1. Decoded(s) = [i \in DOMAIN s |-> at(i)]
  BY DEF Decoded
<1>2. DOMAIN s = 1..Len(s) /\ Len(s) \in Nat /\ \A i \in 1..Len(s) : s[i] \in Lexemes /\ s[i] \notin Tags
  OBVIOUS
<1>3. ASSUME NEW i \in 1..Len(s) PROVE at(i) \in Clean
  <2>1. CASE found(i)
    <3>1. of(i) \in DOMAIN Entities
      BY <2>1
    <3> QED BY <2>1, <3>1, CharactersAreClean
  <2>2. CASE ~found(i)
    <3>1. s[i] \notin EntityNames
      BY <2>2 DEF EntityNames
    <3> QED BY <1>2, <2>2, <3>1 DEF Clean
  <2> QED BY <2>1, <2>2
<1> HIDE DEF at
<1> QED BY <1>1, <1>2, <1>3

\* What is kept of a sequence is in it, at a position that is kept.
LEMMA KeptIn ==
  ASSUME NEW s, NEW I, NEW n, Within(I, n)
  PROVE  \A k \in DOMAIN Kept(s, I) : \E i \in I : Kept(s, I)[k] = s[i]
<1> DEFINE order == InOrder(I)
           N == Cardinality(I)
<1>1. Ascending(order, N, I)
  BY InOrderAscends
<1>2. Kept(s, I) = [k \in DOMAIN order |-> s[order[k]]]
  BY DEF Kept
<1> HIDE DEF order, N
<1>3. order \in [1..N -> I]
  BY <1>1 DEF Ascending
<1> QED BY <1>2, <1>3

\* The text of an inline content is free of tags and entities.
LEMMA InlineTextClean ==
  ASSUME NEW content \in Seq(STRING)
  PROVE  InlineText(content) \in Seq(Clean)
<1> DEFINE I == {i \in DOMAIN content : content[i] \notin Tags}
           kept == Kept(content, I)
<1>1. content \in Seq(Lexemes) /\ DOMAIN content = 1..Len(content) /\ Len(content) \in Nat
  BY AsLexemes
<1>2. I \in SUBSET (DOMAIN content) /\ \A i \in I : content[i] \notin Tags
  OBVIOUS
<1>3. InlineText(content) = Decoded(kept)
  BY DEF InlineText
<1> HIDE DEF I
<1>4. kept \in Seq(Lexemes)
  BY <1>1, <1>2, KeptType
<1>5. Within(I, Len(content))
  BY <1>1, <1>2 DEF Within
<1>6. \A k \in DOMAIN kept : kept[k] \notin Tags
  <2> SUFFICES ASSUME NEW k \in DOMAIN kept PROVE kept[k] \notin Tags
    OBVIOUS
  <2>1. PICK i \in I : kept[k] = content[i]
    BY <1>5, KeptIn
  <2> QED BY <1>2, <2>1
<1> HIDE DEF kept
<1> QED BY <1>3, <1>4, <1>6, DecodedClean

\* The units of a document are over its alphabet,
LEMMA AlphabetUnits ==
  ASSUME NEW doc, IsDocument(doc)
  PROVE  AreUnits(Units(doc), Alphabet(doc))
<1>1. CASE ~(doc.kind = "xliff" /\ Texts \subseteq Seq(Clean))
  <2>1. Alphabet(doc) = Lexemes
    BY <1>1 DEF Alphabet
  <2> QED BY <2>1, FileUnitsAre
<1>2. CASE doc.kind = "xliff" /\ Texts \subseteq Seq(Clean)
  <2> DEFINE R == [source : Seq(STRING), form : {"none", "empty", "pair"},
                   inner : Seq(STRING), beside : Seq(STRING)]
             body == doc.body
             units == Units(doc)
  <2>1. Alphabet(doc) = Clean
    BY <1>2 DEF Alphabet
  <2>2. body \in Seq(R)
    BY <1>2 DEF IsDocument
  <2>3. \A x \in R : x.source \in Seq(STRING) /\ x.inner \in Seq(STRING)
    OBVIOUS
  <2>4. units = XliffUnits(body)
    BY <1>2 DEF Units
  <2>5. AreUnits(units, Lexemes)
    BY FileUnitsAre
  <2> HIDE DEF R, units, body
  <2>6. DOMAIN units = DOMAIN body /\ \A k \in DOMAIN body : body[k] \in R
    BY <2>2, <2>4 DEF XliffUnits
  <2>7. ASSUME NEW k \in DOMAIN units PROVE units[k].source \in Seq(Clean) /\ units[k].target \in Seq(Clean)
    <3>1. body[k].source \in Seq(STRING) /\ body[k].inner \in Seq(STRING)
      BY <2>3, <2>6
    <3>2. InlineText(body[k].source) \in Seq(Clean)
      BY <3>1, InlineTextClean
    <3>3. InlineText(body[k].inner) \in Seq(Clean)
      BY <3>1, InlineTextClean
    <3>4. units[k].source = InlineText(body[k].source) /\ units[k].target = InlineText(body[k].inner)
      BY <2>4, <2>6 DEF XliffUnits
    <3> QED BY <3>2, <3>3, <3>4
  <2>8. AreUnits(units, Clean)
    BY <2>5, <2>7 DEF AreUnits
  <2> QED BY <2>1, <2>8 DEF units
<1> QED BY <1>1, <1>2

\* and so is what a translator types.
LEMMA TextsInAlphabet ==
  ASSUME DocumentsAssumption, NEW doc, NEW text \in Texts
  PROVE  text \in Seq(Alphabet(doc))
<1>1. text \in Seq(STRING)
  BY DEF DocumentsAssumption
<1>2. text \in Seq(Lexemes)
  BY <1>1, AsLexemes
<1> QED BY <1>2 DEF Alphabet

(***************************************************************************)
(* The rows always are texts of the document's units, what is staged was   *)
(* written from them, and the file at the destination, once it is not what *)
(* was there before, from the rows that were sent.                         *)
(***************************************************************************)
FileOf(doc, grid, anchors) ==
  WrittenFile(doc, MergeForExport(grid), IF anchors THEN {grid[i].path : i \in DOMAIN grid} ELSE {})

ExportOf(doc, grid, file) == file # NotWritten /\ \E anchors \in BOOLEAN : file = FileOf(doc, grid, anchors)

GridFor(doc, grid) == IsDocument(doc) /\ GridOver(Units(doc), grid, Alphabet(doc))

ExportInv ==
  /\ copy # Absent => GridFor(copy, rows)
  /\ staged # Absent => copy # Absent /\ ExportOf(copy, rows, staged)
  /\ output \notin {Absent, Foreign} => copy # Absent /\ GridFor(copy, sent) /\ ExportOf(copy, sent, output)

\* Import, edit, export and rename keep the invariant.
LEMMA ExportKept ==
  ASSUME DocumentsAssumption, ExportInv, [DocumentsNext]_vars
  PROVE  ExportInv'
<1>1. ASSUME NEW file \in Files, NEW mode \in {"paragraph", "sentence"}, NEW rules \in Rules,
             Import(file, mode, rules)
      PROVE  ExportInv'
  <2>1. /\ copy = Absent /\ copy' = file /\ rows' = BuildSegments(Units(file), mode, rules)
        /\ staged' = staged /\ output' = output
    BY <1>1 DEF Import
  <2>2. IsDocument(file)
    BY DEF DocumentsAssumption
  <2>3. GridOver(Units(file), BuildSegments(Units(file), mode, rules), Alphabet(file))
    BY <2>2, AlphabetUnits, BuiltIsOver
  <2>4. staged = Absent /\ output \in {Absent, Foreign}
    BY <2>1 DEF ExportInv
  <2>5. GridFor(copy', rows')
    BY <2>1, <2>2, <2>3 DEF GridFor
  <2> QED BY <2>1, <2>4, <2>5 DEF ExportInv
<1>2. ASSUME staged = Absent, NEW i \in DOMAIN rows, NEW text \in Texts, Edit(i, text)
      PROVE  ExportInv'
  <2>1. /\ rows' = [rows EXCEPT ![i].target = text] /\ copy' = copy
        /\ staged' = staged /\ output' = output /\ sent' = sent
    BY <1>2 DEF Edit
  <2>2. ASSUME copy # Absent PROVE GridFor(copy, rows')
    <3>1. IsDocument(copy) /\ GridOver(Units(copy), rows, Alphabet(copy))
      BY <2>2 DEF ExportInv, GridFor
    <3>2. text \in Seq(Alphabet(copy))
      BY TextsInAlphabet
    <3>3. GridOver(Units(copy), [rows EXCEPT ![i].target = text], Alphabet(copy))
      BY <3>1, <3>2, EditedIsOver
    <3> QED BY <2>1, <3>1, <3>3 DEF GridFor
  <2> QED BY <1>2, <2>1, <2>2 DEF ExportInv
<1>3. ASSUME NEW overwrite \in BOOLEAN, NEW anchors \in BOOLEAN, Export(overwrite, anchors)
      PROVE  ExportInv'
  <2>1. copy # Absent /\ staged = Absent /\ GridFor(copy, rows)
    BY <1>3 DEF Export, ExportInv
  <2>2. CASE UNCHANGED <<copy, rows, output, staged, sent>>
    BY <2>2 DEF ExportInv
  <2>3. CASE Result(anchors) # NotWritten /\ Publish(Result(anchors))
    <3>1. ExportOf(copy, rows, Result(anchors))
      BY <2>3 DEF ExportOf, FileOf, Result, Paths
    <3>2. CASE Fails("failed")
      BY <2>2, <3>2 DEF Fails
    <3>3. CASE output' = Result(anchors) /\ sent' = rows /\ UNCHANGED <<copy, rows, staged>>
      BY <2>1, <3>1, <3>3 DEF ExportInv
    <3>4. CASE staged' = Result(anchors) /\ UNCHANGED <<copy, rows, output, sent>>
      BY <2>1, <3>1, <3>4 DEF ExportInv
    <3> QED BY <2>3, <3>2, <3>3, <3>4 DEF Publish
  <2>4. \/ UNCHANGED <<copy, rows, output, staged, sent>>
        \/ Result(anchors) # NotWritten /\ Publish(Result(anchors))
    BY <1>3 DEF Export, Fails
  <2> QED BY <2>2, <2>3, <2>4
<1>4. ASSUME Rename PROVE ExportInv'
  <2>1. staged # Absent /\ staged' = Absent /\ copy' = copy /\ rows' = rows
        /\ ((output' = staged /\ sent' = rows) \/ (output' = output /\ sent' = sent))
    BY <1>4 DEF Rename
  <2>2. copy # Absent /\ GridFor(copy, rows) /\ ExportOf(copy, rows, staged)
    BY <2>1 DEF ExportInv
  <2> QED BY <2>1, <2>2 DEF ExportInv
<1>5. ASSUME UNCHANGED vars PROVE ExportInv'
  BY <1>5 DEF vars, ExportInv
<1> QED BY <1>1, <1>2, <1>3, <1>4, <1>5 DEF DocumentsNext

(***************************************************************************)
(* So whenever a file was exported, it was made of rows of this document,  *)
(* whatever was imported, typed, exported and renamed before.              *)
(***************************************************************************)
THEOREM ExportAlways == DocumentsSpec => []ExportInv
<1>1. DocumentsInit => ExportInv
  BY DEF DocumentsInit, ExportInv
<1>2. ExportInv /\ [DocumentsNext]_vars => ExportInv'
  BY DocumentsAssumption, ExportKept
<1> QED BY <1>1, <1>2, PTL DEF DocumentsSpec

-----------------------------------------------------------------------------
(* What export makes of a paragraph, a cell or a table row *)

Asks(merged, L) ==
  \A k \in DOMAIN merged : /\ merged[k] = [path |-> merged[k].path, target |-> merged[k].target]
                           /\ merged[k].target \in Seq(L)

\* A path that is asked for has a text,
LEMMA AskedTarget ==
  ASSUME NEW L, NEW merged, Asks(merged, L), NEW path, Asked(merged, path) # {}
  PROVE  TargetAt(merged, path) \in Seq(L)
<1> DEFINE n == CHOOSE k \in Asked(merged, path) : TRUE
<1>1. n \in Asked(merged, path)
  OBVIOUS
<1>2. TargetAt(merged, path) = merged[n].target
  BY DEF TargetAt
<1> HIDE DEF n
<1>3. n \in DOMAIN merged
  BY <1>1 DEF Asked
<1> QED BY <1>2, <1>3 DEF Asks

\* and the merged rows ask for texts over the alphabet.
LEMMA MergeAsks ==
  ASSUME NEW L, NEW grid, NEW merged, Merges(grid, merged, L)
  PROVE  Asks(merged, L)
BY DEF Merges, Asks

\* The nodes at a path once its translation, if there is one, is written.
Laid(nodes, merged, path) ==
  IF Asked(merged, path) = {} THEN nodes ELSE Rewritten(nodes, TargetAt(merged, path))

Marked(nodes, merged, path, anchors) ==
  IF path \in anchors THEN Anchored(Laid(nodes, merged, path)) ELSE Laid(nodes, merged, path)

\* What a paragraph is laid over with keeps its nodes.
LEMMA LaidIs ==
  ASSUME NEW L, NEW nodes \in NodesOver(L), NEW merged, Asks(merged, L), NEW path, NEW anchors
  PROVE  /\ Laid(nodes, merged, path) \in NodesOver(L)
         /\ Bare(Laid(nodes, merged, path)) = Bare(nodes)
         /\ Bare(Marked(nodes, merged, path, anchors)) = Bare(nodes)
<1>1. Laid(nodes, merged, path) \in NodesOver(L) /\ Bare(Laid(nodes, merged, path)) = Bare(nodes)
  <2>1. CASE Asked(merged, path) = {}
    BY <2>1 DEF Laid
  <2>2. CASE Asked(merged, path) # {}
    <3>1. TargetAt(merged, path) \in Seq(L)
      BY <2>2, AskedTarget
    <3>2. Laid(nodes, merged, path) = Rewritten(nodes, TargetAt(merged, path))
      BY <2>2 DEF Laid
    <3> QED BY <3>1, <3>2, RewrittenIs, BareRewritten
  <2> QED BY <2>1, <2>2
<1>2. Bare(Anchored(Laid(nodes, merged, path))) = Bare(Laid(nodes, merged, path))
  BY <1>1, BareAnchored
<1> QED BY <1>1, <1>2 DEF Marked

\* Nodes as the model has them are nodes over the lexemes.
LEMMA NodesWiden ==
  ASSUME NEW nodes \in Nodes
  PROVE  nodes \in NodesOver(Lexemes)
<1> DEFINE R == [kind : STRING, fmt : STRING, text : Seq(STRING)]
<1>1. ASSUME NEW x \in R PROVE x \in NodeOver(Lexemes)
  <2>1. x = [kind |-> x.kind, fmt |-> x.fmt, text |-> x.text] /\ x.kind \in STRING /\ x.fmt \in STRING
        /\ x.text \in Seq(STRING)
    OBVIOUS
  <2>2. x.text \in Seq(Lexemes)
    BY <2>1, AsLexemes
  <2> QED BY <2>1, <2>2 DEF NodeOver
<1>2. nodes \in Seq(R)
  BY DEF Nodes
<1> DEFINE T == NodeOver(Lexemes)
<1>3. \A x \in R : x \in T
  BY <1>1
<1> HIDE DEF R, T
<1>4. nodes \in Seq(T)
  BY <1>2, <1>3
<1> QED BY <1>4 DEF T, NodesOver

(***************************************************************************)
(* DOCX and PPTX: the parts and their paragraphs.                          *)
(***************************************************************************)
LEMMA PartsAre ==
  ASSUME NEW doc, NEW merged, NEW anchors, doc = [kind |-> doc.kind, body |-> doc.body],
         DocumentWritten(doc, merged, anchors) # NotWritten
  PROVE  DocumentWritten(doc, merged, anchors) =
           [kind |-> doc.kind,
            body |-> [n \in DOMAIN doc.body |-> [i \in DOMAIN doc.body[n] |->
                        Marked(doc.body[n][i], merged, PartPath(doc, n, i), anchors)]]]
<1> DEFINE body == [n \in DOMAIN doc.body |-> [i \in DOMAIN doc.body[n] |->
                        Marked(doc.body[n][i], merged, PartPath(doc, n, i), anchors)]]
<1>1. DocumentWritten(doc, merged, anchors) = [doc EXCEPT !.body = body]
  BY DEF DocumentWritten, Marked, Laid
<1> HIDE DEF body
<1>2. [doc EXCEPT !.body = body] = [kind |-> doc.kind, body |-> body]
  OBVIOUS
<1> QED BY <1>1, <1>2 DEF body

\* An exported part has the bones it had.
LEMMA PartsKeepBones ==
  ASSUME NEW L, NEW doc, NEW merged, NEW anchors, doc = [kind |-> doc.kind, body |-> doc.body],
         doc.kind \in {"docx", "pptx"}, Asks(merged, L),
         \A n \in DOMAIN doc.body : \A i \in DOMAIN doc.body[n] : doc.body[n][i] \in NodesOver(L),
         DocumentWritten(doc, merged, anchors) # NotWritten
  PROVE  Bones(DocumentWritten(doc, merged, anchors)) = Bones(doc)
<1> DEFINE out == DocumentWritten(doc, merged, anchors)
<1>1. out = [kind |-> doc.kind,
             body |-> [n \in DOMAIN doc.body |-> [i \in DOMAIN doc.body[n] |->
                         Marked(doc.body[n][i], merged, PartPath(doc, n, i), anchors)]]]
  BY PartsAre
<1> HIDE DEF out
<1>2. out.kind = doc.kind /\ DOMAIN out.body = DOMAIN doc.body
  BY <1>1
<1>3. ASSUME NEW n \in DOMAIN doc.body
      PROVE  [i \in DOMAIN out.body[n] |-> Bare(out.body[n][i])]
                 = [i \in DOMAIN doc.body[n] |-> Bare(doc.body[n][i])]
  <2>1. DOMAIN out.body[n] = DOMAIN doc.body[n]
        /\ \A i \in DOMAIN doc.body[n] :
             out.body[n][i] = Marked(doc.body[n][i], merged, PartPath(doc, n, i), anchors)
    BY <1>1
  <2>2. \A i \in DOMAIN doc.body[n] : Bare(out.body[n][i]) = Bare(doc.body[n][i])
    BY <2>1, LaidIs
  <2> QED BY <2>1, <2>2
<1>4. Bones(out) = [n \in DOMAIN out.body |-> [i \in DOMAIN out.body[n] |-> Bare(out.body[n][i])]]
  BY <1>2 DEF Bones
<1>5. Bones(doc) = [n \in DOMAIN doc.body |-> [i \in DOMAIN doc.body[n] |-> Bare(doc.body[n][i])]]
  BY DEF Bones
<1> QED BY <1>2, <1>3, <1>4, <1>5 DEF out

-----------------------------------------------------------------------------
(* XLSX: a cell reads its own nodes, or a shared string, possibly a clone *)

\* A workbook whose texts are over an alphabet.
BookOver(book, L) ==
  /\ book.shared \in Seq(NodesOver(L))
  /\ Len(book.cells) \in Nat /\ DOMAIN book.cells = 1..Len(book.cells)
  /\ \A i \in DOMAIN book.cells :
       /\ book.cells[i] = Cell(book.cells[i].kind, book.cells[i].index, book.cells[i].nodes)
       /\ \/ book.cells[i].kind = "shared" /\ book.cells[i].index \in DOMAIN book.shared
          \/ book.cells[i].kind = "inline" /\ book.cells[i].nodes \in NodesOver(L)
          \/ book.cells[i].kind = "formula"

\* A workbook of the model is one over the lexemes.
LEMMA BooksAre ==
  ASSUME NEW book, IsBook(book)
  PROVE  BookOver(book, Lexemes)
<1> DEFINE shared == book.shared
           T == NodesOver(Lexemes)
<1>1. shared \in Seq(Nodes)
  BY DEF IsBook
<1>2. \A x \in Nodes : x \in T
  BY NodesWiden
<1> HIDE DEF shared, T
<1>3. shared \in Seq(T)
  <2> DEFINE N == Nodes
  <2>1. shared \in Seq(N) /\ \A x \in N : x \in T
    BY <1>1, <1>2
  <2> HIDE DEF N
  <2> QED BY <2>1
<1> QED BY <1>2, <1>3 DEF IsBook, IsCell, BookOver, shared, T

\* A shared string read by another cell is cloned before it is changed.
LEMMA ClonesAre ==
  ASSUME NEW L, NEW book, BookOver(book, L), NEW merged, Asks(merged, L)
  PROVE  /\ Clones(book, merged) \in Seq(NodesOver(L))
         /\ \A i \in DOMAIN book.cells :
              Asked(merged, i) # {} /\ book.cells[i].kind = "shared" =>
                \E k \in DOMAIN SharedCells(book, merged) : SharedCells(book, merged)[k] = i
         /\ \A k \in DOMAIN SharedCells(book, merged) :
              LET i == SharedCells(book, merged)[k]
              IN  /\ k \in 1..Len(Clones(book, merged))
                  /\ Clones(book, merged)[k] = Rewritten(book.shared[book.cells[i].index], TargetAt(merged, i))
<1> DEFINE n == Len(book.cells)
           cells == book.cells
           shared == book.shared
           I == {i \in DOMAIN cells : Asked(merged, i) # {} /\ cells[i].kind = "shared"}
           asked == InOrder(I)
           C == Cardinality(I)
           clones == Clones(book, merged)
           T == NodesOver(L)
<1>1. n \in Nat /\ DOMAIN cells = 1..n /\ shared \in Seq(T)
  BY DEF BookOver
<1>2. SharedCells(book, merged) = asked
  BY DEF SharedCells
<1>3. clones = [k \in DOMAIN asked |-> Rewritten(shared[cells[asked[k]].index], TargetAt(merged, asked[k]))]
  BY <1>2 DEF Clones
<1>4. \A i \in I : cells[i].index \in DOMAIN shared
  BY DEF BookOver
<1>5. \A i : i \in I <=> i \in 1..n /\ Asked(merged, i) # {} /\ cells[i].kind = "shared"
  BY <1>1
<1> HIDE DEF n, cells, shared, clones, T, I
<1>6. Within(I, n)
  BY <1>1, <1>5 DEF Within
<1>7. Ascending(asked, C, I)
  BY <1>6, InOrderAscends
<1> HIDE DEF asked, C
<1>8. /\ C \in Nat /\ asked \in [1..C -> I] /\ \A x \in I : \E k \in 1..C : asked[k] = x
  BY <1>7 DEF Ascending
<1>9. clones = [k \in 1..C |-> Rewritten(shared[cells[asked[k]].index], TargetAt(merged, asked[k]))]
  BY <1>3, <1>8
<1>10. ASSUME NEW k \in 1..C PROVE clones[k] \in T
  <2>1. asked[k] \in I
    BY <1>8
  <2>2. shared[cells[asked[k]].index] \in NodesOver(L)
    BY <1>1, <1>4, <2>1 DEF T
  <2>3. TargetAt(merged, asked[k]) \in Seq(L)
    BY <1>5, <2>1, AskedTarget
  <2> QED BY <1>9, <2>2, <2>3, RewrittenIs DEF T
<1>11. clones \in Seq(T) /\ Len(clones) = C
  <2>1. clones \in [1..C -> T]
    BY <1>9, <1>10
  <2> QED BY <1>8, <2>1
<1>12. \A i \in DOMAIN cells : Asked(merged, i) # {} /\ cells[i].kind = "shared" => \E k \in DOMAIN asked : asked[k] = i
  BY <1>1, <1>5, <1>8
<1>13. \A k \in DOMAIN asked : k \in 1..Len(clones)
         /\ clones[k] = Rewritten(shared[cells[asked[k]].index], TargetAt(merged, asked[k]))
  BY <1>8, <1>9, <1>11
<1> QED BY <1>2, <1>11, <1>12, <1>13 DEF T, clones, cells, shared

\* Every cell reads what it read, with its translation laid in.
LEMMA CellsAreLaid ==
  ASSUME NEW L, NEW book, BookOver(book, L), NEW merged, Asks(merged, L),
         \A k \in DOMAIN merged : merged[k].path \in Editable(book)
  PROVE  /\ DOMAIN XlsxWritten(book, merged).cells = DOMAIN book.cells
         /\ \A i \in DOMAIN book.cells :
              /\ XlsxWritten(book, merged).cells[i].kind = book.cells[i].kind
              /\ book.cells[i].kind = "formula" => XlsxWritten(book, merged).cells[i] = book.cells[i]
              /\ book.cells[i].kind # "formula" =>
                    CellNodes(XlsxWritten(book, merged), XlsxWritten(book, merged).cells[i])
                      = Laid(CellNodes(book, book.cells[i]), merged, i)
<1> DEFINE out == XlsxWritten(book, merged)
           asked == SharedCells(book, merged)
           clones == Clones(book, merged)
           index(i) == NewIndex(book, CHOOSE k \in DOMAIN asked : asked[k] = i)
           T == NodesOver(L)
           shared == book.shared
<1>1. /\ out.shared = shared \o clones
      /\ DOMAIN out.cells = DOMAIN book.cells
      /\ \A i \in DOMAIN book.cells :
           out.cells[i] = IF Asked(merged, i) = {} THEN book.cells[i]
                          ELSE IF book.cells[i].kind = "inline"
                               THEN [book.cells[i] EXCEPT !.nodes = Rewritten(@, TargetAt(merged, i))]
                          ELSE [book.cells[i] EXCEPT !.index = index(i)]
  BY DEF XlsxWritten
<1>2. shared \in Seq(T)
  BY DEF BookOver
<1>3. clones \in Seq(T)
  BY ClonesAre
<1> HIDE DEF out, clones, T, shared
<1>4. /\ \A x \in DOMAIN shared : out.shared[x] = shared[x]
      /\ \A x \in 1..Len(clones) : out.shared[Len(shared) + x] = clones[x]
  <2>1. PICK s : s = shared
    OBVIOUS
  <2>2. PICK a \in Nat : a = Len(s)
    BY <1>2, <2>1
  <2>3. PICK b \in Nat : b = Len(clones)
    BY <1>3
  <2>4. \A x \in 1..(a + b) : (s \o clones)[x] = IF x <= a THEN s[x] ELSE clones[x - a]
    BY <1>2, <1>3, <2>1, <2>2, <2>3, ConcatProperties
  <2>5. \A x \in 1..a : x \in 1..(a + b) /\ x <= a
    OBVIOUS
  <2>6. \A x \in 1..b : a + x \in 1..(a + b) /\ ~(a + x <= a) /\ (a + x) - a = x
    OBVIOUS
  <2>7. DOMAIN s = 1..a
    BY <1>2, <2>1, <2>2
  <2>8. out.shared = s \o clones
    BY <1>1, <2>1
  <2> QED BY <2>1, <2>2, <2>3, <2>4, <2>5, <2>6, <2>7, <2>8
<1>5. ASSUME NEW i \in DOMAIN book.cells
      PROVE  /\ out.cells[i].kind = book.cells[i].kind
             /\ book.cells[i].kind = "formula" => out.cells[i] = book.cells[i]
             /\ book.cells[i].kind # "formula" =>
                  CellNodes(out, out.cells[i]) = Laid(CellNodes(book, book.cells[i]), merged, i)
  <2> DEFINE cell == book.cells[i]
  <2>1. /\ cell = Cell(cell.kind, cell.index, cell.nodes)
        /\ \/ cell.kind = "shared" /\ cell.index \in DOMAIN shared
           \/ cell.kind = "inline"
           \/ cell.kind = "formula"
    BY DEF BookOver, shared
  <2>2. /\ Asked(merged, i) = {} => out.cells[i] = cell
        /\ Asked(merged, i) # {} /\ cell.kind = "inline" =>
              out.cells[i] = [cell EXCEPT !.nodes = Rewritten(@, TargetAt(merged, i))]
        /\ Asked(merged, i) # {} /\ cell.kind # "inline" => out.cells[i] = [cell EXCEPT !.index = index(i)]
    BY <1>1
  <2>3. Asked(merged, i) # {} => cell.kind # "formula"
    BY DEF Asked, Editable
  <2>4. cell.kind = "shared" /\ Asked(merged, i) # {} =>
          out.shared[index(i)] = Rewritten(shared[cell.index], TargetAt(merged, i))
    <3> SUFFICES ASSUME cell.kind = "shared", Asked(merged, i) # {}
                 PROVE  out.shared[index(i)] = Rewritten(shared[cell.index], TargetAt(merged, i))
      OBVIOUS
    <3> DEFINE k == CHOOSE x \in DOMAIN asked : asked[x] = i
    <3>1. \E x \in DOMAIN asked : asked[x] = i
      BY ClonesAre
    <3>2. k \in DOMAIN asked /\ asked[k] = i
      BY <3>1
    <3>3. index(i) = Len(shared) + k
      BY DEF NewIndex, shared
    <3> HIDE DEF k, index
    <3>4. k \in 1..Len(clones) /\ clones[k] = Rewritten(shared[cell.index], TargetAt(merged, i))
      BY <3>2, ClonesAre DEF clones, shared
    <3> QED BY <1>4, <3>3, <3>4
  <2>5. CellNodes(book, cell) = IF cell.kind = "shared" THEN shared[cell.index] ELSE cell.nodes
    BY DEF CellNodes, shared
  <2> HIDE DEF cell, index, asked
  <2>6. CASE Asked(merged, i) = {}
    <3>1. out.cells[i] = cell
      BY <2>2, <2>6
    <3>2. CellNodes(out, cell) = IF cell.kind = "shared" THEN out.shared[cell.index] ELSE cell.nodes
      BY DEF CellNodes
    <3>3. cell.kind # "formula" => CellNodes(out, cell) = CellNodes(book, cell)
      BY <1>4, <2>1, <2>5, <3>2
    <3> QED BY <2>6, <3>1, <3>3 DEF Laid, cell
  <2>7. CASE Asked(merged, i) # {} /\ cell.kind = "inline"
    <3>1. out.cells[i] = [kind |-> "inline", index |-> cell.index, nodes |-> Rewritten(cell.nodes, TargetAt(merged, i))]
      BY <2>1, <2>2, <2>7 DEF Cell
    <3>2. CellNodes(out, out.cells[i]) = Rewritten(cell.nodes, TargetAt(merged, i))
      BY <3>1 DEF CellNodes
    <3> QED BY <2>5, <2>7, <3>1, <3>2 DEF Laid, cell
  <2>8. CASE Asked(merged, i) # {} /\ cell.kind = "shared"
    <3>1. out.cells[i] = [kind |-> "shared", index |-> index(i), nodes |-> cell.nodes]
      BY <2>1, <2>2, <2>8 DEF Cell
    <3>2. CellNodes(out, out.cells[i]) = out.shared[index(i)]
      BY <3>1 DEF CellNodes
    <3> QED BY <2>4, <2>5, <2>8, <3>1, <3>2 DEF Laid, cell
  <2> QED BY <2>1, <2>3, <2>6, <2>7, <2>8
<1> QED BY <1>1, <1>5 DEF out

\* An exported workbook has the bones it had, cell by cell.
LEMMA BooksKeepBones ==
  ASSUME NEW L, NEW doc, doc = [kind |-> doc.kind, body |-> doc.body], BookOver(doc.body, L),
         doc.kind \in {"xlsx", "bilingual-xlsx"}, NEW merged, Asks(merged, L),
         XlsxExport(doc, merged) # NotWritten
  PROVE  /\ XlsxExport(doc, merged) = [kind |-> doc.kind, body |-> XlsxWritten(doc.body, merged)]
         /\ \A k \in DOMAIN merged : merged[k].path \in Editable(doc.body)
         /\ Bones(XlsxExport(doc, merged)) = Bones(doc)
<1> DEFINE out == XlsxExport(doc, merged)
           book == doc.body
           new == XlsxWritten(book, merged)
<1>1. AllApplied(merged, Editable(book)) /\ out = [doc EXCEPT !.body = new]
  BY DEF XlsxExport
<1>2. \A k \in DOMAIN merged : merged[k].path \in Editable(book)
  BY <1>1 DEF AllApplied
<1>3. /\ DOMAIN new.cells = DOMAIN book.cells
      /\ \A i \in DOMAIN book.cells :
           /\ new.cells[i].kind = book.cells[i].kind
           /\ book.cells[i].kind = "formula" => new.cells[i] = book.cells[i]
           /\ book.cells[i].kind # "formula" =>
                CellNodes(new, new.cells[i]) = Laid(CellNodes(book, book.cells[i]), merged, i)
  BY <1>2, CellsAreLaid
<1>4. \A i \in DOMAIN book.cells : book.cells[i].kind # "formula" => CellNodes(book, book.cells[i]) \in NodesOver(L)
  <2> SUFFICES ASSUME NEW i \in DOMAIN book.cells, book.cells[i].kind # "formula"
               PROVE  CellNodes(book, book.cells[i]) \in NodesOver(L)
    OBVIOUS
  <2> DEFINE T == NodesOver(L)
             shared == book.shared
  <2>1. shared \in Seq(T)
    BY DEF BookOver
  <2> HIDE DEF T
  <2>2. \A x \in DOMAIN shared : shared[x] \in T
    BY <2>1
  <2> QED BY <2>2 DEF BookOver, CellNodes, T
<1> HIDE DEF new, out
<1>5. out = [kind |-> doc.kind, body |-> new]
  BY <1>1
<1>6. ASSUME NEW i \in DOMAIN book.cells
      PROVE  (IF new.cells[i].kind = "formula" THEN new.cells[i].nodes ELSE Bare(CellNodes(new, new.cells[i])))
               = (IF book.cells[i].kind = "formula" THEN book.cells[i].nodes
                  ELSE Bare(CellNodes(book, book.cells[i])))
  <2>1. CASE book.cells[i].kind = "formula"
    BY <1>3, <2>1
  <2>2. CASE book.cells[i].kind # "formula"
    <3>1. CellNodes(new, new.cells[i]) = Laid(CellNodes(book, book.cells[i]), merged, i)
      BY <1>3, <2>2
    <3>2. CellNodes(book, book.cells[i]) \in NodesOver(L)
      BY <1>4, <2>2
    <3>3. Bare(Laid(CellNodes(book, book.cells[i]), merged, i)) = Bare(CellNodes(book, book.cells[i]))
      BY <3>2, LaidIs
    <3>4. new.cells[i].kind # "formula"
      BY <1>3, <2>2
    <3> QED BY <2>2, <3>1, <3>3, <3>4
  <2> QED BY <2>1, <2>2
<1>7. Bones(doc) = [i \in DOMAIN book.cells |->
                      IF book.cells[i].kind = "formula" THEN book.cells[i].nodes
                      ELSE Bare(CellNodes(book, book.cells[i]))]
  BY DEF Bones
<1>8. Bones(out) = [i \in DOMAIN new.cells |->
                      IF new.cells[i].kind = "formula" THEN new.cells[i].nodes
                      ELSE Bare(CellNodes(new, new.cells[i]))]
  BY <1>5 DEF Bones
<1> QED BY <1>2, <1>3, <1>5, <1>6, <1>7, <1>8 DEF out, new

-----------------------------------------------------------------------------
(* Bilingual tables and XLIFF *)

\* Only the second column of a bilingual table is written.
LEMMA TableIs ==
  ASSUME NEW doc, doc = [kind |-> doc.kind, body |-> doc.body], doc.body \in Seq(Seq(Nodes)),
         \A r \in DOMAIN doc.body : Len(doc.body[r]) = 2, NEW merged, NEW anchors,
         DocxTableExport(doc, merged, anchors) # NotWritten
  PROVE  \E body : /\ DocxTableExport(doc, merged, anchors) = [kind |-> doc.kind, body |-> body]
                   /\ DOMAIN body = DOMAIN doc.body
                   /\ \A r \in DOMAIN doc.body :
                        /\ doc.body[r][1] \in Nodes /\ doc.body[r][2] \in Nodes
                        /\ body[r][1] = doc.body[r][1]
                        /\ body[r][2] = Marked(doc.body[r][2], merged, r, anchors)
<1> DEFINE table == doc.body
           written(r) == IF Asked(merged, r) = {} THEN table[r]
                         ELSE [table[r] EXCEPT ![2] = Rewritten(@, TargetAt(merged, r))]
           marked(r) == IF r \in anchors THEN [written(r) EXCEPT ![2] = Anchored(@)] ELSE written(r)
           body == [r \in DOMAIN table |-> marked(r)]
           out == DocxTableExport(doc, merged, anchors)
<1>1. out = [doc EXCEPT !.body = body]
  BY DEF DocxTableExport
<1>2. ASSUME NEW r \in DOMAIN table
      PROVE  /\ table[r][1] \in Nodes /\ table[r][2] \in Nodes
             /\ marked(r)[1] = table[r][1] /\ marked(r)[2] = Marked(table[r][2], merged, r, anchors)
  <2> DEFINE N == Nodes
  <2>1. table[r] \in Seq(N) /\ Len(table[r]) = 2
    OBVIOUS
  <2> HIDE DEF N
  <2>2. PICK row : row = table[r]
    OBVIOUS
  <2>3. DOMAIN row = 1..2 /\ row[1] \in N /\ row[2] \in N
    BY <2>1, <2>2
  <2>4. DOMAIN written(r) = 1..2 /\ written(r)[1] = row[1] /\ written(r)[2] = Laid(row[2], merged, r)
    <3>1. CASE Asked(merged, r) = {}
      <4>1. written(r) = row
        BY <2>2, <3>1
      <4> QED BY <2>3, <3>1, <4>1 DEF Laid
    <3>2. CASE Asked(merged, r) # {}
      <4>1. written(r) = [row EXCEPT ![2] = Rewritten(@, TargetAt(merged, r))]
        BY <2>2, <3>2
      <4> HIDE DEF written
      <4>2. DOMAIN written(r) = 1..2 /\ written(r)[1] = row[1] /\ written(r)[2] = Rewritten(row[2], TargetAt(merged, r))
        BY <2>3, <4>1
      <4> QED BY <3>2, <4>2 DEF Laid
    <3> QED BY <3>1, <3>2
  <2> HIDE DEF written
  <2>5. marked(r)[1] = row[1] /\ marked(r)[2] = Marked(row[2], merged, r, anchors)
    <3>1. CASE r \notin anchors
      BY <2>4, <3>1 DEF Marked
    <3>2. CASE r \in anchors
      <4>1. marked(r) = [written(r) EXCEPT ![2] = Anchored(@)]
        BY <3>2
      <4> HIDE DEF marked
      <4>2. marked(r)[1] = written(r)[1] /\ marked(r)[2] = Anchored(written(r)[2])
        BY <2>4, <4>1
      <4> QED BY <2>4, <3>2, <4>2 DEF Marked
    <3> QED BY <3>1, <3>2
  <2> HIDE DEF marked
  <2> QED BY <2>2, <2>3, <2>5 DEF N
<1> HIDE DEF marked
<1>3. DOMAIN body = DOMAIN table /\ \A r \in DOMAIN table : body[r] = marked(r)
  OBVIOUS
<1> HIDE DEF body
<1>4. out = [kind |-> doc.kind, body |-> body]
  BY <1>1
<1>5. \A r \in DOMAIN table : /\ table[r][1] \in Nodes /\ table[r][2] \in Nodes
                              /\ body[r][1] = table[r][1]
                              /\ body[r][2] = Marked(table[r][2], merged, r, anchors)
  BY <1>2, <1>3
<1> HIDE DEF out
<1>6. \E x : /\ out = [kind |-> doc.kind, body |-> x] /\ DOMAIN x = DOMAIN table
             /\ \A r \in DOMAIN table : /\ table[r][1] \in Nodes /\ table[r][2] \in Nodes
                              /\ x[r][1] = table[r][1]
                              /\ x[r][2] = Marked(table[r][2], merged, r, anchors)
  BY <1>3, <1>4, <1>5
<1> QED BY <1>6 DEF out

\* The units of an exported file, their translations in place.
Translated(doc, merged, body) ==
  /\ XliffExport(doc, merged) = [kind |-> doc.kind, body |-> body]
  /\ DOMAIN body = DOMAIN doc.body
  /\ \A k \in DOMAIN doc.body :
       /\ body[k].source = doc.body[k].source
       /\ Asked(merged, k) = {} => body[k] = doc.body[k]
       /\ Asked(merged, k) # {} /\ doc.body[k].form # "empty" =>
            body[k].form = "pair"
            /\ body[k].inner = Rendered(Template(doc.body[k]), TargetAt(merged, k))

\* Only the targets of XLIFF units are written.
LEMMA XliffIs ==
  ASSUME NEW doc, doc = [kind |-> doc.kind, body |-> doc.body],
         doc.body \in Seq([source : Seq(STRING), form : {"none", "empty", "pair"},
                           inner : Seq(STRING), beside : Seq(STRING)]),
         NEW merged, XliffExport(doc, merged) # NotWritten
  PROVE  \E body : Translated(doc, merged, body)
<1> DEFINE units == doc.body
           R == [source : Seq(STRING), form : {"none", "empty", "pair"}, inner : Seq(STRING), beside : Seq(STRING)]
           body == [k \in DOMAIN units |->
                      IF Asked(merged, k) = {} THEN units[k] ELSE Delivered(units[k], TargetAt(merged, k))]
           out == XliffExport(doc, merged)
<1>1. out = [doc EXCEPT !.body = body]
  BY DEF XliffExport
<1>2. ASSUME NEW k \in DOMAIN units
      PROVE  /\ body[k].source = units[k].source
             /\ Asked(merged, k) = {} => body[k] = units[k]
             /\ Asked(merged, k) # {} /\ units[k].form # "empty" =>
                  body[k].form = "pair" /\ body[k].inner = Rendered(Template(units[k]), TargetAt(merged, k))
  <2>1. units[k] \in R
    <3>1. units \in Seq(R)
      OBVIOUS
    <3> HIDE DEF R
    <3> QED BY <3>1
  <2>2. PICK u : u = units[k]
    OBVIOUS
  <2>3. PICK new : new = Rendered(Template(u), TargetAt(merged, k))
    OBVIOUS
  <2>4. Delivered(u, TargetAt(merged, k)) =
          IF u.form = "empty" THEN [u EXCEPT !.beside = new] ELSE [u EXCEPT !.form = "pair", !.inner = new]
    BY <2>3 DEF Delivered
  <2>5. /\ [u EXCEPT !.beside = new].source = u.source
        /\ [u EXCEPT !.form = "pair", !.inner = new].source = u.source
        /\ [u EXCEPT !.form = "pair", !.inner = new].form = "pair"
        /\ [u EXCEPT !.form = "pair", !.inner = new].inner = new
    BY <2>1, <2>2
  <2> QED BY <2>2, <2>3, <2>4, <2>5
<1>3. DOMAIN body = DOMAIN units
  OBVIOUS
<1> HIDE DEF body
<1>4. out = [kind |-> doc.kind, body |-> body]
  BY <1>1
<1> HIDE DEF out
<1>5. \E x : /\ out = [kind |-> doc.kind, body |-> x] /\ DOMAIN x = DOMAIN units
             /\ \A k \in DOMAIN units :
                  /\ x[k].source = units[k].source
                  /\ Asked(merged, k) = {} => x[k] = units[k]
                  /\ Asked(merged, k) # {} /\ units[k].form # "empty" =>
                       x[k].form = "pair" /\ x[k].inner = Rendered(Template(units[k]), TargetAt(merged, k))
  BY <1>2, <1>3, <1>4
<1> QED BY <1>5 DEF out, Translated

\* Numbered from cells instead of rows, the merged rows ask for the same texts.
InColumnB(merged) == [k \in DOMAIN merged |-> [merged[k] EXCEPT !.path = 2 * @]]

\* So they are well formed as well.
LEMMA ColumnAsks ==
  ASSUME NEW L, NEW merged, Asks(merged, L)
  PROVE  Asks(InColumnB(merged), L)
<1> SUFFICES ASSUME NEW k \in DOMAIN merged
             PROVE  /\ InColumnB(merged)[k] = [path |-> InColumnB(merged)[k].path, target |-> InColumnB(merged)[k].target]
                    /\ InColumnB(merged)[k].target \in Seq(L)
  BY DEF InColumnB, Asks
<1>1. PICK m : m = merged[k]
  OBVIOUS
<1>2. m = [path |-> m.path, target |-> m.target] /\ m.target \in Seq(L)
  BY <1>1 DEF Asks
<1>3. InColumnB(merged)[k] = [m EXCEPT !.path = 2 * m.path]
  BY <1>1 DEF InColumnB
<1>4. PICK p : p = 2 * m.path
  OBVIOUS
<1>5. [m EXCEPT !.path = p] = [path |-> p, target |-> m.target]
  BY <1>2
<1> QED BY <1>2, <1>3, <1>4, <1>5

\* The formats whose units are laid out by the file itself.
Structured(doc) ==
  doc.kind \in {"docx", "pptx", "xlsx", "bilingual-docx", "bilingual-xlsx", "xliff"}

\* Whatever is written of a structured document keeps its bones.
LEMMA BonesKept ==
  ASSUME NEW doc, IsDocument(doc), Structured(doc), NEW merged, Asks(merged, Lexemes), NEW anchors,
         WrittenFile(doc, merged, anchors) # NotWritten
  PROVE  Bones(WrittenFile(doc, merged, anchors)) = Bones(doc)
<1> DEFINE out == WrittenFile(doc, merged, anchors)
<1>1. doc = [kind |-> doc.kind, body |-> doc.body]
  BY DEF IsDocument
<1>2. CASE doc.kind \in {"docx", "pptx"}
  <2> DEFINE N == Nodes
             body == doc.body
  <2>1. body \in Seq(Seq(N))
    BY <1>2 DEF IsDocument
  <2>2. \A n \in DOMAIN body : body[n] \in Seq(N)
    <3> DEFINE Q == Seq(N)
    <3>1. body \in Seq(Q)
      BY <2>1
    <3> HIDE DEF Q, body
    <3>2. \A n \in DOMAIN body : body[n] \in Q
      BY <3>1
    <3> QED BY <3>2 DEF Q
  <2> HIDE DEF N, body
  <2>3. \A n \in DOMAIN body : \A i \in DOMAIN body[n] : body[n][i] \in N
    <3> SUFFICES ASSUME NEW n \in DOMAIN body, NEW i \in DOMAIN body[n] PROVE body[n][i] \in N
      OBVIOUS
    <3>1. PICK x : x = body[n]
      OBVIOUS
    <3>2. x \in Seq(N) /\ i \in DOMAIN x
      BY <2>2, <3>1
    <3>3. x[i] \in N
      BY <3>2
    <3> QED BY <3>1, <3>3
  <2>4. \A n \in DOMAIN doc.body : \A i \in DOMAIN doc.body[n] : doc.body[n][i] \in NodesOver(Lexemes)
    BY <2>3, NodesWiden DEF N, body
  <2>5. CASE doc.kind = "docx"
    <3>1. out = DocumentWritten(doc, merged, anchors)
      BY <2>5 DEF WrittenFile
    <3> HIDE DEF out
    <3>2. DocumentWritten(doc, merged, anchors) # NotWritten
      BY <3>1 DEF out
    <3> QED BY <1>1, <2>4, <2>5, <3>1, <3>2, PartsKeepBones DEF out
  <2>6. CASE doc.kind = "pptx"
    <3>1. out = DocumentWritten(doc, merged, {})
      BY <2>6 DEF WrittenFile, PptxWritten
    <3> HIDE DEF out
    <3>2. DocumentWritten(doc, merged, {}) # NotWritten
      BY <3>1 DEF out
    <3> QED BY <1>1, <2>4, <2>6, <3>1, <3>2, PartsKeepBones DEF out
  <2> QED BY <1>2, <2>5, <2>6
<1>3. CASE doc.kind = "xlsx"
  <2>1. IsBook(doc.body)
    BY <1>3 DEF IsDocument
  <2>2. BookOver(doc.body, Lexemes)
    BY <2>1, BooksAre
  <2>3. out = XlsxExport(doc, merged)
    BY <1>3 DEF WrittenFile
  <2>4. XlsxExport(doc, merged) # NotWritten
    BY <2>3
  <2> QED BY <1>1, <1>3, <2>2, <2>3, <2>4, BooksKeepBones
<1>4. CASE doc.kind = "bilingual-xlsx"
  <2>1. IsBook(doc.body)
    BY <1>4 DEF IsDocument
  <2>2. BookOver(doc.body, Lexemes)
    BY <2>1, BooksAre
  <2>3. out = XlsxExport(doc, InColumnB(merged))
    BY <1>4 DEF WrittenFile, XlsxTableExport, InColumnB
  <2>4. XlsxExport(doc, InColumnB(merged)) # NotWritten
    BY <2>3
  <2>5. Asks(InColumnB(merged), Lexemes)
    BY ColumnAsks
  <2> QED BY <1>1, <1>4, <2>2, <2>3, <2>4, <2>5, BooksKeepBones
<1>5. CASE doc.kind = "bilingual-docx"
  <2>1. doc.body \in Seq(Seq(Nodes)) /\ \A r \in DOMAIN doc.body : Len(doc.body[r]) = 2
    BY <1>5 DEF IsDocument
  <2>2. out = DocxTableExport(doc, merged, anchors)
    BY <1>5 DEF WrittenFile
  <2>3. DocxTableExport(doc, merged, anchors) # NotWritten
    BY <2>2
  <2>4. PICK body : /\ out = [kind |-> doc.kind, body |-> body]
                    /\ DOMAIN body = DOMAIN doc.body
                    /\ \A r \in DOMAIN doc.body :
                        /\ doc.body[r][1] \in Nodes /\ doc.body[r][2] \in Nodes
                        /\ body[r][1] = doc.body[r][1]
                        /\ body[r][2] = Marked(doc.body[r][2], merged, r, anchors)
    BY <1>1, <2>1, <2>2, <2>3, TableIs
  <2> HIDE DEF out
  <2>5. \A r \in DOMAIN doc.body : Bare(body[r][2]) = Bare(doc.body[r][2])
    <3> SUFFICES ASSUME NEW r \in DOMAIN doc.body PROVE Bare(body[r][2]) = Bare(doc.body[r][2])
      OBVIOUS
    <3>1. doc.body[r][2] \in NodesOver(Lexemes)
      BY <2>4, NodesWiden
    <3> QED BY <2>4, <3>1, LaidIs
  <2>6. Bones(out) = [r \in DOMAIN body |-> <<body[r][1], Bare(body[r][2])>>]
    BY <1>5, <2>4 DEF Bones
  <2>7. Bones(doc) = [r \in DOMAIN doc.body |-> <<doc.body[r][1], Bare(doc.body[r][2])>>]
    BY <1>5 DEF Bones
  <2> QED BY <2>4, <2>5, <2>6, <2>7 DEF out
<1>6. CASE doc.kind = "xliff"
  <2>1. doc.body \in Seq([source : Seq(STRING), form : {"none", "empty", "pair"},
                          inner : Seq(STRING), beside : Seq(STRING)])
    BY <1>6 DEF IsDocument
  <2>2. out = XliffExport(doc, merged)
    BY <1>6 DEF WrittenFile
  <2>3. XliffExport(doc, merged) # NotWritten
    BY <2>2
  <2>4. PICK body : /\ out = [kind |-> doc.kind, body |-> body]
                    /\ DOMAIN body = DOMAIN doc.body
                    /\ \A k \in DOMAIN doc.body : body[k].source = doc.body[k].source
    BY <1>1, <2>1, <2>2, <2>3, XliffIs, SMTT(15) DEF Translated
  <2> HIDE DEF out
  <2>5. Bones(out) = [k \in DOMAIN body |-> body[k].source]
    BY <1>6, <2>4 DEF Bones
  <2>6. Bones(doc) = [k \in DOMAIN doc.body |-> doc.body[k].source]
    BY <1>6 DEF Bones
  <2> QED BY <2>4, <2>5, <2>6 DEF out
<1> QED BY <1>2, <1>3, <1>4, <1>5, <1>6 DEF Structured

-----------------------------------------------------------------------------
\* The rows an export was made from ask for texts over the alphabet.
LEMMA SentAsks ==
  ASSUME NEW doc, NEW grid, GridFor(doc, grid)
  PROVE  /\ Merges(grid, MergeForExport(grid), Alphabet(doc))
         /\ Asks(MergeForExport(grid), Lexemes)
<1> DEFINE L == Alphabet(doc)
           merged == MergeForExport(grid)
<1>1. RowsOver(grid, L) /\ Together(grid)
  BY GridIsOver DEF GridFor, GridOver
<1>2. Merges(grid, merged, L)
  BY <1>1, MergeIs
<1>3. Asks(merged, L)
  BY <1>2, MergeAsks
<1>4. \A x \in L : x \in Lexemes
  BY DEF Alphabet, Clean
<1> HIDE DEF L, merged
<1>5. \A s \in Seq(L) : s \in Seq(Lexemes)
  BY <1>4
<1>6. Asks(merged, Lexemes)
  BY <1>3, <1>5 DEF Asks
<1> QED BY <1>2, <1>6 DEF L, merged

\* Whatever is exported leaves the structure of the file alone: markup, formats, formulas, sources.
THEOREM NothingElseMoves == DocumentsSpec => [](Structured(copy) => NothingElseChanges)
<1>1. ExportInv => (Structured(copy) => NothingElseChanges)
  <2> SUFFICES ASSUME ExportInv, Structured(copy), WasExported
               PROVE  Bones(output) = Bones(copy)
    BY DEF NothingElseChanges
  <2>1. GridFor(copy, sent) /\ ExportOf(copy, sent, output)
    BY DEF WasExported, ExportInv
  <2>2. PICK anchors \in BOOLEAN : output = FileOf(copy, sent, anchors) /\ output # NotWritten
    BY <2>1 DEF ExportOf
  <2>3. Asks(MergeForExport(sent), Lexemes)
    BY <2>1, SentAsks
  <2> DEFINE merged == MergeForExport(sent)
             paths == IF anchors THEN {sent[i].path : i \in DOMAIN sent} ELSE {}
  <2>4. output = WrittenFile(copy, merged, paths)
    BY <2>2 DEF FileOf
  <2>5. IsDocument(copy)
    BY <2>1 DEF GridFor
  <2> HIDE DEF merged, paths
  <2>6. Asks(merged, Lexemes)
    BY <2>3 DEF merged
  <2> QED BY <2>2, <2>4, <2>5, <2>6, BonesKept
<1> QED BY <1>1, ExportAlways, PTL

-----------------------------------------------------------------------------
(* What is read of nodes after an export *)

\* An empty text more does not change what texts read together.
LEMMA FlattenInserted ==
  ASSUME NEW S, NEW s \in Seq(Seq(S)), NEW t \in Seq(Seq(S)), NEW m \in 1..Len(s), Inserts(t, s, m, <<>>)
  PROVE  FlattenSeq(t) = FlattenSeq(s)
<1> DEFINE Q == Seq(S)
           n == Len(s)
           x == SubSeq(s, 1, m - 1)
           y == << <<>> >>
           z == SubSeq(s, m, n)
<1>1. <<>> \in Q
  OBVIOUS
<1> HIDE DEF Q
<1>2. s \in Seq(Q) /\ t \in Seq(Q)
  BY DEF Q
<1>3. n \in Nat /\ m \in 1..n /\ DOMAIN t = 1..(n + 1)
  BY <1>2 DEF Inserts
<1>4. InsertAt(s, m, <<>>) \in Seq(Q) /\ Inserts(InsertAt(s, m, <<>>), s, m, <<>>)
  BY <1>1, <1>2, InsertAtIs
<1>5. t = InsertAt(s, m, <<>>)
  <2> DEFINE w == InsertAt(s, m, <<>>)
  <2>1. /\ Len(w) = n + 1 /\ w[m] = <<>>
        /\ \A i \in 1..n : i < m => w[i] = s[i]
        /\ \A i \in 1..n : ~(i < m) => w[i + 1] = s[i]
    BY <1>4 DEF Inserts
  <2>2. /\ Len(t) = n + 1 /\ t[m] = <<>>
        /\ \A i \in 1..n : i < m => t[i] = s[i]
        /\ \A i \in 1..n : ~(i < m) => t[i + 1] = s[i]
    BY DEF Inserts
  <2>3. w \in Seq(Q)
    BY <1>4
  <2> HIDE DEF w, n
  <2>4. ASSUME NEW i \in 1..(n + 1) PROVE t[i] = w[i]
    <3>1. CASE i = m
      BY <2>1, <2>2, <3>1
    <3>2. CASE i < m
      <4>1. i \in 1..n
        BY <1>3, <3>2
      <4> QED BY <2>1, <2>2, <3>2, <4>1
    <3>3. CASE ~(i < m) /\ i # m
      <4>1. i - 1 \in 1..n /\ ~(i - 1 < m) /\ (i - 1) + 1 = i
        BY <1>3, <3>3
      <4> QED BY <2>1, <2>2, <4>1
    <3> QED BY <3>1, <3>2, <3>3
  <2>5. DOMAIN w = 1..(n + 1)
    BY <2>1, <2>3
  <2>6. t = [i \in 1..(n + 1) |-> t[i]] /\ w = [i \in 1..(n + 1) |-> w[i]]
    BY <1>2, <1>3, <2>3, <2>5
  <2> QED BY <2>4, <2>6 DEF w
<1>6. x \in Seq(Q) /\ z \in Seq(Q) /\ y \in Seq(Q)
  BY <1>1, <1>2
<1>7. s = x \o z
  <2>1. Len(x) = m - 1 /\ \A i \in 1..(m - 1) : x[i] = s[i]
    BY <1>2, <1>3
  <2>2. Len(z) = n - m + 1 /\ \A i \in 1..(n - m + 1) : z[i] = s[m + i - 1]
    BY <1>2, <1>3
  <2> HIDE DEF x, z
  <2> DEFINE v == x \o z
  <2>3. v \in Seq(Q) /\ Len(v) = Len(x) + Len(z)
        /\ \A i \in 1..(Len(x) + Len(z)) : v[i] = IF i <= Len(x) THEN x[i] ELSE z[i - Len(x)]
    BY <1>6, ConcatProperties
  <2> HIDE DEF v, n
  <2>4. (m - 1) + (n - m + 1) = n
    BY <1>3
  <2>5. Len(v) = n /\ \A i \in 1..n : v[i] = IF i <= m - 1 THEN x[i] ELSE z[i - (m - 1)]
    BY <2>1, <2>2, <2>3, <2>4
  <2>6. ASSUME NEW i \in 1..n PROVE v[i] = s[i]
    <3>1. CASE i <= m - 1
      <4>1. i \in 1..(m - 1)
        BY <1>3, <3>1
      <4> QED BY <2>1, <2>5, <3>1, <4>1
    <3>2. CASE ~(i <= m - 1)
      <4>1. i - (m - 1) \in 1..(n - m + 1) /\ m + (i - (m - 1)) - 1 = i
        BY <1>3, <3>2
      <4> QED BY <2>2, <2>5, <3>2, <4>1
    <3> QED BY <3>1, <3>2
  <2>7. s = [i \in 1..n |-> s[i]] /\ v = [i \in 1..n |-> v[i]]
    BY <1>2, <2>3, <2>5 DEF n
  <2> QED BY <2>6, <2>7 DEF v
<1>8. InsertAt(s, m, <<>>) = (x \o y) \o z
  BY DEF InsertAt
<1>9. FlattenSeq(y) = <<>>
  <2>1. y \in Seq(Seq(S)) /\ 1 \in 1..Len(y) /\ \A i \in 1..Len(y) : i # 1 => y[i] = <<>>
    BY <1>6 DEF Q
  <2>2. FlattenSeq(y) = y[1]
    BY <2>1, FlattenOne
  <2> QED BY <2>2
<1> HIDE DEF x, y, z
<1>10. x \in Seq(Seq(S)) /\ y \in Seq(Seq(S)) /\ z \in Seq(Seq(S))
  BY <1>6 DEF Q
<1>11. x \o y \in Seq(Seq(S))
  BY <1>10, ConcatProperties
<1>12. FlattenSeq((x \o y) \o z) = FlattenSeq(x \o y) \o FlattenSeq(z)
  BY <1>10, <1>11, FlattenConcat
<1>13. FlattenSeq(x \o y) = FlattenSeq(x) \o FlattenSeq(y)
  BY <1>10, FlattenConcat
<1>14. FlattenSeq(x \o z) = FlattenSeq(x) \o FlattenSeq(z)
  BY <1>10, FlattenConcat
<1>15. FlattenSeq(x) \in Seq(S)
  BY <1>10, FlattenType
<1>16. PICK fx : fx = FlattenSeq(x)
  OBVIOUS
<1>17. fx \o <<>> = fx
  BY <1>15, <1>16
<1> QED BY <1>5, <1>7, <1>8, <1>9, <1>12, <1>13, <1>14, <1>16, <1>17

\* What a filter reads of each node.
ReadOf(nodes, reads) == [i \in DOMAIN nodes |-> IF nodes[i].kind \in reads THEN nodes[i].text ELSE <<>>]

\* What is read of nodes is over their alphabet.
LEMMA ReadType ==
  ASSUME NEW L, NEW nodes \in NodesOver(L), NEW reads
  PROVE  /\ TextOf(nodes, reads) = FlattenSeq(ReadOf(nodes, reads))
         /\ ReadOf(nodes, reads) \in Seq(Seq(L)) /\ Len(ReadOf(nodes, reads)) = Len(nodes)
         /\ TextOf(nodes, reads) \in Seq(L)
<1> DEFINE n == Len(nodes)
           read == ReadOf(nodes, reads)
           Q == Seq(L)
<1>1. n \in Nat /\ DOMAIN nodes = 1..n /\ \A i \in 1..n : nodes[i] \in NodeOver(L)
  BY NodesAre
<1>2. \A x \in NodeOver(L) : x.text \in Q
  BY DEF NodeOver
<1>3. <<>> \in Q
  OBVIOUS
<1> HIDE DEF Q, n
<1>4. read \in [1..n -> Q]
  BY <1>1, <1>2, <1>3 DEF ReadOf
<1> HIDE DEF read
<1>5. read \in Seq(Q) /\ Len(read) = n
  BY <1>1, <1>4
<1>6. TextOf(nodes, reads) = FlattenSeq(read)
  BY DEF TextOf, ReadOf, read
<1>7. FlattenSeq(read) \in Seq(L)
  BY <1>5, FlattenType DEF Q
<1> QED BY <1>5, <1>6, <1>7 DEF Q, n, read

\* Nothing but texts is read.
TextsOnly(nodes, reads) == "text" \in reads /\ \A i \in DOMAIN nodes : nodes[i].kind \in reads => nodes[i].kind = "text"

\* Nodes rewritten to a text read as the text.
LEMMA RewrittenReads ==
  ASSUME NEW L, NEW nodes \in NodesOver(L), NEW target \in Seq(L), NEW reads, TextsOnly(nodes, reads),
         TextNodes(nodes) # {}
  PROVE  /\ TextOf(Rewritten(nodes, target), reads) = target
         /\ TextNodes(Rewritten(nodes, target)) = TextNodes(nodes)
<1> DEFINE n == Len(nodes)
           new == Rewritten(nodes, target)
           m == Min(TextNodes(nodes))
           read == ReadOf(new, reads)
<1>1. n \in Nat /\ DOMAIN nodes = 1..n /\ \A i \in 1..n : nodes[i] \in NodeOver(L)
  BY NodesAre
<1>2. /\ new \in NodesOver(L) /\ DOMAIN new = 1..n /\ Len(new) = n
      /\ \A i \in 1..n : new[i] = IF nodes[i].kind # "text" THEN nodes[i]
                                  ELSE [nodes[i] EXCEPT !.text = IF i = m THEN target ELSE <<>>]
  BY <1>1, RewrittenIs
<1>3. TextNodes(nodes) \in SUBSET (0..n)
  <2>1. \A i \in 1..n : i \in 0..n
    BY <1>1
  <2> HIDE DEF n
  <2> QED BY <1>1, <2>1 DEF TextNodes
<1>4. m \in TextNodes(nodes)
  BY <1>1, <1>3, Extremes
<1>5. m \in 1..n /\ nodes[m].kind = "text"
  BY <1>1, <1>4 DEF TextNodes
<1> HIDE DEF n, new, m
<1>6. ASSUME NEW i \in 1..n
      PROVE  /\ new[i].kind = nodes[i].kind
             /\ nodes[i].kind = "text" => new[i].text = IF i = m THEN target ELSE <<>>
  <2>1. nodes[i] \in NodeOver(L)
    BY <1>1
  <2>2. PICK text : text = IF i = m THEN target ELSE <<>>
    OBVIOUS
  <2>3. [nodes[i] EXCEPT !.text = text].kind = nodes[i].kind /\ [nodes[i] EXCEPT !.text = text].text = text
    BY <2>1 DEF NodeOver
  <2>4. new[i] = IF nodes[i].kind # "text" THEN nodes[i] ELSE [nodes[i] EXCEPT !.text = text]
    BY <1>2, <2>2
  <2> QED BY <2>2, <2>3, <2>4
<1>7. TextNodes(new) = TextNodes(nodes)
  BY <1>1, <1>2, <1>6 DEF TextNodes
<1>8. \A i \in 1..n : read[i] = IF i = m THEN target ELSE <<>>
  <2> SUFFICES ASSUME NEW i \in 1..n PROVE read[i] = IF i = m THEN target ELSE <<>>
    OBVIOUS
  <2>1. read[i] = IF new[i].kind \in reads THEN new[i].text ELSE <<>>
    BY <1>2 DEF ReadOf
  <2>2. nodes[i].kind \in reads <=> nodes[i].kind = "text"
    BY <1>1 DEF TextsOnly
  <2>3. CASE nodes[i].kind = "text"
    BY <1>6, <2>1, <2>2, <2>3
  <2>4. CASE nodes[i].kind # "text"
    <3>1. i # m
      BY <1>5, <2>4
    <3> QED BY <1>6, <2>1, <2>2, <2>4, <3>1
  <2> QED BY <2>3, <2>4
<1> HIDE DEF read
<1>9. TextOf(new, reads) = FlattenSeq(read) /\ read \in Seq(Seq(L)) /\ Len(read) = n
  BY <1>2, ReadType DEF read
<1>10. FlattenSeq(read) = read[m]
  <2>1. m \in 1..Len(read) /\ \A i \in 1..Len(read) : i # m => read[i] = <<>>
    BY <1>5, <1>8, <1>9
  <2> QED BY <1>9, <2>1, FlattenOne
<1> QED BY <1>5, <1>7, <1>8, <1>9, <1>10 DEF new

\* An anchor is not read.
LEMMA AnchoredReads ==
  ASSUME NEW L, NEW nodes \in NodesOver(L), NEW reads, "anchor" \notin reads
  PROVE  /\ TextOf(Anchored(nodes), reads) = TextOf(nodes, reads)
         /\ TextNodes(Anchored(nodes)) = {} <=> TextNodes(nodes) = {}
<1>1. CASE TextNodes(nodes) = {}
  BY <1>1 DEF Anchored
<1>2. CASE TextNodes(nodes) # {}
  <2> DEFINE n == Len(nodes)
             new == Anchored(nodes)
             s == ReadOf(nodes, reads)
             t == ReadOf(new, reads)
  <2>1. PICK m \in 1..n : /\ m = Min(TextNodes(nodes)) /\ new \in NodesOver(L)
                          /\ Inserts(new, nodes, m, Node("anchor", "plain", <<>>))
    BY <1>2, AnchoredIs
  <2>2. n \in Nat /\ DOMAIN nodes = 1..n /\ Len(new) = n + 1 /\ DOMAIN new = 1..(n + 1)
    BY <2>1, NodesAre DEF Inserts
  <2> HIDE DEF n, new
  <2>3. /\ new[m] = Node("anchor", "plain", <<>>)
        /\ \A i \in 1..n : i < m => new[i] = nodes[i]
        /\ \A i \in 1..n : ~(i < m) => new[i + 1] = nodes[i]
    BY <2>1 DEF Inserts, n
  <2>4. TextOf(nodes, reads) = FlattenSeq(s) /\ s \in Seq(Seq(L)) /\ Len(s) = n
    BY ReadType DEF n
  <2>5. TextOf(new, reads) = FlattenSeq(t) /\ t \in Seq(Seq(L)) /\ Len(t) = n + 1
    BY <2>1, <2>2, ReadType
  <2>6. Inserts(t, s, m, <<>>)
    <3>1. m \in 1..(n + 1) /\ \A i \in 1..n : i \in 1..(n + 1) /\ i + 1 \in 1..(n + 1)
      BY <2>2
    <3>2. t[m] = <<>>
      <4>1. new[m].kind = "anchor"
        BY <2>3 DEF Node
      <4> QED BY <2>2, <3>1, <4>1 DEF ReadOf
    <3>3. \A i \in 1..n : i < m => t[i] = s[i]
      BY <2>2, <2>3, <3>1 DEF ReadOf
    <3>4. \A i \in 1..n : ~(i < m) => t[i + 1] = s[i]
      BY <2>2, <2>3, <3>1 DEF ReadOf
    <3> HIDE DEF s, t
    <3> QED BY <2>4, <2>5, <3>2, <3>3, <3>4 DEF Inserts
  <2>7. TextOf(new, reads) = TextOf(nodes, reads)
    <3> HIDE DEF s, t
    <3>1. m \in 1..Len(s)
      BY <2>4
    <3> QED BY <2>4, <2>5, <2>6, <3>1, FlattenInserted
  <2>8. TextNodes(new) # {}
    <3>1. PICK i \in 1..n : nodes[i].kind = "text"
      BY <1>2, <2>2 DEF TextNodes
    <3>2. i \in 1..(n + 1) /\ i + 1 \in 1..(n + 1)
      BY <2>2
    <3>3. new[i] = nodes[i] \/ new[i + 1] = nodes[i]
      BY <2>3
    <3>4. i \in TextNodes(new) \/ i + 1 \in TextNodes(new)
      BY <2>2, <3>1, <3>2, <3>3 DEF TextNodes
    <3> QED BY <3>4
  <2> QED BY <1>2, <2>7, <2>8 DEF new
<1> QED BY <1>1, <1>2

\* What is read where nothing is read but texts, and there are none, is nothing.
LEMMA SolidHasTexts ==
  ASSUME NEW L, NEW nodes \in NodesOver(L), NEW reads, TextsOnly(nodes, reads), ~Blank(TextOf(nodes, reads))
  PROVE  TextNodes(nodes) # {}
<1> SUFFICES ASSUME TextNodes(nodes) = {} PROVE FALSE
  OBVIOUS
<1> DEFINE read == ReadOf(nodes, reads)
           n == Len(nodes)
<1>1. n \in Nat /\ DOMAIN nodes = 1..n
  BY NodesAre
<1>2. TextOf(nodes, reads) = FlattenSeq(read) /\ read \in Seq(Seq(L)) /\ Len(read) = n
  BY ReadType
<1> HIDE DEF n
<1>3. \A i \in 1..n : read[i] = <<>>
  BY <1>1 DEF ReadOf, TextsOnly, TextNodes
<1> HIDE DEF read
<1>4. FlattenSeq(read) = <<>>
  <2>1. CASE n = 0
    <3>1. read = <<>>
      BY <1>2, <2>1
    <3> QED BY <3>1 DEF FlattenSeq
  <2>2. CASE n # 0
    <3>1. 1 \in 1..Len(read) /\ \A i \in 1..Len(read) : i # 1 => read[i] = <<>>
      BY <1>1, <1>2, <1>3, <2>2
    <3>2. FlattenSeq(read) = read[1]
      BY <1>2, <3>1, FlattenOne
    <3> QED BY <1>2, <1>3, <3>1, <3>2
  <2> QED BY <2>1, <2>2
<1> QED BY <1>2, <1>4 DEF Blank

\* A translation that is asked for has a text to be written into.
Fits(nodes, merged, path, reads) ==
  "anchor" \notin reads /\ (Asked(merged, path) # {} => TextsOnly(nodes, reads) /\ TextNodes(nodes) # {})

\* Nodes that read the translation of a path, or as before when there is none.
ReadsOn(new, nodes, merged, path, reads) ==
  /\ TextOf(new, reads) = IF Asked(merged, path) # {} THEN TargetAt(merged, path) ELSE TextOf(nodes, reads)
  /\ TextNodes(new) = {} <=> TextNodes(nodes) = {}

\* So a paragraph reads as its translation.
LEMMA MarkedReads ==
  ASSUME NEW L, NEW nodes \in NodesOver(L), NEW merged, Asks(merged, L), NEW path, NEW anchors,
         NEW reads, Fits(nodes, merged, path, reads)
  PROVE  /\ ReadsOn(Marked(nodes, merged, path, anchors), nodes, merged, path, reads)
         /\ ReadsOn(Laid(nodes, merged, path), nodes, merged, path, reads)
<1> DEFINE laid == Laid(nodes, merged, path)
<1>0. "anchor" \notin reads /\ (Asked(merged, path) # {} => TextsOnly(nodes, reads) /\ TextNodes(nodes) # {})
  BY DEF Fits
<1>1. laid \in NodesOver(L)
  BY LaidIs
<1>2. /\ TextOf(laid, reads) = IF Asked(merged, path) # {} THEN TargetAt(merged, path) ELSE TextOf(nodes, reads)
      /\ TextNodes(laid) = TextNodes(nodes)
  <2>1. CASE Asked(merged, path) = {}
    BY <2>1 DEF Laid
  <2>2. CASE Asked(merged, path) # {}
    <3>1. TargetAt(merged, path) \in Seq(L)
      BY <2>2, AskedTarget
    <3>2. laid = Rewritten(nodes, TargetAt(merged, path))
      BY <2>2 DEF Laid
    <3>3. TextsOnly(nodes, reads) /\ TextNodes(nodes) # {}
      BY <1>0, <2>2
    <3> QED BY <2>2, <3>1, <3>2, <3>3, RewrittenReads
  <2> QED BY <2>1, <2>2
<1> HIDE DEF laid
<1>3. TextOf(Anchored(laid), reads) = TextOf(laid, reads) /\ (TextNodes(Anchored(laid)) = {} <=> TextNodes(laid) = {})
  BY <1>0, <1>1, AnchoredReads
<1> QED BY <1>2, <1>3 DEF Marked, laid, ReadsOn

-----------------------------------------------------------------------------
(* The exported file, read again *)

\* What the rows of the document are exported from.
MergedFor(doc, merged, L) ==
  /\ Asks(merged, L)
  /\ \A n \in DOMAIN merged : ~Blank(merged[n].target)
  /\ \A n \in DOMAIN merged : \E k \in DOMAIN Units(doc) : merged[n].path = Units(doc)[k].path

\* What a reader of a file gets of a unit.
Ships(unit) == IF unit.hasTarget THEN unit.target ELSE unit.source

Lands(units, again, merged) ==
  /\ Len(again) = Len(units)
  /\ \A k \in DOMAIN units :
       Ships(again[k]) = IF Asked(merged, units[k].path) # {} THEN TargetAt(merged, units[k].path) ELSE Ships(units[k])

\* The units are the places of a set, in their order, each with its text.
Shows(units, I, place, text) ==
  /\ DOMAIN units = DOMAIN InOrder(I) /\ units = [k \in DOMAIN units |-> units[k]]
  /\ \A k \in DOMAIN units : units[k].path = place[InOrder(I)[k]] /\ Ships(units[k]) = text[InOrder(I)[k]]

\* What is asked for is a text, not blank, of a unit.
LEMMA SolidTarget ==
  ASSUME NEW L, NEW doc, NEW merged, MergedFor(doc, merged, L), NEW path, Asked(merged, path) # {}
  PROVE  /\ TargetAt(merged, path) \in Seq(L) /\ ~Blank(TargetAt(merged, path))
         /\ \E k \in DOMAIN Units(doc) : path = Units(doc)[k].path
<1> DEFINE n == CHOOSE k \in Asked(merged, path) : TRUE
<1>1. n \in Asked(merged, path)
  OBVIOUS
<1>2. TargetAt(merged, path) = merged[n].target
  BY DEF TargetAt
<1> HIDE DEF n
<1>3. n \in DOMAIN merged /\ merged[n].path = path
  BY <1>1 DEF Asked
<1>4. TargetAt(merged, path) \in Seq(L)
  BY AskedTarget DEF MergedFor
<1> QED BY <1>2, <1>3, <1>4 DEF MergedFor

\* Two files that show the same places land the texts of those places.
LEMMA ShownLands ==
  ASSUME NEW I, NEW n, Within(I, n), NEW units, NEW again, NEW place, NEW text, NEW new, NEW merged,
         Shows(units, I, place, text), Shows(again, I, place, new),
         \A i \in I : new[i] = IF Asked(merged, place[i]) # {} THEN TargetAt(merged, place[i]) ELSE text[i]
  PROVE  Lands(units, again, merged)
<1> DEFINE N == Cardinality(I)
           shown == InOrder(I)
<1>1. Ascending(shown, N, I)
  BY InOrderAscends
<1> HIDE DEF N
<1>2. N \in Nat /\ shown \in [1..N -> I]
  BY <1>1 DEF Ascending
<1>3. /\ DOMAIN units = 1..N /\ units = [k \in 1..N |-> units[k]]
      /\ \A k \in 1..N : units[k].path = place[shown[k]] /\ Ships(units[k]) = text[shown[k]]
  BY <1>2 DEF Shows
<1>4. /\ DOMAIN again = 1..N /\ again = [k \in 1..N |-> again[k]]
      /\ \A k \in 1..N : again[k].path = place[shown[k]] /\ Ships(again[k]) = new[shown[k]]
  BY <1>2 DEF Shows
<1> HIDE DEF shown
<1>5. Len(units) = N
  <2> DEFINE S == {units[k] : k \in 1..N}
  <2>1. units \in [1..N -> S]
    BY <1>3
  <2> HIDE DEF S
  <2> QED BY <1>2, <2>1
<1>6. Len(again) = N
  <2> DEFINE S == {again[k] : k \in 1..N}
  <2>1. again \in [1..N -> S]
    BY <1>4
  <2> HIDE DEF S
  <2> QED BY <1>2, <2>1
<1>7. ASSUME NEW k \in DOMAIN units
      PROVE  Ships(again[k]) = IF Asked(merged, units[k].path) # {} THEN TargetAt(merged, units[k].path)
                               ELSE Ships(units[k])
  <2>1. PICK i \in I : i = shown[k]
    BY <1>2, <1>3
  <2>2. units[k].path = place[i] /\ Ships(units[k]) = text[i] /\ Ships(again[k]) = new[i]
    BY <1>3, <1>4, <2>1
  <2>3. new[i] = IF Asked(merged, place[i]) # {} THEN TargetAt(merged, place[i]) ELSE text[i]
    OBVIOUS
  <2> QED BY <2>2, <2>3
<1> QED BY <1>5, <1>6, <1>7 DEF Lands

(***************************************************************************)
(* Word and PowerPoint documents.                                          *)
(***************************************************************************)
ShownPars(doc) ==
  {i \in DOMAIN doc.body[Main] : ~Blank(TextOf(doc.body[Main][i], Reads(doc.kind))) /\ TextNodes(doc.body[Main][i]) # {}}

ParPlace(doc) == [i \in DOMAIN doc.body[Main] |-> PartPath(doc, Main, i)]

ParText(doc) == [i \in DOMAIN doc.body[Main] |-> TextOf(doc.body[Main][i], Reads(doc.kind))]

\* The units of a document are its paragraphs with a text.
LEMMA PartsShow ==
  ASSUME NEW doc, NEW n, Within(ShownPars(doc), n)
  PROVE  Shows(DocumentUnits(doc), ShownPars(doc), ParPlace(doc), ParText(doc))
<1> DEFINE I == ShownPars(doc)
           shown == InOrder(I)
           pars == doc.body[Main]
           units == DocumentUnits(doc)
<1>1. units = [k \in DOMAIN shown |->
                 [Unit(PartPath(doc, Main, shown[k]), TextOf(pars[shown[k]], Reads(doc.kind)))
                    EXCEPT !.tagged = Formatted(pars[shown[k]])]]
  BY DEF DocumentUnits, PartUnits, ShownPars
<1>2. Ascending(shown, Cardinality(I), I)
  BY InOrderAscends
<1>3. \A k \in DOMAIN shown : shown[k] \in I
  BY <1>2 DEF Ascending
<1>4. \A i \in I : i \in DOMAIN pars
  BY DEF ShownPars
<1> HIDE DEF I, shown, units
<1>5. ASSUME NEW k \in DOMAIN shown
      PROVE  units[k].path = ParPlace(doc)[shown[k]] /\ Ships(units[k]) = ParText(doc)[shown[k]]
  <2>1. PICK p : p = PartPath(doc, Main, shown[k])
    OBVIOUS
  <2>2. PICK t : t = TextOf(pars[shown[k]], Reads(doc.kind))
    OBVIOUS
  <2>3. PICK f : f = Formatted(pars[shown[k]])
    OBVIOUS
  <2>4. units[k] = [Unit(p, t) EXCEPT !.tagged = f]
    BY <1>1, <2>1, <2>2, <2>3
  <2>5. units[k].path = p /\ Ships(units[k]) = t
    BY <2>4 DEF Unit, Ships
  <2> QED BY <1>3, <1>4, <2>1, <2>2, <2>5 DEF ParPlace, ParText
<1>6. DOMAIN units = DOMAIN shown /\ units = [k \in DOMAIN units |-> units[k]]
  BY <1>1
<1> QED BY <1>5, <1>6 DEF Shows, I, shown, units

\* The paragraphs units are made of are texts and what is not read.
ParsOver(doc, n, L) ==
  /\ n \in Nat /\ Main \in DOMAIN doc.body /\ DOMAIN doc.body[Main] = 1..n
  /\ \A i \in 1..n : doc.body[Main][i] \in NodesOver(L) /\ TextsOnly(doc.body[Main][i], Reads(doc.kind))

\* An exported Word or PowerPoint document reads as translated.
LEMMA PartsLand ==
  ASSUME NEW L, NEW doc, NEW merged, NEW anchors, doc = [kind |-> doc.kind, body |-> doc.body],
         NEW n, ParsOver(doc, n, L), Units(doc) = DocumentUnits(doc), MergedFor(doc, merged, L),
         DocumentWritten(doc, merged, anchors) # NotWritten
  PROVE  Lands(DocumentUnits(doc), DocumentUnits(DocumentWritten(doc, merged, anchors)), merged)
<1> DEFINE out == DocumentWritten(doc, merged, anchors)
           pars == doc.body[Main]
           I == ShownPars(doc)
           place == ParPlace(doc)
           reads == Reads(doc.kind)
           text == ParText(doc)
           new == ParText(out)
           wanted(i) == IF Asked(merged, place[i]) # {} THEN TargetAt(merged, place[i]) ELSE text[i]
<1>1. /\ out.kind = doc.kind /\ DOMAIN out.body[Main] = 1..n
      /\ \A i \in 1..n : out.body[Main][i] = Marked(pars[i], merged, PartPath(doc, Main, i), anchors)
  <2>1. out = [kind |-> doc.kind,
               body |-> [m \in DOMAIN doc.body |-> [i \in DOMAIN doc.body[m] |->
                           Marked(doc.body[m][i], merged, PartPath(doc, m, i), anchors)]]]
    BY PartsAre
  <2> HIDE DEF out
  <2> QED BY <2>1 DEF ParsOver
<1>2. \A i \in 1..n : place[i] = PartPath(doc, Main, i) /\ text[i] = TextOf(pars[i], reads)
  BY DEF ParPlace, ParText, ParsOver
<1>3. "anchor" \notin reads
  BY DEF Reads, DocxReads, PlainReads
<1>4. Within(I, n)
  BY DEF Within, ShownPars, ParsOver
<1>5. Shows(DocumentUnits(doc), I, place, text)
  BY <1>4, PartsShow
<1>6. ASSUME NEW i \in 1..n, Asked(merged, place[i]) # {} PROVE i \in I
  <2>1. PICK k \in DOMAIN DocumentUnits(doc) : place[i] = DocumentUnits(doc)[k].path
    BY <1>6, SolidTarget
  <2>2. DocumentUnits(doc)[k].path = place[InOrder(I)[k]] /\ k \in DOMAIN InOrder(I)
    BY <1>5 DEF Shows
  <2>3. InOrder(I)[k] \in I
    <3>1. Ascending(InOrder(I), Cardinality(I), I)
      BY <1>4, InOrderAscends
    <3> QED BY <2>2, <3>1 DEF Ascending
  <2>4. PICK j : j = InOrder(I)[k]
    OBVIOUS
  <2>5. j \in I /\ j \in 1..n /\ PartPath(doc, Main, i) = PartPath(doc, Main, j)
    BY <1>2, <1>4, <2>1, <2>2, <2>3, <2>4 DEF Within
  <2>6. i = j
    BY <2>5 DEF PartPath
  <2> QED BY <2>5, <2>6
<1>7. \A i \in I : i \in 1..n /\ ~Blank(TextOf(pars[i], reads)) /\ TextNodes(pars[i]) # {}
  BY DEF ShownPars, ParsOver
<1>8. \A i : i \in I <=> i \in 1..n /\ ~Blank(TextOf(pars[i], reads)) /\ TextNodes(pars[i]) # {}
  BY DEF ShownPars, ParsOver
<1> HIDE DEF I, reads, pars, place, text, out, wanted
<1>9. ASSUME NEW i \in 1..n
      PROVE  /\ TextOf(out.body[Main][i], reads) = wanted(i)
             /\ TextNodes(out.body[Main][i]) = {} <=> TextNodes(pars[i]) = {}
  <2>1. pars[i] \in NodesOver(L) /\ TextsOnly(pars[i], reads)
    BY DEF pars, reads, ParsOver
  <2>2. Asked(merged, place[i]) # {} => TextNodes(pars[i]) # {}
    BY <1>6, <1>7
  <2>3. Asks(merged, L)
    BY DEF MergedFor
  <2>4. out.body[Main][i] = Marked(pars[i], merged, place[i], anchors) /\ text[i] = TextOf(pars[i], reads)
    BY <1>1, <1>2
  <2>5. PICK nodes \in NodesOver(L) : nodes = pars[i]
    BY <2>1
  <2>6. PICK path : path = place[i]
    OBVIOUS
  <2>7. PICK read : read = reads
    OBVIOUS
  <2>8. Fits(nodes, merged, path, read)
    BY <1>3, <2>1, <2>2, <2>5, <2>6, <2>7 DEF Fits
  <2>9. ReadsOn(Marked(nodes, merged, path, anchors), nodes, merged, path, read)
    BY <2>3, <2>8, MarkedReads
  <2> QED BY <2>4, <2>5, <2>6, <2>7, <2>9 DEF wanted, ReadsOn
<1>10. \A i \in 1..n : new[i] = wanted(i)
  BY <1>1, <1>9 DEF ParText, reads
<1>11. ShownPars(out) = I
  <2>1. \A i \in 1..n : Blank(wanted(i)) <=> Blank(TextOf(pars[i], reads))
    <3> SUFFICES ASSUME NEW i \in 1..n PROVE Blank(wanted(i)) <=> Blank(TextOf(pars[i], reads))
      OBVIOUS
    <3>1. CASE Asked(merged, place[i]) = {}
      BY <1>2, <3>1 DEF wanted
    <3>2. CASE Asked(merged, place[i]) # {}
      <4>1. ~Blank(TextOf(pars[i], reads))
        BY <1>6, <1>7, <3>2
      <4>2. ~Blank(TargetAt(merged, place[i]))
        BY <3>2, SolidTarget
      <4> QED BY <3>2, <4>1, <4>2 DEF wanted
    <3> QED BY <3>1, <3>2
  <2>2. ShownPars(out) = {i \in 1..n : ~Blank(TextOf(out.body[Main][i], reads)) /\ TextNodes(out.body[Main][i]) # {}}
    BY <1>1 DEF ShownPars, reads
  <2>3. \A i : i \in ShownPars(out) <=> i \in I
    BY <1>8, <1>9, <2>1, <2>2
  <2> QED BY <2>3
<1>12. Shows(DocumentUnits(out), I, ParPlace(out), new)
  BY <1>4, <1>11, PartsShow
<1>13. \A i \in I : ParPlace(out)[i] = place[i]
  BY <1>1, <1>2, <1>7 DEF ParPlace, PartPath
<1>14. Shows(DocumentUnits(out), I, place, new)
  <2>1. Ascending(InOrder(I), Cardinality(I), I)
    BY <1>4, InOrderAscends
  <2>2. \A k \in DOMAIN InOrder(I) : InOrder(I)[k] \in I
    BY <2>1 DEF Ascending
  <2> QED BY <1>12, <1>13, <2>2 DEF Shows
<1>15. \A i \in I : new[i] = IF Asked(merged, place[i]) # {} THEN TargetAt(merged, place[i]) ELSE text[i]
  BY <1>7, <1>10 DEF wanted
<1> QED BY <1>4, <1>5, <1>14, <1>15, ShownLands DEF out

-----------------------------------------------------------------------------
(* Workbooks and bilingual tables, read again *)

\* Without tabs among what is read, only texts are.
LEMMA PlainTextsOnly == \A nodes : TextsOnly(nodes, PlainReads)
BY DEF TextsOnly, PlainReads

\* Only cells with a text are translated.
CellsSolid(book, merged) ==
  \A i \in DOMAIN book.cells : Asked(merged, i) # {} => ~Blank(CellText(book, book.cells[i]))

\* A cell of an exported workbook reads as its translation, others as before.
LEMMA CellsRead ==
  ASSUME NEW L, NEW book, BookOver(book, L), NEW merged, Asks(merged, L),
         \A k \in DOMAIN merged : merged[k].path \in Editable(book), CellsSolid(book, merged)
  PROVE  /\ DOMAIN XlsxWritten(book, merged).cells = DOMAIN book.cells
         /\ Len(XlsxWritten(book, merged).cells) = Len(book.cells)
         /\ \A i \in DOMAIN book.cells :
              CellText(XlsxWritten(book, merged), XlsxWritten(book, merged).cells[i]) =
                IF Asked(merged, i) # {} THEN TargetAt(merged, i) ELSE CellText(book, book.cells[i])
<1> DEFINE new == XlsxWritten(book, merged)
           n == Len(book.cells)
<1>1. /\ DOMAIN new.cells = DOMAIN book.cells
      /\ \A i \in DOMAIN book.cells :
           /\ new.cells[i].kind = book.cells[i].kind
           /\ book.cells[i].kind = "formula" => new.cells[i] = book.cells[i]
           /\ book.cells[i].kind # "formula" =>
                CellNodes(new, new.cells[i]) = Laid(CellNodes(book, book.cells[i]), merged, i)
  BY CellsAreLaid
<1>2. n \in Nat /\ DOMAIN book.cells = 1..n
  BY DEF BookOver
<1>3. Len(new.cells) = n
  <2>1. new.cells = [i \in DOMAIN book.cells |-> new.cells[i]]
    BY DEF XlsxWritten
  <2> HIDE DEF new, n
  <2> DEFINE S == {new.cells[i] : i \in 1..n}
  <2>2. PICK cells : cells = new.cells
    OBVIOUS
  <2>3. cells \in [1..n -> S]
    BY <1>2, <2>1, <2>2
  <2> HIDE DEF S
  <2>4. Len(cells) = n
    BY <1>2, <2>3
  <2> QED BY <2>2, <2>4
<1> HIDE DEF new
<1>4. ASSUME NEW i \in DOMAIN book.cells
      PROVE  CellText(new, new.cells[i]) =
               IF Asked(merged, i) # {} THEN TargetAt(merged, i) ELSE CellText(book, book.cells[i])
  <2>1. CASE book.cells[i].kind = "formula"
    <3>1. CellText(book, book.cells[i]) = <<>> /\ CellText(new, new.cells[i]) = <<>>
      BY <1>1, <2>1 DEF CellText
    <3>2. Asked(merged, i) = {}
      BY <3>1 DEF CellsSolid, Blank
    <3> QED BY <3>1, <3>2
  <2>2. CASE book.cells[i].kind # "formula"
    <3>1. PICK nodes : nodes = CellNodes(book, book.cells[i])
      OBVIOUS
    <3>2. nodes \in NodesOver(L)
      <4> DEFINE T == NodesOver(L)
                 shared == book.shared
      <4>1. shared \in Seq(T)
        BY DEF BookOver
      <4> HIDE DEF T
      <4>2. \A x \in DOMAIN shared : shared[x] \in T
        BY <4>1
      <4> QED BY <2>2, <3>1, <4>2 DEF BookOver, CellNodes, T
    <3>3. CellText(book, book.cells[i]) = TextOf(nodes, PlainReads)
      BY <2>2, <3>1 DEF CellText
    <3>4. CellText(new, new.cells[i]) = TextOf(Laid(nodes, merged, i), PlainReads)
      BY <1>1, <2>2, <3>1 DEF CellText
    <3>5. Asked(merged, i) # {} => TextNodes(nodes) # {}
      <4>1. TextsOnly(nodes, PlainReads)
        BY PlainTextsOnly
      <4>2. Asked(merged, i) # {} => ~Blank(TextOf(nodes, PlainReads))
        BY <3>3 DEF CellsSolid
      <4> QED BY <3>2, <4>1, <4>2, SolidHasTexts
    <3>6. Fits(nodes, merged, i, PlainReads)
      BY <3>5, PlainTextsOnly DEF Fits, PlainReads
    <3>7. ReadsOn(Laid(nodes, merged, i), nodes, merged, i, PlainReads)
      BY <3>2, <3>6, MarkedReads
    <3> QED BY <3>3, <3>4, <3>7 DEF ReadsOn
  <2> QED BY <2>1, <2>2
<1> QED BY <1>1, <1>3, <1>4 DEF new, n

ShownCells(book) == {i \in DOMAIN book.cells : ~Blank(CellText(book, book.cells[i]))}

CellPlace(book) == [i \in DOMAIN book.cells |-> i]

CellTexts(book) == [i \in DOMAIN book.cells |-> CellText(book, book.cells[i])]

\* The units of a workbook are its cells with a text.
LEMMA CellsShow ==
  ASSUME NEW book, NEW n, Within(ShownCells(book), n)
  PROVE  Shows(XlsxUnits(book), ShownCells(book), CellPlace(book), CellTexts(book))
<1> DEFINE I == ShownCells(book)
           shown == InOrder(I)
           units == XlsxUnits(book)
<1>1. units = [k \in DOMAIN shown |->
                 [Unit(shown[k], CellText(book, book.cells[shown[k]]))
                    EXCEPT !.tagged = Formatted(CellNodes(book, book.cells[shown[k]]))]]
  BY DEF XlsxUnits, ShownCells
<1>2. Ascending(shown, Cardinality(I), I)
  BY InOrderAscends
<1>3. \A k \in DOMAIN shown : shown[k] \in I
  BY <1>2 DEF Ascending
<1>4. \A i \in I : i \in DOMAIN book.cells
  BY DEF ShownCells
<1> HIDE DEF I, shown, units
<1>5. ASSUME NEW k \in DOMAIN shown
      PROVE  units[k].path = CellPlace(book)[shown[k]] /\ Ships(units[k]) = CellTexts(book)[shown[k]]
  <2>1. PICK p : p = shown[k]
    OBVIOUS
  <2>2. PICK t : t = CellText(book, book.cells[shown[k]])
    OBVIOUS
  <2>3. PICK f : f = Formatted(CellNodes(book, book.cells[shown[k]]))
    OBVIOUS
  <2>4. units[k] = [Unit(p, t) EXCEPT !.tagged = f]
    BY <1>1, <2>1, <2>2, <2>3
  <2>5. units[k].path = p /\ Ships(units[k]) = t
    BY <2>4 DEF Unit, Ships
  <2> QED BY <1>3, <1>4, <2>1, <2>2, <2>5 DEF CellPlace, CellTexts
<1>6. DOMAIN units = DOMAIN shown /\ units = [k \in DOMAIN units |-> units[k]]
  BY <1>1
<1> QED BY <1>5, <1>6 DEF Shows, I, shown, units

\* The place of a cell is its number.
LEMMA ShownPath ==
  ASSUME NEW I, NEW n, Within(I, n), NEW units, NEW place, NEW text, Shows(units, I, place, text),
         NEW k \in DOMAIN units
  PROVE  \E i \in I : units[k].path = place[i]
<1>1. Ascending(InOrder(I), Cardinality(I), I)
  BY InOrderAscends
<1>2. \A x \in DOMAIN InOrder(I) : InOrder(I)[x] \in I
  BY <1>1 DEF Ascending
<1> QED BY <1>2 DEF Shows

\* An exported workbook reads as translated.
LEMMA CellsLand ==
  ASSUME NEW L, NEW doc, NEW merged, doc = [kind |-> doc.kind, body |-> doc.body], doc.kind = "xlsx",
         BookOver(doc.body, L), Units(doc) = XlsxUnits(doc.body), MergedFor(doc, merged, L),
         XlsxExport(doc, merged) # NotWritten
  PROVE  Lands(Units(doc), Units(XlsxExport(doc, merged)), merged)
<1> DEFINE book == doc.body
           new == XlsxWritten(book, merged)
           I == ShownCells(book)
           n == Len(book.cells)
           text == CellTexts(book)
           place == CellPlace(book)
<1>1. n \in Nat /\ DOMAIN book.cells = 1..n
  BY DEF BookOver
<1>2. Within(I, n)
  BY <1>1 DEF Within, ShownCells
<1>3. Shows(XlsxUnits(book), I, place, text)
  BY <1>2, CellsShow
<1>4. \A i : i \in I <=> i \in 1..n /\ ~Blank(text[i])
  BY <1>1 DEF ShownCells, CellTexts
<1>5. \A i \in 1..n : place[i] = i /\ text[i] = CellText(book, book.cells[i])
  BY <1>1 DEF CellPlace, CellTexts
<1>6. Asks(merged, L)
  BY DEF MergedFor
<1>7. /\ XlsxExport(doc, merged) = [kind |-> doc.kind, body |-> new]
      /\ \A k \in DOMAIN merged : merged[k].path \in Editable(book)
  BY <1>6, BooksKeepBones
<1> HIDE DEF I, text, place, new, n
<1>8. ASSUME NEW i \in 1..n, Asked(merged, i) # {} PROVE i \in I
  <2>1. PICK k \in DOMAIN XlsxUnits(book) : i = XlsxUnits(book)[k].path
    BY <1>8, SolidTarget
  <2>2. PICK j \in I : XlsxUnits(book)[k].path = place[j]
    BY <1>2, <1>3, ShownPath
  <2> QED BY <1>4, <1>5, <2>1, <2>2
<1>9. CellsSolid(book, merged)
  BY <1>1, <1>4, <1>5, <1>8 DEF CellsSolid
<1>10. /\ DOMAIN new.cells = DOMAIN book.cells
       /\ \A i \in DOMAIN book.cells :
            CellText(new, new.cells[i]) =
              IF Asked(merged, i) # {} THEN TargetAt(merged, i) ELSE CellText(book, book.cells[i])
  BY <1>6, <1>7, <1>9, CellsRead DEF new
<1>11. \A i \in 1..n : CellTexts(new)[i] = IF Asked(merged, i) # {} THEN TargetAt(merged, i) ELSE text[i]
  BY <1>1, <1>5, <1>10 DEF CellTexts
<1>12. ShownCells(new) = I
  <2>1. \A i \in 1..n : Blank(CellTexts(new)[i]) <=> Blank(text[i])
    <3> SUFFICES ASSUME NEW i \in 1..n PROVE Blank(CellTexts(new)[i]) <=> Blank(text[i])
      OBVIOUS
    <3>1. CASE Asked(merged, i) = {}
      BY <1>11, <3>1
    <3>2. CASE Asked(merged, i) # {}
      <4>1. ~Blank(text[i])
        BY <1>4, <1>8, <3>2
      <4>2. ~Blank(TargetAt(merged, i))
        BY <3>2, SolidTarget
      <4> QED BY <1>11, <3>2, <4>1, <4>2
    <3> QED BY <3>1, <3>2
  <2>2. \A i : i \in ShownCells(new) <=> i \in 1..n /\ ~Blank(CellTexts(new)[i])
    BY <1>1, <1>10 DEF ShownCells, CellTexts
  <2>3. \A i : i \in ShownCells(new) <=> i \in I
    BY <1>4, <2>1, <2>2
  <2> QED BY <2>3
<1>13. CellPlace(new) = place
  BY <1>10 DEF CellPlace, place
<1>14. Shows(XlsxUnits(new), I, place, CellTexts(new))
  <2>1. Within(ShownCells(new), n)
    BY <1>2, <1>12
  <2>2. Shows(XlsxUnits(new), ShownCells(new), CellPlace(new), CellTexts(new))
    BY <2>1, CellsShow
  <2> QED BY <1>12, <1>13, <2>2
<1>15. \A i \in I : CellTexts(new)[i] = IF Asked(merged, place[i]) # {} THEN TargetAt(merged, place[i]) ELSE text[i]
  BY <1>4, <1>5, <1>11
<1>16. Lands(XlsxUnits(book), XlsxUnits(new), merged)
  BY <1>2, <1>3, <1>14, <1>15, ShownLands
<1>17. Units(XlsxExport(doc, merged)) = XlsxUnits(new)
  BY <1>7 DEF Units
<1> QED BY <1>16, <1>17

-----------------------------------------------------------------------------
(* Bilingual tables, read again *)

\* A table a translation of which cannot be taken for a header.
HeaderSafe(table) == table[1][1] = <<"Source">> => table[1][2] = <<"Target">>

\* The table with the translations in its second column.
Retold(table, again, merged, n) ==
  /\ n \in Nat /\ DOMAIN table = 1..n /\ DOMAIN again = 1..n
  /\ \A r \in 1..n : /\ again[r][1] = table[r][1]
                     /\ again[r][2] = IF Asked(merged, r) # {} THEN TargetAt(merged, r) ELSE table[r][2]

ShownRows(table) == {r \in DOMAIN table : ~(r = 1 /\ Header(table[r][1], table[r][2]))}

RowPlace(table) == [r \in DOMAIN table |-> r]

RowTexts(table) == [r \in DOMAIN table |-> table[r][2]]

BlankRow(table) == \E r \in DOMAIN table : Blank(table[r][1]) \/ Blank(table[r][2])

\* The units of a bilingual table are its rows with a source.
LEMMA RowsShow ==
  ASSUME NEW table, NEW n, Within(ShownRows(table), n), ~BlankRow(table)
  PROVE  Shows(TableUnits(table), ShownRows(table), RowPlace(table), RowTexts(table))
<1> DEFINE I == ShownRows(table)
           shown == InOrder(I)
           units == TableUnits(table)
           texts == [r \in DOMAIN table |-> [source |-> table[r][1], target |-> table[r][2]]]
           J == {r \in DOMAIN table : ~(r = 1 /\ Header(texts[r].source, texts[r].target))}
           blank == \E r \in DOMAIN table : Blank(texts[r].source) \/ Blank(texts[r].target)
<1>1. units = IF blank THEN <<>>
              ELSE [k \in DOMAIN InOrder(J) |->
                      [Unit(InOrder(J)[k], texts[InOrder(J)[k]].source)
                         EXCEPT !.hasTarget = TRUE, !.target = texts[InOrder(J)[k]].target]]
  BY DEF TableUnits
<1>2. \A r \in DOMAIN table : texts[r].source = table[r][1] /\ texts[r].target = table[r][2]
  OBVIOUS
<1> HIDE DEF texts
<1>3. ~blank
  BY <1>2 DEF BlankRow
<1>4. J = I
  BY <1>2 DEF ShownRows
<1> HIDE DEF blank, J, units
<1>5. units = [k \in DOMAIN shown |->
                 [Unit(shown[k], texts[shown[k]].source)
                    EXCEPT !.hasTarget = TRUE, !.target = texts[shown[k]].target]]
  BY <1>1, <1>3, <1>4
<1>6. Ascending(shown, Cardinality(I), I)
  BY InOrderAscends
<1>7. \A k \in DOMAIN shown : shown[k] \in I
  BY <1>6 DEF Ascending
<1>8. \A i \in I : i \in DOMAIN table
  BY DEF ShownRows
<1> HIDE DEF I, shown
<1>9. ASSUME NEW k \in DOMAIN shown
      PROVE  units[k].path = RowPlace(table)[shown[k]] /\ Ships(units[k]) = RowTexts(table)[shown[k]]
  <2>1. PICK p : p = shown[k]
    OBVIOUS
  <2>2. PICK t : t = texts[shown[k]].target
    OBVIOUS
  <2>3. PICK s : s = texts[shown[k]].source
    OBVIOUS
  <2>4. units[k] = [Unit(p, s) EXCEPT !.hasTarget = TRUE, !.target = t]
    BY <1>5, <2>1, <2>2, <2>3
  <2>5. units[k].path = p /\ Ships(units[k]) = t
    BY <2>4 DEF Unit, Ships
  <2>6. p \in DOMAIN table /\ t = table[p][2]
    BY <1>2, <1>7, <1>8, <2>1, <2>2
  <2> QED BY <2>1, <2>5, <2>6 DEF RowPlace, RowTexts
<1>10. DOMAIN units = DOMAIN shown /\ units = [k \in DOMAIN units |-> units[k]]
  BY <1>5
<1> QED BY <1>9, <1>10 DEF Shows, I, shown, units

\* A table that holds units has no blank row.
LEMMA UnitsNoBlank ==
  ASSUME NEW table, TableUnits(table) # <<>>
  PROVE  ~BlankRow(table)
<1> SUFFICES ASSUME BlankRow(table) PROVE FALSE
  OBVIOUS
<1> DEFINE texts == [r \in DOMAIN table |-> [source |-> table[r][1], target |-> table[r][2]]]
           blank == \E r \in DOMAIN table : Blank(texts[r].source) \/ Blank(texts[r].target)
<1>1. \A r \in DOMAIN table : texts[r].source = table[r][1] /\ texts[r].target = table[r][2]
  OBVIOUS
<1> HIDE DEF texts
<1>2. blank
  BY <1>1 DEF BlankRow
<1> HIDE DEF blank
<1>3. TableUnits(table) = <<>>
  BY <1>2 DEF TableUnits, blank, texts
<1> QED BY <1>3

\* A table that stays without, or with, its header reads as translated.
LEMMA TableRowsLand ==
  ASSUME NEW L, NEW doc, NEW merged, NEW table, NEW again, NEW n, Retold(table, again, merged, n),
         HeaderSafe(table), Units(doc) = TableUnits(table), TableUnits(table) # <<>>, MergedFor(doc, merged, L)
  PROVE  Lands(TableUnits(table), TableUnits(again), merged)
<1> DEFINE I == ShownRows(table)
           text == RowTexts(table)
           place == RowPlace(table)
<1>1. /\ n \in Nat /\ DOMAIN table = 1..n /\ DOMAIN again = 1..n
      /\ \A r \in 1..n : /\ again[r][1] = table[r][1]
                         /\ again[r][2] = IF Asked(merged, r) # {} THEN TargetAt(merged, r) ELSE table[r][2]
  BY DEF Retold
<1>2. Within(I, n)
  BY <1>1 DEF Within, ShownRows
<1>3. ~BlankRow(table)
  BY UnitsNoBlank
<1>4. Shows(TableUnits(table), I, place, text)
  BY <1>2, <1>3, RowsShow
<1>5. \A r \in 1..n : place[r] = r /\ text[r] = table[r][2]
  BY <1>1 DEF RowPlace, RowTexts
<1>6. \A r : r \in I <=> r \in 1..n /\ ~(r = 1 /\ Header(table[r][1], table[r][2]))
  BY <1>1 DEF ShownRows
<1> HIDE DEF I, text, place
<1>7. ASSUME NEW r \in 1..n, Asked(merged, r) # {} PROVE r \in I
  <2>1. PICK k \in DOMAIN TableUnits(table) : r = TableUnits(table)[k].path
    BY <1>7, SolidTarget
  <2>2. PICK j \in I : TableUnits(table)[k].path = place[j]
    BY <1>2, <1>4, ShownPath
  <2> QED BY <1>5, <1>6, <2>1, <2>2
<1>8. ~BlankRow(again)
  <2> SUFFICES ASSUME NEW r \in 1..n PROVE ~Blank(again[r][1]) /\ ~Blank(again[r][2])
    BY <1>1 DEF BlankRow
  <2>1. ~Blank(table[r][1]) /\ ~Blank(table[r][2])
    BY <1>1, <1>3 DEF BlankRow
  <2>2. Asked(merged, r) # {} => ~Blank(TargetAt(merged, r))
    BY SolidTarget
  <2> QED BY <1>1, <2>1, <2>2
<1>9. ShownRows(again) = I
  <2>1. ASSUME NEW r \in 1..n PROVE r = 1 /\ Header(again[r][1], again[r][2]) <=> r = 1 /\ Header(table[r][1], table[r][2])
    <3>1. CASE r # 1
      BY <3>1
    <3>2. CASE r = 1 /\ Header(table[r][1], table[r][2])
      <4>1. r \notin I
        BY <1>6, <3>2
      <4>2. Asked(merged, r) = {}
        BY <1>7, <4>1
      <4> QED BY <1>1, <3>2, <4>2
    <3>3. CASE r = 1 /\ ~Header(table[r][1], table[r][2])
      <4>1. table[r][1] # <<"Source">>
        BY <3>3 DEF Header, HeaderSafe
      <4> QED BY <1>1, <3>3, <4>1 DEF Header
    <3> QED BY <3>1, <3>2, <3>3
  <2>2. \A r : r \in ShownRows(again) <=> r \in I
    BY <1>1, <1>6, <2>1 DEF ShownRows
  <2> QED BY <2>2
<1>10. Shows(TableUnits(again), I, place, RowTexts(again))
  <2>1. RowPlace(again) = place
    BY <1>1 DEF RowPlace, place
  <2>2. Within(ShownRows(again), n)
    BY <1>2, <1>9
  <2>3. Shows(TableUnits(again), ShownRows(again), RowPlace(again), RowTexts(again))
    BY <1>8, <2>2, RowsShow
  <2> QED BY <1>9, <2>1, <2>3
<1>11. \A r \in I : RowTexts(again)[r] = IF Asked(merged, place[r]) # {} THEN TargetAt(merged, place[r]) ELSE text[r]
  BY <1>1, <1>5, <1>6 DEF RowTexts
<1> QED BY <1>2, <1>4, <1>10, <1>11, ShownLands

(***************************************************************************)
(* Word: the target cells hold nothing that reads as text but texts.       *)
(***************************************************************************)
DocxRows(table) ==
  [r \in DOMAIN table |-> <<TextOf(table[r][1], DocxReads), TextOf(table[r][2], DocxReads)>>]

\* An exported bilingual Word table reads as translated.
LEMMA DocxTableLands ==
  ASSUME NEW doc, NEW merged, NEW anchors, doc = [kind |-> doc.kind, body |-> doc.body],
         doc.kind = "bilingual-docx", doc.body \in Seq(Seq(Nodes)),
         \A r \in DOMAIN doc.body : Len(doc.body[r]) = 2,
         \A r \in DOMAIN doc.body : TextsOnly(doc.body[r][2], DocxReads),
         HeaderSafe(DocxRows(doc.body)), Units(doc) # <<>>, MergedFor(doc, merged, Lexemes),
         DocxTableExport(doc, merged, anchors) # NotWritten
  PROVE  Lands(Units(doc), Units(DocxTableExport(doc, merged, anchors)), merged)
<1> DEFINE out == DocxTableExport(doc, merged, anchors)
           table == doc.body
           n == Len(table)
           texts == DocxRows(table)
           again == DocxRows(out.body)
<1>1. n \in Nat /\ DOMAIN table = 1..n
  OBVIOUS
<1>2. PICK body : /\ out = [kind |-> doc.kind, body |-> body] /\ DOMAIN body = DOMAIN table
                  /\ \A r \in DOMAIN table :
                       /\ table[r][1] \in Nodes /\ table[r][2] \in Nodes
                       /\ body[r][1] = table[r][1]
                       /\ body[r][2] = Marked(table[r][2], merged, r, anchors)
  BY TableIs
<1>3. Units(doc) = TableUnits(texts)
  BY DEF Units, DocxTableUnits, DocxRows
<1> HIDE DEF out, n
<1>4. Units(out) = TableUnits(again)
  BY <1>2 DEF Units, DocxTableUnits, DocxRows
<1>5. \A r \in 1..n : texts[r][1] = TextOf(table[r][1], DocxReads) /\ texts[r][2] = TextOf(table[r][2], DocxReads)
  BY <1>1 DEF DocxRows
<1>6. \A r \in 1..n : /\ again[r][1] = TextOf(table[r][1], DocxReads)
                      /\ again[r][2] = TextOf(Marked(table[r][2], merged, r, anchors), DocxReads)
  BY <1>1, <1>2 DEF DocxRows
<1>7. DOMAIN texts = 1..n /\ DOMAIN again = 1..n
  BY <1>1, <1>2 DEF DocxRows
<1> HIDE DEF texts, again
<1>8. ~BlankRow(texts)
  BY <1>3, UnitsNoBlank
<1>9. Asks(merged, Lexemes)
  BY DEF MergedFor
<1>10. ASSUME NEW r \in 1..n
       PROVE  again[r][2] = IF Asked(merged, r) # {} THEN TargetAt(merged, r) ELSE texts[r][2]
  <2>1. PICK nodes : nodes = table[r][2]
    OBVIOUS
  <2>2. nodes \in NodesOver(Lexemes) /\ TextsOnly(nodes, DocxReads)
    BY <1>1, <1>2, <2>1, NodesWiden
  <2>3. ~Blank(TextOf(nodes, DocxReads))
    BY <1>5, <1>7, <1>8, <2>1 DEF BlankRow
  <2>4. TextNodes(nodes) # {}
    BY <2>2, <2>3, SolidHasTexts
  <2>5. Fits(nodes, merged, r, DocxReads)
    BY <2>2, <2>4 DEF Fits, DocxReads
  <2>6. ReadsOn(Marked(nodes, merged, r, anchors), nodes, merged, r, DocxReads)
    BY <1>9, <2>2, <2>5, MarkedReads
  <2> QED BY <1>5, <1>6, <2>1, <2>6 DEF ReadsOn
<1>11. Retold(texts, again, merged, n)
  BY <1>1, <1>5, <1>6, <1>7, <1>10 DEF Retold
<1>12. Lands(TableUnits(texts), TableUnits(again), merged)
  <2>1. HeaderSafe(texts) /\ TableUnits(texts) # <<>>
    BY <1>3 DEF texts
  <2> QED BY <1>3, <1>11, <2>1, TableRowsLand
<1> QED BY <1>3, <1>4, <1>12 DEF out

-----------------------------------------------------------------------------
(* Excel tables: row r is in the cells 2r - 1 and 2r *)

\* Renumbered, the cells of the second column are asked for, those of the first are not.
LEMMA ColumnIs ==
  ASSUME NEW L, NEW merged, Asks(merged, L), \A k \in DOMAIN merged : merged[k].path \in Int, NEW r \in Int
  PROVE  /\ Asked(InColumnB(merged), 2 * r) = Asked(merged, r)
         /\ Asked(InColumnB(merged), 2 * r - 1) = {}
         /\ Asked(merged, r) # {} => TargetAt(InColumnB(merged), 2 * r) = TargetAt(merged, r)
<1> DEFINE new == InColumnB(merged)
<1>1. ASSUME NEW k \in DOMAIN merged PROVE new[k].path = 2 * merged[k].path /\ new[k].target = merged[k].target
  <2>1. PICK m : m = merged[k]
    OBVIOUS
  <2>2. m = [path |-> m.path, target |-> m.target]
    BY <2>1 DEF Asks
  <2>3. PICK p : p = 2 * m.path
    OBVIOUS
  <2>4. new[k] = [m EXCEPT !.path = p]
    BY <2>1, <2>3 DEF InColumnB
  <2>5. [m EXCEPT !.path = p].path = p /\ [m EXCEPT !.path = p].target = m.target
    BY <2>2
  <2> QED BY <2>1, <2>3, <2>4, <2>5
<1>2. DOMAIN new = DOMAIN merged
  BY DEF InColumnB
<1> HIDE DEF new
<1>3. ASSUME NEW k \in DOMAIN merged
      PROVE  (new[k].path = 2 * r <=> merged[k].path = r) /\ new[k].path # 2 * r - 1
  <2>1. PICK p \in Int : p = merged[k].path
    OBVIOUS
  <2>2. new[k].path = 2 * p
    BY <1>1, <2>1
  <2>3. (2 * p = 2 * r <=> p = r) /\ 2 * p # 2 * r - 1
    OBVIOUS
  <2> QED BY <2>1, <2>2, <2>3
<1>4. Asked(new, 2 * r) = Asked(merged, r)
  BY <1>2, <1>3 DEF Asked
<1>5. Asked(new, 2 * r - 1) = {}
  <2>1. PICK p : p = 2 * r - 1
    OBVIOUS
  <2>2. \A k \in DOMAIN new : new[k].path # p
    BY <1>2, <1>3, <2>1
  <2>3. Asked(new, p) = {}
    BY <2>2 DEF Asked
  <2> QED BY <2>1, <2>3
<1>6. ASSUME Asked(merged, r) # {} PROVE TargetAt(new, 2 * r) = TargetAt(merged, r)
  <2> DEFINE k == CHOOSE x \in Asked(merged, r) : TRUE
  <2>1. k \in Asked(merged, r)
    BY <1>6
  <2>2. TargetAt(new, 2 * r) = new[CHOOSE x \in Asked(new, 2 * r) : TRUE].target
    BY DEF TargetAt
  <2>3. TargetAt(new, 2 * r) = new[k].target
    BY <1>4, <2>2
  <2>4. TargetAt(merged, r) = merged[k].target
    BY DEF TargetAt
  <2> HIDE DEF k
  <2>5. k \in DOMAIN merged
    BY <2>1 DEF Asked
  <2> QED BY <1>1, <2>3, <2>4, <2>5
<1> QED BY <1>4, <1>5, <1>6 DEF new

\* An exported bilingual Excel table reads as translated.
LEMMA SheetLands ==
  ASSUME NEW doc, NEW merged, doc = [kind |-> doc.kind, body |-> doc.body], doc.kind = "bilingual-xlsx",
         BookOver(doc.body, Lexemes), HeaderSafe(SheetRows(doc.body)), Units(doc) # <<>>,
         MergedFor(doc, merged, Lexemes), XlsxTableExport(doc, merged) # NotWritten
  PROVE  Lands(Units(doc), Units(XlsxTableExport(doc, merged)), merged)
<1> DEFINE book == doc.body
           column == InColumnB(merged)
           new == XlsxWritten(book, column)
           m == Len(book.cells)
           n == m \div 2
           texts == SheetRows(book)
           again == SheetRows(new)
           out == XlsxTableExport(doc, merged)
<1>1. m \in Nat /\ DOMAIN book.cells = 1..m
  BY DEF BookOver
<1>2. n \in Nat /\ \A r \in 1..n : r \in Int /\ 2 * r \in 1..m /\ 2 * r - 1 \in 1..m
  <2>1. PICK x \in Nat : x = m
    BY <1>1
  <2>2. x \div 2 \in Nat /\ \A r \in 1..(x \div 2) : r \in Int /\ 2 * r \in 1..x /\ 2 * r - 1 \in 1..x
    OBVIOUS
  <2> QED BY <2>1, <2>2
<1>3. Units(doc) = TableUnits(texts)
  BY DEF Units, XlsxTableUnits
<1>4. /\ texts = [r \in 1..n |-> <<CellText(book, book.cells[2 * r - 1]), CellText(book, book.cells[2 * r])>>]
      /\ ~BlankRow(texts) /\ HeaderSafe(texts) /\ TableUnits(texts) # <<>>
  BY <1>3, UnitsNoBlank DEF SheetRows
<1>5. DOMAIN texts = 1..n
  BY <1>4
<1>6. Asks(merged, Lexemes)
  BY DEF MergedFor
<1>7. Asks(column, Lexemes)
  BY <1>6, ColumnAsks
<1>8. out = XlsxExport(doc, column)
  BY DEF XlsxTableExport, InColumnB
<1>9. /\ out = [kind |-> doc.kind, body |-> new]
      /\ \A k \in DOMAIN column : column[k].path \in Editable(book)
  <2>1. XlsxExport(doc, column) # NotWritten
    BY <1>8
  <2> QED BY <1>7, <1>8, <2>1, BooksKeepBones
<1> HIDE DEF texts, new, out, n, m
<1>10. \A r \in 1..n : /\ texts[r][1] = CellText(book, book.cells[2 * r - 1])
                       /\ texts[r][2] = CellText(book, book.cells[2 * r])
  BY <1>4
<1>11. ASSUME NEW k \in DOMAIN merged PROVE merged[k].path \in 1..n
  <2> DEFINE I == ShownRows(texts)
  <2>1. Within(I, n)
    BY <1>2, <1>5 DEF Within, ShownRows
  <2>2. Shows(TableUnits(texts), I, RowPlace(texts), RowTexts(texts))
    BY <1>4, <2>1, RowsShow
  <2>3. PICK u \in DOMAIN TableUnits(texts) : merged[k].path = TableUnits(texts)[u].path
    BY <1>3 DEF MergedFor
  <2> HIDE DEF I
  <2>4. PICK i \in I : TableUnits(texts)[u].path = RowPlace(texts)[i]
    BY <2>1, <2>2, ShownPath
  <2>5. i \in 1..n /\ RowPlace(texts)[i] = i
    BY <1>5, <2>1, <2>4 DEF Within, RowPlace
  <2> QED BY <2>3, <2>4, <2>5
<1>12. ASSUME NEW r \in 1..n
       PROVE  /\ Asked(column, 2 * r) = Asked(merged, r) /\ Asked(column, 2 * r - 1) = {}
              /\ Asked(merged, r) # {} => TargetAt(column, 2 * r) = TargetAt(merged, r)
  <2>1. r \in Int /\ \A k \in DOMAIN merged : merged[k].path \in Int
    BY <1>2, <1>11
  <2> QED BY <1>6, <2>1, ColumnIs
<1>13. CellsSolid(book, column)
  <2> SUFFICES ASSUME NEW i \in DOMAIN book.cells, Asked(column, i) # {}
               PROVE  ~Blank(CellText(book, book.cells[i]))
    BY DEF CellsSolid
  <2>1. PICK k \in DOMAIN merged : i = column[k].path
    BY DEF Asked, InColumnB
  <2>2. PICK r \in 1..n : r = merged[k].path
    BY <1>11
  <2>3. i = 2 * r
    <3>1. PICK x : x = merged[k]
      OBVIOUS
    <3>2. x = [path |-> x.path, target |-> x.target]
      BY <1>6, <3>1 DEF Asks
    <3>3. PICK p : p = 2 * x.path
      OBVIOUS
    <3>4. column[k] = [x EXCEPT !.path = p]
      BY <3>1, <3>3 DEF InColumnB
    <3>5. [x EXCEPT !.path = p].path = p
      BY <3>2
    <3> QED BY <2>1, <2>2, <3>1, <3>3, <3>4, <3>5
  <2>4. ~Blank(texts[r][2])
    BY <1>4, <1>5 DEF BlankRow
  <2> QED BY <1>10, <2>3, <2>4
<1> HIDE DEF column
<1>14. /\ DOMAIN new.cells = DOMAIN book.cells /\ Len(new.cells) = m
       /\ \A i \in DOMAIN book.cells :
            CellText(new, new.cells[i]) =
              IF Asked(column, i) # {} THEN TargetAt(column, i) ELSE CellText(book, book.cells[i])
  BY <1>7, <1>9, <1>13, CellsRead DEF new, m
<1>15. again = [r \in 1..n |-> <<CellText(new, new.cells[2 * r - 1]), CellText(new, new.cells[2 * r])>>]
  BY <1>14 DEF SheetRows, n
<1> HIDE DEF again
<1>16. DOMAIN again = 1..n /\ \A r \in 1..n : /\ again[r][1] = CellText(new, new.cells[2 * r - 1])
                                              /\ again[r][2] = CellText(new, new.cells[2 * r])
  BY <1>15
<1>17. ASSUME NEW r \in 1..n
       PROVE  /\ again[r][1] = texts[r][1]
              /\ again[r][2] = IF Asked(merged, r) # {} THEN TargetAt(merged, r) ELSE texts[r][2]
  <2>1. PICK a \in DOMAIN book.cells : a = 2 * r - 1
    BY <1>1, <1>2
  <2>2. PICK b \in DOMAIN book.cells : b = 2 * r
    BY <1>1, <1>2
  <2>3. CellText(new, new.cells[a]) = CellText(book, book.cells[a])
    BY <1>12, <1>14, <2>1
  <2>4. CellText(new, new.cells[b]) =
          IF Asked(merged, r) # {} THEN TargetAt(merged, r) ELSE CellText(book, book.cells[b])
    BY <1>12, <1>14, <2>2
  <2> QED BY <1>10, <1>16, <2>1, <2>2, <2>3, <2>4
<1>18. Retold(texts, again, merged, n)
  BY <1>2, <1>5, <1>16, <1>17 DEF Retold
<1>19. Lands(TableUnits(texts), TableUnits(again), merged)
  BY <1>3, <1>4, <1>18, TableRowsLand
<1>20. Units(out) = TableUnits(again)
  BY <1>9 DEF Units, XlsxTableUnits, again
<1> QED BY <1>3, <1>19, <1>20 DEF out

\* An exported XLIFF file none of whose targets is an empty element reads as translated.
LEMMA XliffLands ==
  ASSUME NEW doc, IsDocument(doc), doc.kind = "xliff", \A k \in DOMAIN doc.body : doc.body[k].form # "empty",
         NEW merged, MergedFor(doc, merged, Clean), XliffExport(doc, merged) # NotWritten
  PROVE  Lands(XliffUnits(doc.body), XliffUnits(XliffExport(doc, merged).body), merged)
<1> DEFINE R == [source : Seq(STRING), form : {"none", "empty", "pair"}, inner : Seq(STRING), beside : Seq(STRING)]
           out == XliffExport(doc, merged)
           units == doc.body
           n == Len(units)
<1>1. doc = [kind |-> doc.kind, body |-> doc.body] /\ doc.body \in Seq(R)
  BY DEF IsDocument
<1>2. PICK body : Translated(doc, merged, body)
  <2>1. doc.body \in Seq([source : Seq(STRING), form : {"none", "empty", "pair"},
                          inner : Seq(STRING), beside : Seq(STRING)])
    BY <1>1
  <2>2. doc = [kind |-> doc.kind, body |-> doc.body]
    BY <1>1
  <2> HIDE DEF R, out, units, n
  <2> QED BY <2>1, <2>2, XliffIs
<1>3. \A x \in R : x.source \in Seq(STRING) /\ x.inner \in Seq(STRING)
  OBVIOUS
<1> HIDE DEF R, out
<1>4. n \in Nat /\ DOMAIN units = 1..n /\ \A k \in 1..n : units[k] \in R
  BY <1>1
<1>5. out.body = body
  BY <1>2 DEF out, Translated
<1> HIDE DEF units, n
<1> DEFINE was == XliffUnits(units)
           now == XliffUnits(body)
<1>6. /\ DOMAIN was = 1..n /\ was = [k \in 1..n |-> was[k]] /\ DOMAIN now = 1..n /\ now = [k \in 1..n |-> now[k]]
      /\ \A k \in 1..n : /\ was[k].path = k
                         /\ Ships(was[k]) = IF units[k].form # "none" THEN InlineText(units[k].inner)
                                            ELSE InlineText(units[k].source)
                         /\ Ships(now[k]) = IF body[k].form # "none" THEN InlineText(body[k].inner)
                                            ELSE InlineText(body[k].source)
  BY <1>2, <1>4 DEF XliffUnits, Ships, units, Translated
<1> HIDE DEF was, now
<1>7. Len(was) = n /\ Len(now) = n
  <2> DEFINE S == {was[k] : k \in 1..n} \cup {now[k] : k \in 1..n}
  <2>1. was \in [1..n -> S] /\ now \in [1..n -> S]
    BY <1>6
  <2> HIDE DEF S
  <2> QED BY <1>4, <2>1
<1>8. ASSUME NEW k \in 1..n
      PROVE  Ships(now[k]) = IF Asked(merged, k) # {} THEN TargetAt(merged, k) ELSE Ships(was[k])
  <2>1. CASE Asked(merged, k) = {}
    <3>1. body[k] = units[k]
      BY <1>2, <1>4, <2>1 DEF units, Translated
    <3> QED BY <1>6, <2>1, <3>1
  <2>2. CASE Asked(merged, k) # {}
    <3>1. body[k].form = "pair" /\ body[k].inner = Rendered(Template(units[k]), TargetAt(merged, k))
      BY <1>2, <1>4, <2>2 DEF units, Translated
    <3>2. Template(units[k]) \in Seq(STRING)
      BY <1>3, <1>4 DEF Template
    <3>3. TargetAt(merged, k) \in Seq(Clean)
      BY <2>2, AskedTarget DEF MergedFor
    <3>4. InlineText(body[k].inner) = TargetAt(merged, k)
      BY <3>1, <3>2, <3>3, RenderedReads
    <3> QED BY <1>6, <2>2, <3>1, <3>4
  <2> QED BY <2>1, <2>2
<1>9. Lands(was, now, merged)
  BY <1>6, <1>7, <1>8 DEF Lands
<1> QED BY <1>5, <1>9 DEF was, now, units, out

-----------------------------------------------------------------------------
(* What the grid promises is what is asked of the filter *)

\* A path is touched when one of its own rows has a translation.
LEMMA TouchedIs ==
  ASSUME NEW grid, NEW n \in Nat, DOMAIN grid = 1..n, NEW path
  PROVE  Touched(grid, path) <=> \E i \in DOMAIN RowsAt(grid, path) : ~Blank(RowsAt(grid, path)[i].target)
<1> DEFINE I == {i \in DOMAIN grid : grid[i].path = path}
           order == InOrder(I)
           own == RowsAt(grid, path)
<1>1. Within(I, n)
  BY DEF Within
<1>2. Ascending(order, Cardinality(I), I)
  BY <1>1, InOrderAscends
<1>3. own = [k \in DOMAIN order |-> grid[order[k]]]
  BY DEF RowsAt, Kept
<1>4. \A i : i \in I <=> i \in DOMAIN grid /\ grid[i].path = path
  OBVIOUS
<1> HIDE DEF I, order, own
<1>5. (\A k \in DOMAIN order : order[k] \in I) /\ \A i \in I : \E k \in DOMAIN order : order[k] = i
  BY <1>2 DEF Ascending
<1>6. ASSUME Touched(grid, path) PROVE \E k \in DOMAIN own : ~Blank(own[k].target)
  <2>1. PICK i \in I : ~Blank(grid[i].target)
    BY <1>4, <1>6 DEF Touched
  <2>2. PICK k \in DOMAIN order : order[k] = i
    BY <1>5
  <2> QED BY <1>3, <2>1, <2>2
<1>7. ASSUME NEW k \in DOMAIN own, ~Blank(own[k].target) PROVE Touched(grid, path)
  <2>1. own[k] = grid[order[k]] /\ order[k] \in I
    BY <1>3, <1>5
  <2> QED BY <1>4, <1>7, <2>1 DEF Touched
<1> QED BY <1>6, <1>7 DEF own

\* What the grid promises of a unit is what is asked of the filter.
LEMMA PromisedIs ==
  ASSUME NEW L, NEW merged, Merges(sent, merged, L), RowsOver(sent, L), NEW k \in DOMAIN Units(copy)
  PROVE  Promised(k) = IF Asked(merged, Units(copy)[k].path) # {} THEN TargetAt(merged, Units(copy)[k].path)
                       ELSE Ships(Units(copy)[k])
<1> DEFINE path == Units(copy)[k].path
<1>1. RowsOf(k) = RowsAt(sent, path) /\ Translation(k) = TextAt(sent, path)
  BY DEF RowsOf, Translation, TextAt
<1>2. Delivery(copy, k) = Ships(Units(copy)[k])
  BY DEF Delivery, Ships
<1>3. Len(sent) \in Nat /\ DOMAIN sent = 1..Len(sent)
  BY DEF RowsOver
<1> HIDE DEF path
<1>4. Touched(sent, path) <=> \E i \in DOMAIN RowsAt(sent, path) : ~Blank(RowsAt(sent, path)[i].target)
  BY <1>3, TouchedIs
<1>5. /\ Asked(merged, path) # {} <=> Touched(sent, path)
      /\ Asked(merged, path) # {} => TargetAt(merged, path) = TextAt(sent, path)
  BY AskedIs
<1>6. Promised(k) = IF Touched(sent, path) THEN TextAt(sent, path) ELSE Ships(Units(copy)[k])
  BY <1>1, <1>2, <1>4 DEF Promised
<1> QED BY <1>5, <1>6 DEF path

\* What is asked of the filter is asked of units the document has.
LEMMA MergeIsFor ==
  ASSUME NEW doc, NEW grid, GridFor(doc, grid)
  PROVE  MergedFor(doc, MergeForExport(grid), Alphabet(doc))
<1> DEFINE L == Alphabet(doc)
           merged == MergeForExport(grid)
           units == Units(doc)
<1>1. /\ RowsOver(grid, L)
      /\ \A i \in DOMAIN grid : \E k \in DOMAIN units : grid[i].path = units[k].path
  BY GridIsOver DEF GridFor
<1>2. Merges(grid, merged, L)
  BY SentAsks
<1> HIDE DEF L, merged, units
<1>3. Asks(merged, L)
  BY <1>2, MergeAsks
<1>4. ASSUME NEW n \in DOMAIN merged
      PROVE  ~Blank(merged[n].target) /\ \E k \in DOMAIN units : merged[n].path = units[k].path
  <2>1. Touched(grid, merged[n].path) /\ ~Blank(merged[n].target)
    BY <1>2 DEF Merges
  <2>2. PICK i \in DOMAIN grid : grid[i].path = merged[n].path
    BY <2>1 DEF Touched
  <2> QED BY <1>1, <2>1, <2>2
<1> QED BY <1>3, <1>4 DEF MergedFor, L, merged, units

(***************************************************************************)
(* Files whose translations come back: no tab of a Word document stays     *)
(* beside a translation, no translation turns a row into a header, none is *)
(* written beside an empty target, and what is typed into the rows of an   *)
(* XLIFF file are characters, not the tags or entities that stand for some.*)
(***************************************************************************)
NoTabs(nodes) == \A i \in DOMAIN nodes : nodes[i].kind # "tab"

Returns(doc) ==
  \/ doc.kind \in {"pptx", "xlsx"}
  \/ doc.kind = "docx" /\ \A i \in DOMAIN doc.body[Main] : NoTabs(doc.body[Main][i])
  \/ /\ doc.kind = "bilingual-docx"
     /\ \A r \in DOMAIN doc.body : NoTabs(doc.body[r][2])
     /\ HeaderSafe(DocxRows(doc.body))
  \/ doc.kind = "bilingual-xlsx" /\ HeaderSafe(SheetRows(doc.body))
  \/ /\ doc.kind = "xliff" /\ Texts \subseteq Seq(Clean)
     /\ \A k \in DOMAIN doc.body : doc.body[k].form # "empty"

\* Without tabs only texts are read.
LEMMA NoTabsTextsOnly ==
  ASSUME NEW nodes, NoTabs(nodes)
  PROVE  TextsOnly(nodes, DocxReads)
BY DEF NoTabs, TextsOnly, DocxReads

\* A file written of such a document reads as translated.
LEMMA WrittenLands ==
  ASSUME NEW doc, IsDocument(doc), Returns(doc), NEW merged, MergedFor(doc, merged, Alphabet(doc)), NEW anchors,
         Units(doc) # <<>>, WrittenFile(doc, merged, anchors) # NotWritten
  PROVE  Lands(Units(doc), Units(WrittenFile(doc, merged, anchors)), merged)
<1> DEFINE out == WrittenFile(doc, merged, anchors)
<1>1. /\ doc = [kind |-> doc.kind, body |-> doc.body]
      /\ doc.kind # "xliff" => MergedFor(doc, merged, Lexemes)
  BY DEF IsDocument, Alphabet
<1>2. ASSUME doc.kind \in {"docx", "pptx"},
             \A i \in DOMAIN doc.body[Main] : TextsOnly(doc.body[Main][i], Reads(doc.kind)),
             NEW marks, out = DocumentWritten(doc, merged, marks)
      PROVE  Lands(Units(doc), Units(out), merged)
  <2> DEFINE Q == Seq(Nodes)
             body == doc.body
             pars == body[Main]
             n == Len(pars)
  <2>1. body \in Seq(Q) /\ body # <<>>
    BY <1>2 DEF IsDocument
  <2> HIDE DEF Q, body
  <2>2. Main \in DOMAIN body /\ pars \in Q
    BY <2>1 DEF Main
  <2> HIDE DEF pars
  <2>3. n \in Nat /\ DOMAIN pars = 1..n /\ \A i \in 1..n : pars[i] \in Nodes
    BY <2>2 DEF Q
  <2>4. \A i \in 1..n : pars[i] \in NodesOver(Lexemes)
    BY <2>3, NodesWiden
  <2>5. ParsOver(doc, n, Lexemes)
    BY <1>2, <2>2, <2>3, <2>4 DEF ParsOver, pars, body
  <2>6. Units(doc) = DocumentUnits(doc)
    BY <1>2 DEF Units, PptxUnits
  <2> DEFINE new == DocumentWritten(doc, merged, marks)
  <2>7. out = new
    BY <1>2
  <2> HIDE DEF out
  <2>8. new # NotWritten
    BY <2>7 DEF out
  <2>9. Lands(DocumentUnits(doc), DocumentUnits(new), merged)
    BY <1>1, <1>2, <2>5, <2>6, <2>8, PartsLand
  <2>10. new.kind = doc.kind
    <3>1. new = [kind |-> doc.kind,
                 body |-> [m \in DOMAIN doc.body |-> [i \in DOMAIN doc.body[m] |->
                             Marked(doc.body[m][i], merged, PartPath(doc, m, i), marks)]]]
      BY <1>1, <2>8, PartsAre
    <3> HIDE DEF new
    <3> QED BY <3>1
  <2> HIDE DEF new
  <2>11. Units(new) = DocumentUnits(new)
    BY <1>2, <2>10 DEF Units, PptxUnits
  <2> QED BY <2>6, <2>7, <2>9, <2>11
<1>3. CASE doc.kind = "pptx"
  <2>1. out = DocumentWritten(doc, merged, {})
    BY <1>3 DEF WrittenFile, PptxWritten
  <2>2. Reads(doc.kind) = PlainReads
    BY <1>3 DEF Reads
  <2> HIDE DEF out
  <2> QED BY <1>2, <1>3, <2>1, <2>2, PlainTextsOnly DEF out
<1>4. CASE doc.kind = "docx" /\ \A i \in DOMAIN doc.body[Main] : NoTabs(doc.body[Main][i])
  <2>1. out = DocumentWritten(doc, merged, anchors)
    BY <1>4 DEF WrittenFile
  <2>2. Reads(doc.kind) = DocxReads
    BY <1>4 DEF Reads
  <2> HIDE DEF out
  <2>3. \A i \in DOMAIN doc.body[Main] : TextsOnly(doc.body[Main][i], Reads(doc.kind))
    BY <1>4, <2>2, NoTabsTextsOnly
  <2> QED BY <1>2, <1>4, <2>1, <2>3 DEF out
<1>5. CASE doc.kind = "xlsx"
  <2>1. out = XlsxExport(doc, merged) /\ Units(doc) = XlsxUnits(doc.body)
    BY <1>5 DEF WrittenFile, Units
  <2>2. BookOver(doc.body, Lexemes)
    BY <1>5, BooksAre DEF IsDocument
  <2> HIDE DEF out
  <2>3. XlsxExport(doc, merged) # NotWritten
    BY <2>1 DEF out
  <2>4. Lands(Units(doc), Units(XlsxExport(doc, merged)), merged)
    BY <1>1, <1>5, <2>1, <2>2, <2>3, CellsLand
  <2> QED BY <2>1, <2>4 DEF out
<1>6. CASE /\ doc.kind = "bilingual-docx"
           /\ \A r \in DOMAIN doc.body : NoTabs(doc.body[r][2])
           /\ HeaderSafe(DocxRows(doc.body))
  <2>1. out = DocxTableExport(doc, merged, anchors)
    BY <1>6 DEF WrittenFile
  <2>2. doc.body \in Seq(Seq(Nodes)) /\ \A r \in DOMAIN doc.body : Len(doc.body[r]) = 2
    BY <1>6 DEF IsDocument
  <2>3. \A r \in DOMAIN doc.body : TextsOnly(doc.body[r][2], DocxReads)
    BY <1>6, NoTabsTextsOnly
  <2> HIDE DEF out
  <2>4. DocxTableExport(doc, merged, anchors) # NotWritten
    BY <2>1 DEF out
  <2>5. Lands(Units(doc), Units(DocxTableExport(doc, merged, anchors)), merged)
    BY <1>1, <1>6, <2>2, <2>3, <2>4, DocxTableLands
  <2> QED BY <2>1, <2>5 DEF out
<1>7. CASE doc.kind = "bilingual-xlsx" /\ HeaderSafe(SheetRows(doc.body))
  <2>1. out = XlsxTableExport(doc, merged)
    BY <1>7 DEF WrittenFile
  <2>2. BookOver(doc.body, Lexemes)
    BY <1>7, BooksAre DEF IsDocument
  <2> HIDE DEF out
  <2>3. XlsxTableExport(doc, merged) # NotWritten
    BY <2>1 DEF out
  <2>4. Lands(Units(doc), Units(XlsxTableExport(doc, merged)), merged)
    BY <1>1, <1>7, <2>2, <2>3, SheetLands
  <2> QED BY <2>1, <2>4 DEF out
<1>8. CASE /\ doc.kind = "xliff" /\ Texts \subseteq Seq(Clean)
           /\ \A k \in DOMAIN doc.body : doc.body[k].form # "empty"
  <2>1. out = XliffExport(doc, merged) /\ Units(doc) = XliffUnits(doc.body)
    BY <1>8 DEF WrittenFile, Units
  <2>2. MergedFor(doc, merged, Clean)
    BY <1>8 DEF Alphabet
  <2> HIDE DEF out
  <2>3. XliffExport(doc, merged) # NotWritten
    BY <2>1 DEF out
  <2>4. Lands(XliffUnits(doc.body), XliffUnits(XliffExport(doc, merged).body), merged)
    BY <1>8, <2>2, <2>3, XliffLands
  <2>5. out.kind = "xliff"
    <3>1. \E body : XliffExport(doc, merged) = [doc EXCEPT !.body = body]
      BY <2>3 DEF XliffExport
    <3>2. PICK body : XliffExport(doc, merged) = [doc EXCEPT !.body = body]
      BY <3>1
    <3>3. doc = [kind |-> "xliff", body |-> doc.body]
      BY <1>1, <1>8
    <3>4. [doc EXCEPT !.body = body].kind = "xliff"
      BY <3>3
    <3> QED BY <2>1, <3>2, <3>4
  <2>6. Units(out) = XliffUnits(out.body)
    BY <2>5 DEF Units
  <2> QED BY <2>1, <2>4, <2>6 DEF out
<1> QED BY <1>3, <1>4, <1>5, <1>6, <1>7, <1>8 DEF Returns

(***************************************************************************)
(* Such a file, exported and imported again, has the translation the grid  *)
(* showed for every unit, and every unit nobody touched as it was.         *)
(***************************************************************************)
THEOREM TranslationsReturn == DocumentsSpec => [](Returns(copy) => TranslationsLand)
<1>1. ExportInv => (Returns(copy) => TranslationsLand)
  <2> SUFFICES ASSUME ExportInv, Returns(copy), WasExported
               PROVE  /\ Len(Units(output)) = Len(Units(copy))
                      /\ \A k \in DOMAIN Units(copy) : Delivery(output, k) = Promised(k)
    BY DEF TranslationsLand
  <2>1. GridFor(copy, sent) /\ ExportOf(copy, sent, output) /\ sent # <<>>
    BY DEF WasExported, ExportInv
  <2>2. PICK anchors \in BOOLEAN : output = FileOf(copy, sent, anchors) /\ output # NotWritten
    BY <2>1 DEF ExportOf
  <2> DEFINE merged == MergeForExport(sent)
             paths == IF anchors THEN {sent[i].path : i \in DOMAIN sent} ELSE {}
  <2>3. output = WrittenFile(copy, merged, paths)
    BY <2>2 DEF FileOf
  <2> DEFINE L == Alphabet(copy)
  <2>5. IsDocument(copy) /\ MergedFor(copy, merged, L) /\ Merges(sent, merged, L)
    BY <2>1, SentAsks, MergeIsFor DEF GridFor
  <2>6. /\ RowsOver(sent, L)
        /\ \A i \in DOMAIN sent : \E k \in DOMAIN Units(copy) : sent[i].path = Units(copy)[k].path
    BY <2>1, GridIsOver DEF GridFor
  <2> HIDE DEF merged, paths
  <2>7. Units(copy) # <<>>
    <3>1. Len(sent) \in Nat /\ DOMAIN sent = 1..Len(sent)
      BY <2>6 DEF RowsOver
    <3>2. GridOver(Units(copy), sent, L)
      BY <2>1 DEF GridFor
    <3> DEFINE Row == GridRow({Units(copy)[i].path : i \in DOMAIN Units(copy)}, L)
    <3>3. sent \in Seq(Row)
      BY <3>2 DEF GridOver
    <3> HIDE DEF Row
    <3>4. Len(sent) # 0
      BY <2>1, <3>3
    <3>6. 1 \in DOMAIN sent
      BY <3>1, <3>4
    <3>5. PICK k \in DOMAIN Units(copy) : sent[1].path = Units(copy)[k].path
      BY <2>6, <3>6
    <3> QED BY <3>5
  <2>8. Lands(Units(copy), Units(output), merged)
    BY <2>2, <2>3, <2>5, <2>7, WrittenLands
  <2>9. ASSUME NEW k \in DOMAIN Units(copy) PROVE Delivery(output, k) = Promised(k)
    <3>1. Delivery(output, k) = Ships(Units(output)[k])
      BY DEF Delivery, Ships
    <3>2. Promised(k) = IF Asked(merged, Units(copy)[k].path) # {} THEN TargetAt(merged, Units(copy)[k].path)
                        ELSE Ships(Units(copy)[k])
      BY <2>5, <2>6, PromisedIs
    <3> QED BY <2>8, <3>1, <3>2 DEF Lands
  <2> QED BY <2>8, <2>9 DEF Lands
<1> QED BY <1>1, ExportAlways, PTL

-----------------------------------------------------------------------------
(* Plain text, read again *)


\* The units of a plain text are its spans, and the rest is outside them.
LEMMA TxtUnitsAt ==
  ASSUME NEW body \in Seq(Lexemes), NEW doc, doc.kind = "txt", doc.body = body
  PROVE  /\ Units(doc) = TxtUnits(body)
         /\ DOMAIN TxtUnits(body) = 1..Len(TxtSpans(body)) /\ Len(TxtUnits(body)) = Len(TxtSpans(body))
         /\ \A k \in 1..Len(TxtSpans(body)) : /\ TxtUnits(body)[k].path = TxtPath(body, k)
                                              /\ TxtUnits(body)[k].source = Slice(body, TxtSpans(body)[k])
                                              /\ TxtUnits(body)[k].hasTarget = FALSE
                                              /\ TxtUnits(body)[k].tagged = FALSE
         /\ OutsideRanges(doc) = Kept(body, Outside(Len(body), TxtSpans(body)))
<1> DEFINE spans == TxtSpans(body)
           N == Len(spans)
           units == TxtUnits(body)
           path(k) == RangePath("txt", spans[k])
           owned == UNION {units[k].path[2]..units[k].path[3] : k \in DOMAIN units}
<1>1. AreCores(Content(body), spans) /\ Content(body) \in Seq(Lexemes)
  BY TxtSpansAre, ContentType DEF AreParas
<1>2. N \in Nat /\ DOMAIN spans = 1..N
  BY <1>1, CoresAre
<1>3. units = [k \in 1..N |-> Unit(path(k), Slice(body, spans[k]))]
  BY <1>2 DEF TxtUnits
<1>4. Units(doc) = units
  BY DEF Units
<1> HIDE DEF N, spans, units
<1>5. ASSUME NEW k \in 1..N
      PROVE  /\ units[k].path = RangePath("txt", spans[k]) /\ units[k].source = Slice(body, spans[k])
             /\ units[k].hasTarget = FALSE /\ units[k].tagged = FALSE
  BY <1>3 DEF Unit
<1>6. DOMAIN units = 1..N /\ Len(units) = N
  BY <1>2, <1>3
<1>7. ASSUME NEW k \in 1..N PROVE units[k].path[2] = spans[k].from /\ units[k].path[3] = spans[k].to
  <2>1. PICK a, b, p : a = spans[k].from /\ b = spans[k].to /\ p = units[k].path
    OBVIOUS
  <2>2. p = <<"txt", a, b>>
    BY <1>5, <2>1 DEF RangePath
  <2>3. p[2] = a /\ p[3] = b
    BY <2>2
  <2> QED BY <2>1, <2>3
<1>8. DOMAIN body \ owned = Outside(Len(body), spans)
  <2>0. DOMAIN body = 1..Len(body)
    OBVIOUS
  <2>1. ASSUME NEW i \in 1..Len(body) PROVE i \in owned <=> \E k \in 1..N : spans[k].from <= i /\ i <= spans[k].to
    <3>1. \A k \in 1..N : spans[k].from \in 1..Len(body) /\ spans[k].to \in 1..Len(body)
      <4>1. Len(Content(body)) = Len(body)
        BY ContentType
      <4>2. \A k \in 1..Len(spans) : spans[k].from \in 1..Len(Content(body)) /\ spans[k].to \in 1..Len(Content(body))
        BY <1>1, CoresAre
      <4> QED BY <4>1, <4>2 DEF N
    <3>2. i \in owned <=> \E k \in 1..N : i \in spans[k].from..spans[k].to
      BY <1>6, <1>7
    <3> QED BY <3>1, <3>2
  <2> HIDE DEF owned
  <2> QED BY <2>0, <2>1 DEF Outside, N
<1>9. OutsideRanges(doc) = Kept(body, DOMAIN body \ owned)
  BY <1>4 DEF OutsideRanges
<1> QED BY <1>4, <1>5, <1>6, <1>8, <1>9 DEF spans, units, N, TxtPath

\* What was woven is read as the texts, and the rest of it stayed.
LEMMA WovenReads ==
  ASSUME NEW doc, doc.kind = "txt", doc.body \in Seq(Lexemes), NEW out \in Seq(Lexemes),
         NEW texts, FitIn(TxtSpans(doc.body), texts), NEW w, NEW lo, NEW hi,
         Woven(doc.body, TxtSpans(doc.body), texts, out, w, lo, hi), NEW new, new.kind = "txt", new.body = out
  PROVE  /\ Len(Units(new)) = Len(Units(doc))
         /\ \A k \in DOMAIN Units(doc) : Units(new)[k].source = texts[k] /\ Units(new)[k].hasTarget = FALSE
         /\ OutsideRanges(new) = OutsideRanges(doc)
<1> DEFINE body == doc.body
           spans == TxtSpans(body)
           m == Len(spans)
           K == 1..m
           O == Outside(Len(body), spans)
           P == Outside(Len(out), Moved(lo, hi, m))
<1>1. /\ w \in [O -> 1..Len(out)] /\ lo \in [K -> 1..Len(out)] /\ hi \in [K -> 1..Len(out)]
      /\ \A i \in O : out[w[i]] = body[i]
      /\ \A k \in K : /\ lo[k] <= hi[k] /\ Len(texts[k]) = hi[k] - lo[k] + 1
                      /\ \A q \in lo[k]..hi[k] : out[q] = texts[k][q - lo[k] + 1]
      /\ \A i, j \in O : i < j => w[i] < w[j]
      /\ \A i \in O, k \in K : (i < spans[k].from => w[i] < lo[k]) /\ (spans[k].to < i => hi[k] < w[i])
      /\ \A q \in 1..Len(out) : (\E i \in O : w[i] = q) \/ (\E k \in K : lo[k] <= q /\ q <= hi[k])
  BY DEF Woven
<1>2. TxtSpans(out) = Moved(lo, hi, m)
  <2>1. AreParas(Content(out), Moved(lo, hi, m))
    BY TxtSpansAre, WovenParas
  <2> QED BY <2>1, TxtSpansAre, ContentType, ParasUnique
<1>3. AreCores(Content(body), spans) /\ Content(body) \in Seq(Lexemes) /\ Len(Content(body)) = Len(body)
  BY TxtSpansAre, ContentType DEF AreParas
<1>4. /\ m \in Nat
      /\ \A k \in K : spans[k].from \in 1..Len(body) /\ spans[k].to \in 1..Len(body)
  BY <1>3, CoresAre, ZenonT(20)
<1>5. Len(Moved(lo, hi, m)) = m /\ \A k \in K : Moved(lo, hi, m)[k] = [from |-> lo[k], to |-> hi[k]]
  BY <1>4 DEF Moved
<1>6. Units(doc) = TxtUnits(body) /\ DOMAIN TxtUnits(body) = K /\ Len(TxtUnits(body)) = m
  BY TxtUnitsAt
<1>7. /\ Units(new) = TxtUnits(out) /\ Len(TxtUnits(out)) = m
      /\ \A k \in K : /\ TxtUnits(out)[k].source = Slice(out, [from |-> lo[k], to |-> hi[k]])
                      /\ TxtUnits(out)[k].hasTarget = FALSE
  <2>1. DOMAIN TxtUnits(out) = 1..Len(TxtSpans(out)) /\ Len(TxtUnits(out)) = Len(TxtSpans(out))
        /\ Units(new) = TxtUnits(out)
        /\ \A k \in 1..Len(TxtSpans(out)) : /\ TxtUnits(out)[k].source = Slice(out, TxtSpans(out)[k])
                                             /\ TxtUnits(out)[k].hasTarget = FALSE
    BY TxtUnitsAt
  <2>2. Len(TxtSpans(out)) = m
    BY <1>2, <1>5
  <2>3. \A k \in K : TxtSpans(out)[k] = [from |-> lo[k], to |-> hi[k]]
    BY <1>2, <1>5
  <2> QED BY <2>1, <2>2, <2>3
<1>8. ASSUME NEW k \in K PROVE Slice(out, [from |-> lo[k], to |-> hi[k]]) = texts[k]
  <2>1. PICK a, b, x : a = lo[k] /\ b = hi[k] /\ x = texts[k]
    OBVIOUS
  <2>2. a \in 1..Len(out) /\ b \in 1..Len(out) /\ a <= b /\ Len(x) = b - a + 1 /\ x \in Seq(Lexemes)
    BY <1>1, <2>1 DEF FitIn
  <2>3. \A i \in 1..Len(x) : out[a + i - 1] = x[i]
    <3> SUFFICES ASSUME NEW i \in 1..Len(x) PROVE out[a + i - 1] = x[i]
      OBVIOUS
    <3>1. PICK q : q = a + i - 1
      OBVIOUS
    <3>2. q \in a..b /\ q - a + 1 = i
      BY <2>2, <3>1
    <3>3. out[q] = x[q - a + 1]
      BY <1>1, <2>1, <3>2
    <3> QED BY <3>1, <3>2, <3>3
  <2>4. SubSeq(out, a, b) = x
    BY <2>2, <2>3
  <2> QED BY <2>1, <2>4 DEF Slice
<1>9. /\ OutsideRanges(doc) = Kept(body, O)
      /\ OutsideRanges(new) = Kept(out, P)
  BY <1>2, TxtUnitsAt
<1> HIDE DEF body, spans, m
<1>10. /\ \A i : i \in O <=> i \in 1..Len(body) /\ \A k \in K : ~(spans[k].from <= i /\ i <= spans[k].to)
       /\ \A q : q \in P <=> q \in 1..Len(out) /\ \A k \in K : ~(lo[k] <= q /\ q <= hi[k])
  <2>1. PICK mv : mv = Moved(lo, hi, m)
    OBVIOUS
  <2>2. Len(mv) = m /\ \A k \in K : mv[k].from = lo[k] /\ mv[k].to = hi[k]
    BY <1>5, <2>1
  <2>3. P = {q \in 1..Len(out) : \A k \in 1..Len(mv) : ~(mv[k].from <= q /\ q <= mv[k].to)}
    BY <2>1 DEF Outside
  <2>4. O = {i \in 1..Len(body) : \A k \in 1..Len(spans) : ~(spans[k].from <= i /\ i <= spans[k].to)}
    BY DEF Outside
  <2>5. Len(spans) = m
    BY DEF m
  <2> HIDE DEF O, P
  <2> QED BY <2>2, <2>3, <2>4, <2>5
<1> HIDE DEF O, P
<1>11. ASSUME NEW i \in O PROVE w[i] \in P
  <2>1. w[i] \in 1..Len(out) /\ i \in 1..Len(body)
    BY <1>1, <1>10
  <2>2. ASSUME NEW k \in K PROVE ~(lo[k] <= w[i] /\ w[i] <= hi[k])
    <3>1. PICK a, b, c, d, x : /\ a = spans[k].from /\ b = spans[k].to /\ c = lo[k] /\ d = hi[k] /\ x = w[i]
      OBVIOUS
    <3>0. Len(out) \in Nat /\ Len(body) \in Nat
      BY DEF body
    <3>4. a \in 1..Len(body) /\ b \in 1..Len(body) /\ c \in 1..Len(out) /\ d \in 1..Len(out)
      BY <1>1, <1>4, <2>2, <3>1 DEF body, spans, m
    <3>5. ~(a <= i /\ i <= b)
      BY <1>10, <2>2, <3>1
    <3>6. (i < a => x < c) /\ (b < i => d < x)
      BY <1>1, <2>2, <3>1 DEF body, spans, m
    <3>2. /\ a \in Nat /\ b \in Nat /\ c \in Nat /\ d \in Nat /\ x \in Nat /\ i \in Nat
          /\ ~(a <= i /\ i <= b) /\ (i < a => x < c) /\ (b < i => d < x)
      BY <2>1, <3>0, <3>1, <3>4, <3>5, <3>6, SMTT(15)
    <3>3. ~(c <= x /\ x <= d)
      BY <3>2
    <3> QED BY <3>1, <3>3
  <2> QED BY <1>10, <2>1, <2>2
<1>12. \A q \in P : \E i \in O : w[i] = q
  BY <1>1, <1>10
<1>13. Agree(body, O, out, P)
  <2>1. w \in [O -> P]
    BY <1>1, <1>11
  <2> QED BY <1>1, <1>12, <2>1 DEF Agree
<1>14. Within(O, Len(body)) /\ Within(P, Len(out))
  <2>1. Len(body) \in Nat /\ Len(out) \in Nat
    BY DEF body
  <2> QED BY <1>10, <2>1 DEF Within
<1>15. Kept(out, P) = Kept(body, O)
  BY <1>13, <1>14, KeptAgrees
<1> QED BY <1>6, <1>7, <1>8, <1>9, <1>15

\* The rows of a path are rows of the grid.
LEMMA RowsAtAre ==
  ASSUME NEW grid, NEW n \in Nat, DOMAIN grid = 1..n, NEW path, NEW j \in DOMAIN RowsAt(grid, path)
  PROVE  \E i \in DOMAIN grid : RowsAt(grid, path)[j] = grid[i]
<1> DEFINE I == {i \in DOMAIN grid : grid[i].path = path}
           order == InOrder(I)
<1>1. Within(I, n)
  BY DEF Within
<1>2. Ascending(order, Cardinality(I), I)
  BY <1>1, InOrderAscends
<1>3. RowsAt(grid, path) = [k \in DOMAIN order |-> grid[order[k]]]
  BY DEF RowsAt, Kept
<1>4. \A i \in I : i \in DOMAIN grid
  OBVIOUS
<1> HIDE DEF I, order
<1>5. \A k \in DOMAIN order : order[k] \in I
  BY <1>2 DEF Ascending
<1> QED BY <1>3, <1>4, <1>5

\* What the rows of a unit of a plain text read, when paragraphs were typed into them.
LEMMA OwnTexts ==
  ASSUME NEW doc, IsDocument(doc), doc.kind = "txt", doc.body \in Seq(Lexemes),
         NEW grid, Grid(Units(doc), grid), RowsOver(grid, Lexemes), \A i \in DOMAIN grid : FitsIn(grid[i].target),
         NEW k \in 1..Len(TxtSpans(doc.body)), NEW text, text = TextAt(grid, TxtPath(doc.body, k))
  PROVE  Para(text) /\ (TxtSpans(doc.body)[k].from = 1 => text[1] # "BOM")
<1> DEFINE units == Units(doc)
           u == units[k]
           path == TxtPath(doc.body, k)
           own == RowsAt(grid, path)
<1>1. /\ units = TxtUnits(doc.body) /\ DOMAIN units = 1..Len(TxtSpans(doc.body))
      /\ u.path = path /\ u.source = Slice(doc.body, TxtSpans(doc.body)[k])
      /\ u.hasTarget = FALSE /\ u.tagged = FALSE
  BY TxtUnitsAt
<1>2. /\ u.source \in Seq(Lexemes) /\ Para(u.source)
      /\ TxtSpans(doc.body)[k].from = 1 => u.source[1] # "BOM"
  BY <1>1, SpanIsPara
<1>3. AreUnits(units, Lexemes)
  BY FileUnitsAre
<1>4. DOMAIN grid = 1..Len(grid) /\ Len(grid) \in Nat /\ \A i \in DOMAIN grid : grid[i].target \in Seq(Lexemes)
  BY DEF RowsOver
<1>5. PICK mode \in Modes, rules \in Rules : SameRows(grid, BuildSegments(units, mode, rules))
  BY DEF Grid
<1> HIDE DEF units
<1>6. ArePieces(own, Pieces(u, mode, rules))
  <2> DEFINE seqs == SegmentsOf(units, mode, rules)
             paths == PathsOf(units)
  <2>1. PICK Row : seqs \in Seq(Seq(Row))
    BY <1>3, SegmentsAre
  <2>2. Len(seqs) = Len(units) /\ ApartBy(paths, seqs) /\ BuildSegments(units, mode, rules) = FlattenSeq(seqs)
    BY <1>3, SegmentsAre
  <2>3. k \in 1..Len(units) /\ k \in DOMAIN units
    BY <1>1, <1>3 DEF AreUnits
  <2>4. seqs[k] = Pieces(u, mode, rules) /\ paths[k] = path
    BY <1>1, <2>3 DEF SegmentsOf, PathsOf
  <2> HIDE DEF seqs, paths
  <2>5. ArePieces(RowsAt(grid, paths[k]), seqs[k])
    BY <1>4, <1>5, <2>1, <2>2, <2>3, OwnRowsAreThePieces
  <2> QED BY <2>4, <2>5
<1>7. ASSUME NEW j \in DOMAIN own PROVE own[j].target \in Seq(Lexemes) /\ FitsIn(own[j].target)
  <2>1. PICK i \in DOMAIN grid : own[j] = grid[i]
    BY <1>4, RowsAtAre
  <2> QED BY <1>4, <2>1
<1>8. text = FlattenSeq([j \in DOMAIN own |-> Exported(own[j])])
  BY DEF TextAt
<1> HIDE DEF u, own, path
<1>9. PICK cores : IsCut(u, cores, Pieces(u, mode, rules))
  BY <1>1, <1>2, ParaIsCut
<1>10. Para(text) /\ (u.source[1] # "BOM" => text[1] # "BOM")
  BY <1>2, <1>6, <1>7, <1>8, <1>9, CutTexts
<1> QED BY <1>2, <1>10

(***************************************************************************)
(* The rows people work on, and those an export was made of, are the rows  *)
(* of the document, and what is in them came with the file or was typed.   *)
(***************************************************************************)
CameWith(doc) == {<<>>} \cup {Units(doc)[k].target : k \in DOMAIN Units(doc)}

PastFor(doc, grid) ==
  /\ IsDocument(doc) /\ Grid(Units(doc), grid)
  /\ \A i \in DOMAIN grid : grid[i].target \in Texts \cup CameWith(doc)

PastInv ==
  /\ copy # Absent => PastFor(copy, rows)
  /\ staged # Absent => copy # Absent
  /\ sent # <<>> => copy # Absent /\ PastFor(copy, sent)

\* What is in a row at first came with the file.
LEMMA BuiltCame ==
  ASSUME NEW L, NEW units, AreUnits(units, L), NEW mode \in Modes, NEW rules \in Rules,
         NEW i \in DOMAIN BuildSegments(units, mode, rules)
  PROVE  BuildSegments(units, mode, rules)[i].target \in {<<>>} \cup {units[k].target : k \in DOMAIN units}
<1> DEFINE seqs == SegmentsOf(units, mode, rules)
           built == BuildSegments(units, mode, rules)
           T == {<<>>} \cup {units[k].target : k \in DOMAIN units}
           Row == GridRow({units[k].path : k \in DOMAIN units}, L)
           S == {r \in Row : r.target \in T}
<1>1. seqs \in Seq(Seq(Row)) /\ Len(seqs) = Len(units) /\ built = FlattenSeq(seqs)
  BY SegmentsAre
<1>2. Len(units) \in Nat /\ DOMAIN units = 1..Len(units)
  BY DEF AreUnits
<1>3. \A k \in 1..Len(units) : seqs[k] = Pieces(units[k], mode, rules)
  BY <1>2 DEF SegmentsOf
<1> HIDE DEF seqs, Row, T
<1>4. ASSUME NEW k \in 1..Len(units), NEW j \in DOMAIN seqs[k] PROVE seqs[k][j].target \in T
  <2>1. units[k].target \in T /\ <<>> \in T
    BY <1>2 DEF T
  <2>2. PICK u : u = units[k]
    OBVIOUS
  <2>3. PICK p : p = Pieces(u, mode, rules)
    OBVIOUS
  <2>4. p = seqs[k] /\ j \in DOMAIN p /\ u.target \in T
    BY <1>3, <1>4, <2>1, <2>2, <2>3
  <2>5. CASE p = Whole(u)
    <3>1. j = 1
      BY <2>4, <2>5 DEF Whole
    <3> QED BY <2>4, <2>5, <3>1 DEF Whole
  <2>6. CASE p # Whole(u)
    <3> DEFINE ranges == Ranges(u.source, mode, rules)
               cores == [n \in DOMAIN ranges |-> Core(u.source, ranges[n])]
    <3>1. p = [n \in DOMAIN cores |-> [path |-> u.path, gap |-> Gap(u.source, cores, n),
                                       source |-> Slice(u.source, cores[n]), target |-> <<>>]]
      BY <2>3, <2>6 DEF Pieces
    <3> HIDE DEF cores
    <3>2. p[j].target = <<>>
      BY <2>4, <3>1
    <3> QED BY <2>1, <2>4, <3>2
  <2> QED BY <2>5, <2>6
<1>5. \A k \in 1..Len(units) : seqs[k] \in Seq(S)
  <2> SUFFICES ASSUME NEW k \in 1..Len(units) PROVE seqs[k] \in Seq(S)
    OBVIOUS
  <2>1. PICK s : s = seqs[k]
    OBVIOUS
  <2>2. s \in Seq(Row) /\ \A j \in DOMAIN s : s[j].target \in T
    BY <1>1, <1>4, <2>1
  <2>3. Len(s) \in Nat /\ DOMAIN s = 1..Len(s) /\ s = [j \in 1..Len(s) |-> s[j]] /\ \A j \in 1..Len(s) : s[j] \in Row
    BY <2>2
  <2>4. \A j \in 1..Len(s) : s[j] \in S
    BY <2>2, <2>3
  <2> HIDE DEF S
  <2>5. s \in Seq(S)
    BY <2>3, <2>4
  <2> QED BY <2>1, <2>5
<1> HIDE DEF S
<1>6. seqs \in Seq(Seq(S))
  <2>1. seqs = [k \in 1..Len(units) |-> seqs[k]]
    BY <1>1
  <2> QED BY <1>2, <1>5, <2>1
<1>7. built \in Seq(S)
  BY <1>1, <1>6, FlattenType
<1>8. built[i] \in S
  <2> HIDE DEF built
  <2>1. i \in DOMAIN built
    BY DEF built
  <2> QED BY <1>7, <2>1
<1> QED BY <1>8 DEF S, T

\* A text that is typed leaves the rows as they should be.
LEMMA EditedPast ==
  ASSUME NEW doc, NEW grid, PastFor(doc, grid), NEW i \in DOMAIN grid, NEW text \in Texts
  PROVE  PastFor(doc, [grid EXCEPT ![i].target = text])
<1> DEFINE new == [grid EXCEPT ![i].target = text]
<1>1. /\ IsDocument(doc) /\ Grid(Units(doc), grid)
      /\ \A j \in DOMAIN grid : grid[j].target \in Texts \cup CameWith(doc)
  BY DEF PastFor
<1>2. PICK mode \in Modes, rules \in Rules : SameRows(grid, BuildSegments(Units(doc), mode, rules))
  BY <1>1 DEF Grid
<1>3. DOMAIN new = DOMAIN grid /\ DOMAIN grid = 1..Len(grid)
  BY <1>1 DEF Grid
<1>4. Len(new) = Len(grid)
  BY <1>3
<1>5. \A k \in DOMAIN grid : /\ new[k].path = grid[k].path /\ new[k].gap = grid[k].gap
                             /\ new[k].source = grid[k].source
                             /\ new[k].target = IF k = i THEN text ELSE grid[k].target
  OBVIOUS
<1> HIDE DEF new
<1>6. SameRows(new, BuildSegments(Units(doc), mode, rules))
  BY <1>2, <1>3, <1>4, <1>5 DEF SameRows
<1>7. Grid(Units(doc), new)
  BY <1>2, <1>3, <1>4, <1>6 DEF Grid
<1>8. \A j \in DOMAIN new : new[j].target \in Texts \cup CameWith(doc)
  BY <1>1, <1>3, <1>5
<1> QED BY <1>1, <1>7, <1>8 DEF PastFor, new

\* Import, edit, export and rename keep it.
LEMMA PastKept ==
  ASSUME DocumentsAssumption, PastInv, [DocumentsNext]_vars
  PROVE  PastInv'
<1>1. ASSUME NEW file \in Files, NEW mode \in {"paragraph", "sentence"}, NEW rules \in Rules,
             Import(file, mode, rules)
      PROVE  PastInv'
  <2> DEFINE built == BuildSegments(Units(file), mode, rules)
  <2>1. copy = Absent /\ copy' = file /\ rows' = built /\ staged' = staged /\ sent' = sent
    BY <1>1 DEF Import
  <2>2. IsDocument(file) /\ AreUnits(Units(file), Lexemes)
    BY FileUnitsAre DEF DocumentsAssumption
  <2>3. Grid(Units(file), built)
    BY <2>2, BuiltIsGrid DEF Modes
  <2>4. \A i \in DOMAIN built : built[i].target \in CameWith(file)
    BY <2>2, BuiltCame DEF CameWith, Modes
  <2> HIDE DEF built
  <2>5. PastFor(copy', rows')
    BY <2>1, <2>2, <2>3, <2>4 DEF PastFor
  <2>6. staged = Absent /\ sent = <<>>
    BY <2>1 DEF PastInv
  <2> QED BY <2>1, <2>5, <2>6 DEF PastInv
<1>2. ASSUME NEW i \in DOMAIN rows, NEW text \in Texts, Edit(i, text)
      PROVE  PastInv'
  <2>1. rows' = [rows EXCEPT ![i].target = text] /\ copy' = copy /\ staged' = staged /\ sent' = sent
    BY <1>2 DEF Edit
  <2>2. copy # Absent => PastFor(copy, [rows EXCEPT ![i].target = text])
    BY EditedPast DEF PastInv
  <2> QED BY <2>1, <2>2 DEF PastInv
<1>3. ASSUME NEW overwrite \in BOOLEAN, NEW anchors \in BOOLEAN, Export(overwrite, anchors)
      PROVE  PastInv'
  <2>1. /\ copy # Absent /\ copy' = copy /\ rows' = rows
        /\ sent' = sent \/ sent' = rows
    BY <1>3 DEF Export, Fails, Publish
  <2> QED BY <2>1 DEF PastInv
<1>4. ASSUME Rename PROVE PastInv'
  <2>1. /\ staged # Absent /\ staged' = Absent /\ copy' = copy /\ rows' = rows
        /\ sent' = sent \/ sent' = rows
    BY <1>4 DEF Rename
  <2> QED BY <2>1 DEF PastInv
<1>5. ASSUME UNCHANGED vars PROVE PastInv'
  BY <1>5 DEF vars, PastInv
<1> QED BY <1>1, <1>2, <1>3, <1>4, <1>5 DEF DocumentsNext

\* A plain text that was exported is read as what was asked for, and the rest of it stayed.
LEMMA TxtReturns ==
  ASSUME ExportInv, PastInv, copy.kind = "txt", WasExported, \A text \in Texts : FitsIn(text)
  PROVE  /\ Len(Units(output)) = Len(Units(copy))
         /\ \A k \in DOMAIN Units(copy) : Delivery(output, k) = Promised(k)
         /\ Bones(output) = Bones(copy)
<1> DEFINE body == copy.body
           spans == TxtSpans(body)
           K == 1..Len(spans)
           merged == MergeForExport(sent)
           texts == TextsFor(body, merged)
<1>1. /\ GridFor(copy, sent) /\ ExportOf(copy, sent, output) /\ PastFor(copy, sent) /\ sent # <<>>
  BY DEF WasExported, ExportInv, PastInv
<1>2. IsDocument(copy) /\ body \in Seq(Lexemes) /\ Alphabet(copy) = Lexemes
      /\ copy = [kind |-> "txt", body |-> body]
  <2>1. IsDocument(copy)
    BY <1>1 DEF GridFor
  <2>2. body \in Seq(STRING) /\ copy = [kind |-> "txt", body |-> body]
    BY <2>1 DEF IsDocument
  <2> QED BY <2>1, <2>2, AsLexemes DEF Alphabet
<1>3. output = RangeExport(copy, merged) /\ output # NotWritten
  <2>1. PICK anchors \in BOOLEAN : output = FileOf(copy, sent, anchors) /\ output # NotWritten
    BY <1>1 DEF ExportOf
  <2>2. \A m, paths : WrittenFile(copy, m, paths) = RangeExport(copy, m)
    BY DEF WrittenFile
  <2> HIDE DEF merged
  <2> QED BY <2>1, <2>2 DEF FileOf, merged
<1>4. /\ Units(copy) = TxtUnits(body) /\ DOMAIN Units(copy) = K
      /\ \A k \in K : /\ Units(copy)[k].path = TxtPath(body, k)
                      /\ Units(copy)[k].source = Slice(body, spans[k])
                      /\ Units(copy)[k].hasTarget = FALSE
  BY <1>2, TxtUnitsAt, ZenonT(20)
<1>5. /\ Merges(sent, merged, Lexemes) /\ MergedFor(copy, merged, Lexemes)
      /\ RowsOver(sent, Lexemes)
  BY <1>1, <1>2, SentAsks, MergeIsFor, GridIsOver DEF GridFor
<1> HIDE DEF merged
<1>6. AskedOfSpans(body, merged)
  <2>1. \A n \in DOMAIN merged : merged[n].target \in Seq(Lexemes)
    BY <1>5 DEF Merges
  <2>2. \A j, k \in DOMAIN merged : merged[j].path = merged[k].path => j = k
    BY <1>5 DEF Merges
  <2>3. \A n \in DOMAIN merged : \E k \in K : merged[n].path = TxtPath(body, k)
    BY <1>4, <1>5 DEF MergedFor
  <2> QED BY <2>1, <2>2, <2>3 DEF AskedOfSpans
<1>7. \A i \in DOMAIN sent : FitsIn(sent[i].target)
  <2>1. FitsIn(<<>>)
    BY DEF FitsIn, Blank
  <2>2. \A k \in DOMAIN Units(copy) : Units(copy)[k].target = <<>>
    <3>1. \A k \in DOMAIN TxtUnits(body) : TxtUnits(body)[k].target = <<>>
      BY DEF TxtUnits, Unit
    <3> QED BY <1>4, <3>1
  <2>3. \A i \in DOMAIN sent : sent[i].target \in Texts \cup CameWith(copy)
    BY <1>1 DEF PastFor
  <2> QED BY <2>1, <2>2, <2>3 DEF CameWith
<1>8. ASSUME NEW k \in K
      PROVE  /\ texts[k] \in Seq(Lexemes) /\ Para(texts[k])
             /\ spans[k].from = 1 => texts[k][1] # "BOM"
             /\ texts[k] = IF Asked(merged, TxtPath(body, k)) # {} THEN TargetAt(merged, TxtPath(body, k))
                           ELSE Slice(body, spans[k])
  <2>1. texts[k] = IF Asked(merged, TxtPath(body, k)) # {} THEN TargetAt(merged, TxtPath(body, k))
                   ELSE Slice(body, spans[k])
    BY DEF TextsFor
  <2>2. CASE Asked(merged, TxtPath(body, k)) # {}
    <3>1. PICK text : text = TextAt(sent, TxtPath(body, k))
      OBVIOUS
    <3>2. texts[k] = text /\ text \in Seq(Lexemes)
      BY <1>5, <2>1, <2>2, <3>1, AskedIs
    <3>3. Grid(Units(copy), sent)
      BY <1>1 DEF PastFor
    <3>4. Para(text) /\ (spans[k].from = 1 => text[1] # "BOM")
      BY <1>2, <1>5, <1>7, <3>1, <3>3, OwnTexts
    <3> HIDE DEF texts
    <3> QED BY <2>1, <3>2, <3>4
  <2>3. CASE Asked(merged, TxtPath(body, k)) = {}
    <3>1. texts[k] = Slice(body, spans[k])
      BY <2>1, <2>3
    <3>2. /\ Slice(body, spans[k]) \in Seq(Lexemes) /\ Para(Slice(body, spans[k]))
          /\ spans[k].from = 1 => Slice(body, spans[k])[1] # "BOM"
      BY <1>2, SpanIsPara
    <3> HIDE DEF texts
    <3> QED BY <2>1, <3>1, <3>2
  <2> QED BY <2>2, <2>3
<1>9. FitIn(spans, texts)
  <2> HIDE DEF texts
  <2> QED BY <1>8 DEF FitIn
<1>10. PICK seqs : Places(body, merged, seqs) /\ output = [copy EXCEPT !.body = FlattenSeq(seqs)]
  BY <1>2, <1>3, <1>6, TxtPlaces
<1>11. PICK out, w, lo, hi : out = FlattenSeq(seqs) /\ out \in Seq(Lexemes) /\ Woven(body, spans, texts, out, w, lo, hi)
  BY <1>2, <1>9, <1>10, PlacesWeave
<1>12. output.kind = "txt" /\ output.body = out
  BY <1>2, <1>10, <1>11
<1>13. /\ Len(Units(output)) = Len(Units(copy))
       /\ \A k \in DOMAIN Units(copy) : Units(output)[k].source = texts[k] /\ Units(output)[k].hasTarget = FALSE
       /\ OutsideRanges(output) = OutsideRanges(copy)
  <2>1. /\ copy.kind = "txt" /\ copy.body \in Seq(Lexemes) /\ out \in Seq(Lexemes)
        /\ FitIn(TxtSpans(copy.body), texts) /\ Woven(copy.body, TxtSpans(copy.body), texts, out, w, lo, hi)
        /\ output.kind = "txt" /\ output.body = out
    BY <1>2, <1>9, <1>11, <1>12
  <2> HIDE DEF texts
  <2> QED BY <2>1, WovenReads
<1>14. Bones(output) = Bones(copy)
  BY <1>12, <1>13 DEF Bones
<1>15. ASSUME NEW k \in DOMAIN Units(copy) PROVE Delivery(output, k) = Promised(k)
  <2>1. Delivery(output, k) = texts[k]
    BY <1>13 DEF Delivery
  <2>2. Promised(k) = IF Asked(merged, Units(copy)[k].path) # {} THEN TargetAt(merged, Units(copy)[k].path)
                      ELSE Ships(Units(copy)[k])
    BY <1>5, PromisedIs
  <2>3. Units(copy)[k].path = TxtPath(body, k) /\ Ships(Units(copy)[k]) = Slice(body, spans[k]) /\ k \in K
    BY <1>4 DEF Ships
  <2> HIDE DEF texts
  <2> QED BY <1>8, <2>1, <2>2, <2>3
<1> QED BY <1>13, <1>14, <1>15

(***************************************************************************)
(* A plain text, exported and imported again, has the translation the grid *)
(* showed for every unit, and all that is not of a unit as it was, when    *)
(* what people type is one paragraph and does not begin with the byte      *)
(* order mark: a blank line typed into a row would make two units of one.  *)
(***************************************************************************)
THEOREM PlainTextReturns ==
  ASSUME \A text \in Texts : FitsIn(text)
  PROVE  DocumentsSpec => [](copy.kind = "txt" => TranslationsLand /\ NothingElseChanges)
<1>1. ExportInv /\ PastInv => (copy.kind = "txt" => TranslationsLand /\ NothingElseChanges)
  BY TxtReturns DEF TranslationsLand, NothingElseChanges
<1>2. DocumentsInit => PastInv
  BY DEF DocumentsInit, PastInv
<1>3. PastInv /\ [DocumentsNext]_vars => PastInv'
  BY DocumentsAssumption, PastKept
<1>4. DocumentsSpec => []PastInv
  BY <1>2, <1>3, PTL DEF DocumentsSpec
<1> QED BY <1>1, <1>4, ExportAlways, PTL

=============================================================================
