---------------------------- MODULE SegmentRow ----------------------------
(***************************************************************************)
(* One row of the segments table: its fields, the rules every writer of a  *)
(* target text follows, and what the store's upsert keeps of a written     *)
(* row.  The operators are shared by every module that writes segments.    *)
(*                                                                         *)
(* A text is a model value; Blank stands for every target that is empty    *)
(* after trimming, the only thing the code asks of a text.                 *)
(***************************************************************************)
EXTENDS Integers

CONSTANTS
  Sources,      \* source texts
  Targets,      \* target texts that are not blank
  Hashes,       \* hashes of normalized source texts
  HashOf,       \* HashOf[src] is the hash of src after normalization
  Blank,        \* the blank target text
  NoOrigin,     \* a row without an origin stamp
  MaxRevision   \* bound: a row at this revision is not written any more

ASSUME RowAssumption ==
  /\ HashOf \in [Sources -> Hashes]
  /\ Blank \notin Targets
  /\ MaxRevision \in Nat \ {0}

Texts == Targets \cup {Blank}

States == {"untranslated", "draft", "confirmed"}

\* Where a target text came from.  The engine stamps "tmExact", "tmFuzzy" and
\* "aiDraft" on its own; a client may send any kind.
Origins == [kind : {"tmExact", "tmFuzzy", "aiDraft", "human"}, edited : BOOLEAN]

Rows == [source : Sources, target : Texts, state : States, locked : BOOLEAN,
         origin : Origins \cup {NoOrigin}, revision : 1..MaxRevision]

Fresh(kind) == [kind |-> kind, edited |-> FALSE]

\* Variant: typing over a stamped text leaves the stamp unedited.
OriginKept(row, text, stamp) ==
  IF text = Blank THEN NoOrigin
  ELSE IF stamp # NoOrigin THEN [stamp EXCEPT !.edited = FALSE] ELSE row.origin

\* The origin of a row after its target became text: a blank row has none, a
\* stamped write carries the stamp, typing over a stamped text marks it edited.
OriginAfter(row, text, stamp) ==
  IF text = Blank THEN NoOrigin
  ELSE IF stamp # NoOrigin THEN [stamp EXCEPT !.edited = FALSE]
  ELSE IF row.origin # NoOrigin /\ text # row.target
       THEN [row.origin EXCEPT !.edited = TRUE]
       ELSE row.origin

\* The row a write of a new target text produces.
Retarget(row, text, stamp) ==
  [row EXCEPT !.target   = text,
              !.state    = IF text = Blank THEN "untranslated" ELSE "draft",
              !.origin   = OriginAfter(row, text, stamp),
              !.revision = @ + 1]

\* Variant: an automatic fill does not count as a write.
FillUnversioned(row, text, kind) ==
  [row EXCEPT !.target = text, !.state = "draft", !.origin = Fresh(kind)]

\* The row an automatic fill produces: a draft with a fresh stamp.
Fill(row, text, kind) ==
  [row EXCEPT !.target = text, !.state = "draft", !.origin = Fresh(kind),
              !.revision = @ + 1]

\* Variant: the lock is not looked at.
FillableLocked(row) == row.state = "untranslated" /\ row.target = Blank

\* Variant: drafts count as not translated yet.
FillableDrafts(row) == row.state # "confirmed" /\ ~row.locked

\* Rows that automation may fill: nothing translated yet and not read-only.
Fillable(row) == row.state = "untranslated" /\ row.target = Blank /\ ~row.locked

\* Variant: a blank row can be confirmed.
ConfirmableBlank(row) == ~row.locked

\* Rows a confirm accepts.
Confirmable(row) == ~row.locked /\ row.target # Blank

\* What the upsert keeps of a written row: the conflict clause assigns the
\* target-side columns only, so the stored source text and hash stay.
Upsert(stored, written) == [written EXCEPT !.source = stored.source]
===========================================================================
