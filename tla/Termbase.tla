------------------------------ MODULE Termbase ------------------------------
(***************************************************************************)
(* The entries of a termbase, which live in the database only: every call  *)
(* reads them, changes them and writes them in one transaction.  A target  *)
(* term stands for its text with its locale.                               *)
(***************************************************************************)
EXTENDS Store, SequencesExt

CONSTANTS
  KeyOf,                     \* KeyOf[term]: the term trimmed, folded and normalized
  TermFiles,                 \* files to import: sequences of [source, term, forbidden]
  MaxWrites                  \* bound: calls that write

ASSUME TermbaseAssumption ==
  /\ IsFiniteSet(Terms) /\ MaxWrites \in Nat
  /\ TermFiles \subseteq Seq([source : TermSources, term : TermTargets, forbidden : BOOLEAN])

VARIABLE writes

Called == phase = "open" /\ writes < MaxWrites /\ writes' = writes + 1

Saved(new) == Called /\ (Written(new) \/ Refused)

Same(term, other) == KeyOf[term] = KeyOf[other]

\* The entries whose source term is the same after normalization.
Homonyms(terms, src) == {t \in Terms : RowOf(terms, t) /\ Same(terms[t].source, src)}

Unused(terms) == {t \in Terms : ~RowOf(terms, t) /\ t \notin gone.terms}

\* A translation that is there already only takes over the flag.
Translated(list, tr) ==
  IF \E i \in DOMAIN list : Same(list[i].term, tr.term)
  THEN LET i == SelectInSeq(list, LAMBDA old : Same(old.term, tr.term))
       IN [list EXCEPT ![i].forbidden = tr.forbidden]
  ELSE Append(list, tr)

\* The entry of a source term, or a new one; with more translations.
Added(terms, src, tr, t) ==
  IF Homonyms(terms, src) = {}
  THEN [terms EXCEPT ![t] = [source |-> src, translations |-> Translated(<<>>, tr)]]
  ELSE [terms EXCEPT ![t].translations = Translated(@, tr)]

\* The entries an added term may go to: the first homonym or a new one.
Places(terms, src) ==
  IF Homonyms(terms, src) = {} THEN Unused(terms) ELSE Homonyms(terms, src)

TermAdd ==
  \E src \in TermSources, tr \in Translations :
    \E t \in Places(disk.terms, src) : Saved([disk EXCEPT !.terms = Added(@, src, tr, t)])

\* Variant: a rename is not compared with the other entries.
RenamableAlways(t, src) == TRUE

Renamable(t, src) == Homonyms(disk.terms, src) \subseteq {t}

\* The lists one edited translation leads to: no sibling has its term already.
Edited(list) ==
  {[list EXCEPT ![change[1]] = change[2]] :
     change \in {c \in (DOMAIN list) \X Translations :
                   \A j \in DOMAIN list \ {c[1]} : ~Same(list[j].term, c[2].term)}}

\* A new source term, an edited translation or both.
TermUpdate ==
  \E t \in {u \in Terms : RowOf(disk.terms, u)} :
    LET old == disk.terms[t]
    IN \E src \in {s \in TermSources : s # old.source => Renamable(t, s)},
          list \in {old.translations} \cup Edited(old.translations) :
         Saved([disk EXCEPT !.terms[t] = [source |-> src, translations |-> list]])

TermDelete ==
  \E t \in {u \in Terms : RowOf(disk.terms, u)} :
    \/ /\ \E i \in DOMAIN disk.terms[t].translations :
            Saved([disk EXCEPT !.terms[t].translations = RemoveAt(@, i)])
       /\ UNCHANGED gone
    \/ /\ Saved([disk EXCEPT !.terms[t] = None])
       /\ gone' = IF disk'.terms[t] = None THEN [gone EXCEPT !.terms = @ \cup {t}] ELSE gone

\* A file is merged entry by entry, against what is there and against itself;
\* one transaction writes the result.
Merged(terms, file) ==
  FoldLeft(LAMBDA all, line :
             Added(all, line.source, [term |-> line.term, forbidden |-> line.forbidden],
                   CHOOSE t \in Places(all, line.source) : TRUE),
           terms, file)

TermbaseImport ==
  \E file \in TermFiles :
    /\ Cardinality(Unused(disk.terms)) >= Len(file)
    /\ Saved([disk EXCEPT !.terms = Merged(@, file)])

TermNext ==
  /\ \/ TermDelete
     \/ (TermAdd \/ TermUpdate \/ TermbaseImport) /\ UNCHANGED gone
  /\ UNCHANGED <<header, ram, index, phase, legacyFile, copies, crashes>>

-----------------------------------------------------------------------------
(* Two entries never have the same source term and two translations of an   *)
(* entry never the same term, as they compare after normalization, however  *)
(* adding, renaming, editing and importing alternate: a lookup shows one    *)
(* entry and QA judges a term by one flag.                                  *)
OneEntryPerTerm ==
  \A t \in Terms : RowOf(disk.terms, t) =>
    /\ Homonyms(disk.terms, disk.terms[t].source) = {t}
    /\ LET list == disk.terms[t].translations
       IN \A i, j \in DOMAIN list : i # j => ~Same(list[i].term, list[j].term)
=============================================================================
