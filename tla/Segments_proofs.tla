--------------------------- MODULE Segments_proofs ---------------------------
(***************************************************************************)
(* Proofs about SegmentGrid, QaIssues and AiDrafts, for any number of      *)
(* segments, clients, memories and texts and for any bound on revisions:   *)
(* first what the handlers of the grid keep, then what runs, waivers and   *)
(* corrections keep, then what the AI writers keep.                        *)
(***************************************************************************)
EXTENDS AiDrafts, TLAPS

\* A row that a handler rewrote is a row again, and further on.
LEMMA RetargetType ==
  ASSUME NEW row \in Rows, row.revision < MaxRevision, NEW text \in Texts,
         NEW stamp \in Origins \cup {NoOrigin}
  PROVE  /\ Retarget(row, text, stamp) \in Rows
         /\ Retarget(row, text, stamp).revision > row.revision
         /\ Retarget(row, text, stamp).state # "confirmed"
         /\ Retarget(row, text, stamp).state = "untranslated" <=> text = Blank
         /\ Retarget(row, text, stamp).target = text
         /\ Retarget(row, text, stamp).locked = row.locked
  <1>1. OriginAfter(row, text, stamp) \in Origins \cup {NoOrigin}
    BY GridAssumption DEF OriginAfter, Origins, Rows
  <1>2. row.revision + 1 \in 1..MaxRevision /\ row.revision + 1 > row.revision
    BY RowAssumption DEF Rows
  <1> QED BY <1>1, <1>2 DEF Retarget, Rows, States

LEMMA FreshType ==
  ASSUME NEW kind \in {"tmExact", "tmFuzzy", "aiDraft"}
  PROVE  Fresh(kind) \in Origins
  BY DEF Fresh, Origins

\* What clients send along with an update is an origin.
LEMMA RequestType ==
  ASSUME NEW text \in Edits, NEW stamp \in Stamps
  PROVE  text \in Texts /\ stamp \in Origins \cup {NoOrigin}
  BY GridAssumption

LEMMA FillType ==
  ASSUME NEW row \in Rows, row.revision < MaxRevision, NEW text \in Texts,
         NEW kind \in {"tmExact", "tmFuzzy", "aiDraft"}
  PROVE  /\ Fill(row, text, kind) \in Rows
         /\ Fill(row, text, kind).revision > row.revision
         /\ Fill(row, text, kind).state = "draft"
         /\ Fill(row, text, kind).target = text
  <1>1. Fresh(kind) \in Origins
    BY FreshType
  <1>2. row.revision + 1 \in 1..MaxRevision /\ row.revision + 1 > row.revision
    BY RowAssumption DEF Rows
  <1> QED BY <1>1, <1>2 DEF Fill, Rows, States

LEMMA UpsertType ==
  ASSUME NEW stored \in Rows, NEW written \in Rows
  PROVE  /\ Upsert(stored, written) \in Rows
         /\ Upsert(stored, written).target = written.target
         /\ Upsert(stored, written).state = written.state
         /\ Upsert(stored, written).origin = written.origin
         /\ Upsert(stored, written).locked = written.locked
         /\ Upsert(stored, written).revision = written.revision
         /\ Upsert(stored, written).source = stored.source
  BY DEF Upsert, Rows

LEMMA RefreshType ==
  ASSUME NEW old \in [Findings -> Statuses], NEW row \in Rows, NEW k \in Settings
  PROVE  /\ RefreshSegment(old, row, k) \in [Findings -> Statuses]
         /\ \A f \in SegmentFindings(row, k) \cap Findings :
              RefreshSegment(old, row, k)[f] \in {"open", "waived"}
  BY DEF RefreshSegment, Reconcile, Statuses

\* What the segment rules find in a row with a text is within the findings.
LEMMA FindingsInRange ==
  ASSUME NEW row \in Rows, row.target # Blank, NEW k \in Settings
  PROVE  SegmentFindings(row, k) \subseteq Findings
  <1>1. row.target \in Texts /\ row.target \in Targets
    BY DEF Rows, Texts
  <1>2. TextFindings(row, k) \subseteq Findings
    BY <1>1 DEF TextFindings, Findings
  <1>3. BehaviourFindings(row) \subseteq Findings
    BY <1>1 DEF BehaviourFindings, Findings, BehaviourRules
  <1> QED BY <1>2, <1>3 DEF SegmentFindings

-----------------------------------------------------------------------------
\* No client holds an answer from the future, and an answer of the current
\* revision shows the current row.
RevInv ==
  \A c \in Clients, s \in Segments :
    view[c][s] # Unseen =>
      /\ view[c][s].revision <= seg[s].revision
      /\ view[c][s].revision = seg[s].revision => Upsert(seg[s], view[c][s]) = seg[s]

\* The rows a handler built: each is further than the stored one.
Advances(written, S) ==
  \A s \in S : /\ written[s] \in Rows
               /\ written[s].revision > seg[s].revision

\* A transaction whose rows each moved on keeps the rows and the
\* answers typed, and keeps RevInv whether or not the answer arrives.
LEMMA CommitStep ==
  ASSUME seg \in [Segments -> Rows],
         view \in [Clients -> [Segments -> Rows \cup {Unseen}]],
         RevInv,
         NEW c, NEW S \in SUBSET Segments, NEW written,
         Advances(written, S),
         Commit(c, written, S)
  PROVE  /\ seg' \in [Segments -> Rows]
         /\ view' \in [Clients -> [Segments -> Rows \cup {Unseen}]]
         /\ RevInv'
  <1>1. seg' \in [Segments -> Rows]
    BY UpsertType DEF Commit, Advances
  <1>2. view' \in [Clients -> [Segments -> Rows \cup {Unseen}]]
    BY DEF Commit, Advances
  <1>3. \A s \in Segments : IF s \in S THEN seg'[s] = Upsert(seg[s], written[s])
                                       ELSE seg'[s] = seg[s]
    BY DEF Commit
  <1>4. ASSUME NEW d \in Clients, NEW s \in Segments, view'[d][s] # Unseen
        PROVE  /\ view'[d][s].revision <= seg'[s].revision
               /\ view'[d][s].revision = seg'[s].revision =>
                    Upsert(seg'[s], view'[d][s]) = seg'[s]
    <2>0. seg[s] \in Rows /\ seg[s].revision \in Int
      BY DEF Rows
    <2>1. CASE s \notin S
      <3>1. view'[d][s] = view[d][s]
        BY <2>1 DEF Commit
      <3> QED BY <2>1, <3>1, <1>3, <1>4 DEF RevInv
    <2>2. CASE s \in S /\ view'[d][s] = written[s]
      <3>1. seg'[s] = Upsert(seg[s], written[s])
        BY <2>2, <1>3
      <3>2. written[s] \in Rows
        BY <2>2 DEF Advances
      <3>3. seg'[s].revision = written[s].revision /\ written[s].revision \in Int
        BY <3>1, <3>2, <2>0, UpsertType DEF Rows
      <3>4. Upsert(seg'[s], written[s]) = seg'[s]
        BY <3>1, <3>2, <2>0 DEF Upsert, Rows
      <3> QED BY <2>2, <3>3, <3>4
    <2>3. CASE s \in S /\ view'[d][s] = view[d][s]
      <3>1. written[s] \in Rows /\ written[s].revision > seg[s].revision
        BY <2>3 DEF Advances
      <3>2. seg'[s].revision > seg[s].revision
        BY <2>3, <1>3, <3>1, <2>0, UpsertType
      <3>3. view[d][s] \in Rows /\ view[d][s].revision <= seg[s].revision
        BY <2>3, <1>4 DEF RevInv
      <3>4. view[d][s].revision \in Int /\ seg'[s].revision \in Int
        BY <1>1, <3>3 DEF Rows
      <3> QED BY <2>3, <3>2, <3>3, <3>4, <2>0
    <2>4. view'[d][s] = view[d][s] \/ (s \in S /\ view'[d][s] = written[s])
      BY DEF Commit
    <2> QED BY <2>1, <2>2, <2>3, <2>4
  <1> QED BY <1>1, <1>2, <1>4 DEF RevInv

\* A handler writes no row that is at the revision bound.
LEMMA CommitBound ==
  ASSUME NEW c, NEW S, NEW written, Commit(c, written, S)
  PROVE  \A s \in S : seg[s].revision < MaxRevision
  BY DEF Commit

\* What the segment rules find depends on the text, the state, the origin and the
\* settings.
LEMMA SameFindings ==
  ASSUME NEW a, NEW b, a.target = b.target, a.state = b.state, a.origin = b.origin
  PROVE  \A k : SegmentFindings(a, k) = SegmentFindings(b, k)
  BY DEF SegmentFindings, TextFindings, BehaviourFindings

\* A confirmed row has a text; and a row is untranslated exactly when it has none,
\* unless a writer may leave a blank draft.
InStep(row, loose) ==
  /\ row.state = "confirmed" => row.target # Blank
  /\ ~loose => (row.state = "untranslated" <=> row.target = Blank)

RowsInStep(loose) == \A s \in Segments : InStep(seg[s], loose)

\* The inductive invariant: types, the revision rule, and the two facts that
\* relate a row to its text and to its issues.
IInv(loose) == TypeOK /\ RevInv /\ RowsInStep(loose) /\ ConfirmedFindingsOnRecord

\* The rows a handler built are in step with their texts and with the issues it
\* leaves behind.
Consistent(written, S, loose) ==
  \A s \in S :
    /\ InStep(written[s], loose)
    /\ written[s].state = "confirmed" =>
         \A f \in SegmentFindings(written[s], judged'[s]) : issues'[s][f] \in {"open", "waived"}

\* The issues of the rows outside S are not judged anew.
Unjudged(S) == \A s \in Segments \ S : issues'[s] = issues[s] /\ judged'[s] = judged[s]

\* The variables a commit does not mention stay typed.
OthersTyped ==
  /\ issues' \in [Segments -> [Findings -> Statuses]]
  /\ tm' \in [Memories -> [Hashes -> Entries \cup {NoEntry}]]
  /\ working' \in Memories \cup {NoMemory} /\ enabled' \in SUBSET Memories
  /\ learned' \in SUBSET Vouchers
  /\ setting' \in Settings /\ judged' \in [Segments -> Settings]

\* The same transaction keeps states in step with texts, and the issues of
\* confirmed rows in step with their findings, when its rows do.
LEMMA CommitKeeps ==
  ASSUME NEW loose \in BOOLEAN, IInv(loose),
         NEW c, NEW S \in SUBSET Segments, NEW written,
         Advances(written, S), Consistent(written, S, loose), OthersTyped,
         Unjudged(S), Commit(c, written, S)
  PROVE  IInv(loose)'
  <1>1. /\ seg' \in [Segments -> Rows]
        /\ view' \in [Clients -> [Segments -> Rows \cup {Unseen}]]
        /\ RevInv'
    <2>1. /\ seg \in [Segments -> Rows]
          /\ view \in [Clients -> [Segments -> Rows \cup {Unseen}]]
          /\ RevInv
      BY DEF IInv, TypeOK
    <2> QED BY <2>1, CommitStep
  <1>2. TypeOK'
    BY <1>1 DEF TypeOK, OthersTyped
  <1>3. seg \in [Segments -> Rows]
    BY DEF IInv, TypeOK
  <1>4. ASSUME NEW s \in Segments
        PROVE  /\ InStep(seg'[s], loose)
               /\ seg'[s].state = "confirmed" =>
                    \A f \in SegmentFindings(seg'[s], judged'[s]) :
                      issues'[s][f] \in {"open", "waived"}
    <2>1. CASE s \in S
      <3>1. seg'[s] = Upsert(seg[s], written[s])
        BY <2>1 DEF Commit
      <3>2. /\ seg'[s].target = written[s].target
            /\ seg'[s].state = written[s].state
            /\ seg'[s].origin = written[s].origin
        BY <2>1, <3>1, <1>3, UpsertType DEF Advances
      <3>3. SegmentFindings(seg'[s], judged'[s]) = SegmentFindings(written[s], judged'[s])
        BY <3>2, SameFindings
      <3> QED BY <2>1, <3>2, <3>3 DEF Consistent, InStep
    <2>2. CASE s \notin S
      <3>1. seg'[s] = seg[s] /\ issues'[s] = issues[s] /\ judged'[s] = judged[s]
        BY <2>2 DEF Commit, Unjudged
      <3>2. SegmentFindings(seg'[s], judged'[s]) = SegmentFindings(seg[s], judged[s])
        BY <3>1
      <3> QED BY <3>1, <3>2 DEF IInv, RowsInStep, ConfirmedFindingsOnRecord
    <2> QED BY <2>1, <2>2
  <1>5. RowsInStep(loose)' /\ ConfirmedFindingsOnRecord'
    BY <1>4 DEF RowsInStep, ConfirmedFindingsOnRecord
  <1> QED BY <1>1, <1>2, <1>5 DEF IInv

-----------------------------------------------------------------------------
LEMMA InitIInv ==
  ASSUME NEW loose \in BOOLEAN, Init
  PROVE  IInv(loose)
  <1>1. \A row \in Imports : /\ row \in Rows
                             /\ row.state = "untranslated" <=> row.target = Blank
                             /\ row.state # "confirmed"
    BY DEF Imports
  <1>2. seg \in [Segments -> Imports]
    BY DEF Init
  <1>3. seg \in [Segments -> Rows]
    BY <1>1, <1>2
  <1>4. TypeOK
    BY <1>3 DEF Init, TypeOK, Statuses
  <1>5. RevInv
    BY DEF Init, RevInv
  <1>6. RowsInStep(loose) /\ ConfirmedFindingsOnRecord
    BY <1>1, <1>2 DEF RowsInStep, InStep, ConfirmedFindingsOnRecord
  <1> QED BY <1>4, <1>5, <1>6 DEF IInv

LEMMA UpdateIInv ==
  ASSUME NEW loose \in BOOLEAN, IInv(loose), NEW c \in Clients, NEW s \in Segments, NEW text \in Edits,
         NEW stamp \in Stamps, SegmentUpdate(c, s, text, stamp)
  PROVE  IInv(loose)'
  <1> DEFINE written == [q \in {s} |-> Retarget(seg[s], text, stamp)]
  <1>1. Commit(c, written, {s}) /\ UNCHANGED <<issues, tm, working, enabled, setting, judged>>
    BY DEF SegmentUpdate
  <1>2. seg[s] \in Rows /\ seg[s].revision < MaxRevision
    BY <1>1, CommitBound DEF IInv, TypeOK
  <1>3. text \in Texts /\ stamp \in Origins \cup {NoOrigin}
    BY RequestType
  <1>4. /\ Advances(written, {s})
        /\ written[s].state = "untranslated" <=> written[s].target = Blank
        /\ written[s].state # "confirmed"
    BY <1>2, <1>3, RetargetType DEF Advances
  <1> HIDE DEF written
  <1>5. Consistent(written, {s}, loose)
    BY <1>4 DEF Consistent, InStep
  <1>6. OthersTyped
    <2>1. Voucher(seg[s].source, text, "stamp") \in Vouchers
      BY <1>2, <1>3 DEF Voucher, Vouchers, Rows
    <2>2. learned' \in SUBSET Vouchers
      BY <2>1 DEF SegmentUpdate, IInv, TypeOK
    <2> QED BY <1>1, <2>2 DEF IInv, TypeOK, OthersTyped
  <1>7. Unjudged({s})
    BY <1>1 DEF Unjudged
  <1> QED BY <1>1, <1>4, <1>5, <1>6, <1>7, CommitKeeps

LEMMA UpdateSourceIInv ==
  ASSUME NEW loose \in BOOLEAN, IInv(loose), NEW c \in Clients, NEW s \in Segments, NEW src \in SourceEdits,
         SegmentUpdateSource(c, s, src)
  PROVE  IInv(loose)'
  <1> DEFINE row == [seg[s] EXCEPT !.source = src,
                       !.state = IF src # seg[s].source /\ @ = "confirmed" THEN "draft" ELSE @,
                       !.revision = @ + 1]
             written == [q \in {s} |-> row]
  <1>1. Commit(c, written, {s}) /\ UNCHANGED <<issues, tm, working, enabled, learned, setting, judged>>
    BY DEF SegmentUpdateSource
  <1>2. seg[s] \in Rows /\ seg[s].revision < MaxRevision /\ src \in Sources
    BY <1>1, CommitBound, GridAssumption DEF IInv, TypeOK
  <1>3. seg[s].revision + 1 \in 1..MaxRevision /\ seg[s].revision + 1 > seg[s].revision
    BY <1>2, RowAssumption DEF Rows
  <1>4. /\ row \in Rows /\ row.revision > seg[s].revision
        /\ row.target = seg[s].target /\ row.origin = seg[s].origin
        /\ row.state \in {seg[s].state, "draft"}
        /\ row.state = "draft" => seg[s].state \in {"draft", "confirmed"}
    BY <1>2, <1>3 DEF Rows, States
  <1>5. /\ Advances(written, {s})
        /\ InStep(written[s], loose)
        /\ written[s].state = "confirmed" =>
             \A f \in SegmentFindings(written[s], judged[s]) : issues'[s][f] \in {"open", "waived"}
    <2> HIDE DEF row
    <2>1. written[s] = row
      OBVIOUS
    <2>2. Advances(written, {s})
      BY <1>4 DEF Advances
    <2>3. InStep(row, loose)
      BY <1>4 DEF IInv, RowsInStep, InStep
    <2>4. ASSUME row.state = "confirmed"
          PROVE  \A f \in SegmentFindings(row, judged[s]) : issues'[s][f] \in {"open", "waived"}
      <3>1. seg[s].state = row.state
        BY <1>4, <2>4
      <3>2. SegmentFindings(row, judged[s]) = SegmentFindings(seg[s], judged[s])
        BY <1>4, <3>1, SameFindings
      <3> QED BY <1>1, <2>4, <3>1, <3>2 DEF IInv, ConfirmedFindingsOnRecord
    <2> QED BY <2>1, <2>2, <2>3, <2>4
  <1> HIDE DEF written
  <1>6. Consistent(written, {s}, loose)
    BY <1>1, <1>5 DEF Consistent, InStep
  <1>7. OthersTyped
    BY <1>1 DEF IInv, TypeOK, OthersTyped
  <1>8. Unjudged({s})
    BY <1>1 DEF Unjudged
  <1> QED BY <1>1, <1>5, <1>6, <1>7, <1>8, CommitKeeps

LEMMA LockIInv ==
  ASSUME NEW loose \in BOOLEAN, IInv(loose), NEW c \in Clients, NEW s \in Segments, NEW locked \in BOOLEAN,
         SegmentLock(c, s, locked)
  PROVE  IInv(loose)'
  <1> DEFINE row == [seg[s] EXCEPT !.locked = locked, !.revision = @ + 1]
             written == [q \in {s} |-> row]
  <1>1. Commit(c, written, {s}) /\ UNCHANGED <<issues, tm, working, enabled, learned, setting, judged>>
    BY DEF SegmentLock
  <1>2. seg[s] \in Rows /\ seg[s].revision < MaxRevision
    BY <1>1, CommitBound DEF IInv, TypeOK
  <1>3. seg[s].revision + 1 \in 1..MaxRevision /\ seg[s].revision + 1 > seg[s].revision
    BY <1>2, RowAssumption DEF Rows
  <1>4. /\ row \in Rows /\ row.revision > seg[s].revision
        /\ row.target = seg[s].target /\ row.origin = seg[s].origin
        /\ row.state = seg[s].state
    BY <1>2, <1>3 DEF Rows
  <1>5. written[s] = row
    OBVIOUS
  <1> HIDE DEF row
  <1>6. Advances(written, {s})
    BY <1>4 DEF Advances
  <1>7. SegmentFindings(row, judged[s]) = SegmentFindings(seg[s], judged[s])
    BY <1>4, SameFindings
  <1> HIDE DEF written
  <1>8. Consistent(written, {s}, loose)
    BY <1>1, <1>4, <1>5, <1>7
       DEF Consistent, IInv, RowsInStep, InStep, ConfirmedFindingsOnRecord
  <1>9. OthersTyped
    BY <1>1 DEF IInv, TypeOK, OthersTyped
  <1>10. Unjudged({s})
    BY <1>1 DEF Unjudged
  <1> QED BY <1>1, <1>6, <1>8, <1>9, <1>10, CommitKeeps

LEMMA ReplaceIInv ==
  ASSUME NEW loose \in BOOLEAN, IInv(loose), NEW c \in Clients, NEW d \in Documents, NEW w \in Rewrites,
         NEW incl \in BOOLEAN, SegmentReplace(c, d, w, incl)
  PROVE  IInv(loose)'
  <1> DEFINE S == {s \in RowsOf(d) : /\ seg[s].target \in DOMAIN w
                                     /\ ~seg[s].locked
                                     /\ seg[s].state = "confirmed" => incl}
             written == [s \in S |-> Retarget(seg[s], w[seg[s].target], NoOrigin)]
  <1>1. Commit(c, written, S) /\ UNCHANGED <<issues, tm, working, enabled, learned, setting, judged>>
    BY DEF SegmentReplace
  <1>2. S \in SUBSET Segments
    BY DEF RowsOf
  <1>3. ASSUME NEW s \in S
        PROVE  /\ written[s] \in Rows /\ written[s].revision > seg[s].revision
               /\ written[s].state = "untranslated" <=> written[s].target = Blank
               /\ written[s].state # "confirmed"
    <2>1. seg[s] \in Rows /\ seg[s].revision < MaxRevision
      BY <1>1, <1>2, CommitBound DEF IInv, TypeOK
    <2>2. w[seg[s].target] \in Texts
      BY GridAssumption
    <2>3. written[s] = Retarget(seg[s], w[seg[s].target], NoOrigin)
      OBVIOUS
    <2> QED BY <2>1, <2>2, <2>3, RetargetType
  <1> HIDE DEF S, written
  <1>4. Advances(written, S) /\ Consistent(written, S, loose)
    BY <1>3 DEF Advances, Consistent, InStep
  <1>5. OthersTyped
    BY <1>1 DEF IInv, TypeOK, OthersTyped
  <1>6. Unjudged(S)
    BY <1>1 DEF Unjudged
  <1> QED BY <1>1, <1>2, <1>4, <1>5, <1>6, CommitKeeps

\* What a propagated confirm writes into a duplicate, or a pretranslation into a
\* row: a draft with a text.
LEMMA FillSteps ==
  ASSUME NEW loose \in BOOLEAN, IInv(loose), NEW s \in Segments, seg[s].revision < MaxRevision,
         NEW text \in Targets, NEW kind \in {"tmExact", "tmFuzzy", "aiDraft"},
         NEW row, row = Fill(seg[s], text, kind)
  PROVE  /\ row \in Rows /\ row.revision > seg[s].revision
         /\ row.state # "confirmed" /\ row.state # "untranslated" /\ row.target # Blank
  <1>1. seg[s] \in Rows /\ text \in Texts /\ text # Blank
    BY RowAssumption DEF IInv, TypeOK, Texts
  <1> QED BY <1>1, FillType

LEMMA ConfirmIInv ==
  ASSUME NEW loose \in BOOLEAN, IInv(loose), NEW c \in Clients, NEW s \in Segments, NEW skip \in BOOLEAN,
         SegmentConfirm(c, s, skip)
  PROVE  IInv(loose)'
  <1> DEFINE row == [seg[s] EXCEPT !.state = "confirmed", !.revision = @ + 1]
             dups == IF skip THEN {} ELSE Duplicates(s)
             S == {s} \cup dups
             written == [q \in S |-> IF q = s THEN row ELSE Fill(seg[q], row.target, "tmExact")]
  <1>1. /\ Commit(c, written, S)
        /\ issues' = [issues EXCEPT ![s] = RefreshSegment(@, row, setting)]
        /\ judged' = [judged EXCEPT ![s] = setting]
        /\ UNCHANGED <<working, enabled, setting>>
        /\ Confirmable(seg[s]) /\ view[c][s] # Unseen
    BY DEF SegmentConfirm, BaseRevision
  <1>2. S \in SUBSET Segments
    BY DEF Duplicates
  <1>3. \A q \in S : seg[q] \in Rows /\ seg[q].revision < MaxRevision
    BY <1>1, <1>2, CommitBound DEF IInv, TypeOK
  <1>4. s \in S /\ seg[s] \in Rows /\ seg[s].target # Blank
    BY <1>1, <1>3 DEF Confirmable
  <1>5. /\ seg[s].revision + 1 \in 1..MaxRevision /\ seg[s].revision + 1 > seg[s].revision
        /\ seg[s].target \in Targets
    BY <1>3, <1>4, RowAssumption DEF Rows, Texts
  <1>6. /\ row \in Rows /\ row.revision > seg[s].revision
        /\ row.target = seg[s].target /\ row.state = "confirmed"
        /\ row.source = seg[s].source
    BY <1>4, <1>5 DEF Rows, States
  <1>7. setting \in Settings /\ SegmentFindings(row, setting) \subseteq Findings
    BY <1>4, <1>6, FindingsInRange DEF IInv, TypeOK
  <1>8. written[s] = row /\ \A q \in S \ {s} : written[q] = Fill(seg[q], row.target, "tmExact")
    BY <1>4
  <1> HIDE DEF row, S, written
  <1>9. \A q \in S \ {s} : /\ written[q] \in Rows /\ written[q].revision > seg[q].revision
                            /\ written[q].state # "confirmed" /\ written[q].state # "untranslated"
                            /\ written[q].target # Blank
    <2> TAKE q \in S \ {s}
    <2>1. q \in Segments /\ seg[q].revision < MaxRevision /\ row.target \in Targets
      BY <1>2, <1>3, <1>5, <1>6
    <2> QED BY <2>1, <1>8, FillSteps
  <1>10. Advances(written, S)
    BY <1>4, <1>6, <1>8, <1>9 DEF Advances
  <1>11. /\ issues[s] \in [Findings -> Statuses] /\ issues \in [Segments -> [Findings -> Statuses]]
         /\ judged \in [Segments -> Settings]
    BY DEF IInv, TypeOK
  <1>12. /\ issues'[s] = RefreshSegment(issues[s], row, setting) /\ judged'[s] = setting
         /\ Unjudged({s})
         /\ issues' \in [Segments -> [Findings -> Statuses]] /\ judged' \in [Segments -> Settings]
    BY <1>1, <1>6, <1>7, <1>11, RefreshType DEF Unjudged
  <1>13. \A f \in SegmentFindings(row, setting) : issues'[s][f] \in {"open", "waived"}
    BY <1>6, <1>7, <1>11, <1>12, RefreshType
  <1>14. Consistent(written, S, loose)
    BY <1>4, <1>6, <1>8, <1>9, <1>12, <1>13 DEF Consistent, InStep
  <1>15. OthersTyped
    <2>1. tm' \in [Memories -> [Hashes -> Entries \cup {NoEntry}]]
      <3>0. tm \in [Memories -> [Hashes -> Entries \cup {NoEntry}]]
            /\ working \in Memories \cup {NoMemory}
        BY DEF IInv, TypeOK
      <3>1. CASE skip
        BY <3>0, <3>1 DEF SegmentConfirm
      <3>2. CASE ~skip
        <4>1. row.source \in Sources /\ row.target \in Targets /\ HashOf[row.source] \in Hashes
          BY <1>5, <1>6, RowAssumption DEF Rows
        <4>2. working \in Memories
          BY <3>0, <3>2 DEF SegmentConfirm
        <4>3. tm' = [tm EXCEPT ![working][HashOf[row.source]] =
                       TmUpsert(@, row.source, row.target)]
          BY <3>2 DEF SegmentConfirm, row
        <4>4. TmUpsert(tm[working][HashOf[row.source]], row.source, row.target)
                \in Entries
          <5>1. tm[working][HashOf[row.source]] \in Entries \cup {NoEntry}
            BY <3>0, <4>1, <4>2
          <5> QED BY <4>1, <5>1 DEF TmUpsert, Entries
        <4> QED BY <3>0, <4>1, <4>2, <4>3, <4>4
      <3> QED BY <3>1, <3>2
    <2>2. learned' \in SUBSET Vouchers
      <3>0. learned \in SUBSET Vouchers
        BY DEF IInv, TypeOK
      <3>1. seg[s].source \in Sources /\ view[c][s].target \in Targets
        <4>1. view[c][s] \in Rows
          BY <1>1 DEF IInv, TypeOK
        <4>2. Upsert(seg[s], view[c][s]) = seg[s]
          BY <1>1 DEF IInv, RevInv, SegmentConfirm, BaseRevision
        <4>3. view[c][s].target = seg[s].target
          BY <4>1, <4>2, <1>4, UpsertType
        <4> QED BY <4>3, <1>4, <1>5 DEF Rows
      <3>2. Voucher(seg[s].source, view[c][s].target, "confirm") \in Vouchers
        BY <3>1 DEF Voucher, Vouchers, Texts
      <3> QED BY <3>0, <3>2 DEF SegmentConfirm
    <2> QED BY <1>1, <1>12, <2>1, <2>2 DEF IInv, TypeOK, OthersTyped
  <1>16. Unjudged(S)
    BY <1>4, <1>12 DEF Unjudged
  <1> QED BY <1>1, <1>2, <1>10, <1>14, <1>15, <1>16, CommitKeeps

LEMMA PretranslateIInv ==
  ASSUME NEW loose \in BOOLEAN, IInv(loose), NEW c \in Clients, NEW d \in Documents, TmPretranslate(c, d)
  PROVE  IInv(loose)'
  <1> DEFINE hash(s) == HashOf[seg[s].source]
             S == {s \in RowsOf(d) : Fillable(seg[s]) /\ Best(hash(s)) # {}}
  <1>1. PICK pick \in [S -> enabled \X Hashes] :
          /\ \A s \in S : pick[s] \in Best(hash(s))
          /\ Commit(c, [s \in S |->
               Fill(seg[s], tm[pick[s][1]][pick[s][2]].target,
                    IF pick[s][2] = hash(s) THEN "tmExact" ELSE "tmFuzzy")], S)
    BY DEF TmPretranslate
  <1> DEFINE written == [s \in S |->
               Fill(seg[s], tm[pick[s][1]][pick[s][2]].target,
                    IF pick[s][2] = hash(s) THEN "tmExact" ELSE "tmFuzzy")]
  <1>2. Commit(c, written, S) /\ UNCHANGED <<issues, tm, working, enabled, learned, setting, judged>>
    BY <1>1 DEF TmPretranslate
  <1>3. S \in SUBSET Segments
    BY DEF RowsOf
  <1>4. ASSUME NEW s \in S
        PROVE  /\ written[s] \in Rows /\ written[s].revision > seg[s].revision
               /\ written[s].state # "confirmed" /\ written[s].state # "untranslated"
               /\ written[s].target # Blank
    <2> DEFINE entry == tm[pick[s][1]][pick[s][2]]
               kind == IF pick[s][2] = hash(s) THEN "tmExact" ELSE "tmFuzzy"
    <2>1. s \in Segments /\ seg[s].revision < MaxRevision
      BY <1>2, <1>3, CommitBound
    <2>2. pick[s] \in Matches(hash(s))
      BY <1>1 DEF Best
    <2>3. pick[s] \in enabled \X Hashes /\ entry # NoEntry
      BY <2>2 DEF Matches
    <2>4. entry \in Entries
      BY <2>3 DEF IInv, TypeOK
    <2>5. entry.target \in Targets /\ kind \in {"tmExact", "tmFuzzy", "aiDraft"}
      BY <2>4 DEF Entries
    <2>6. written[s] = Fill(seg[s], entry.target, kind)
      OBVIOUS
    <2> HIDE DEF entry, kind
    <2> QED BY <2>1, <2>5, <2>6, FillSteps
  <1> HIDE DEF S, written
  <1>5. Advances(written, S) /\ Consistent(written, S, loose)
    BY <1>4 DEF Advances, Consistent, InStep
  <1>6. OthersTyped
    BY <1>2 DEF IInv, TypeOK, OthersTyped
  <1>7. Unjudged(S)
    BY <1>2 DEF Unjudged
  <1> QED BY <1>2, <1>3, <1>5, <1>6, <1>7, CommitKeeps

LEMMA ListIInv ==
  ASSUME NEW loose \in BOOLEAN, IInv(loose), NEW c \in Clients, NEW d \in Documents, SegmentList(c, d)
  PROVE  IInv(loose)'
  <1>1. /\ UNCHANGED <<seg, issues, tm, working, enabled, learned, setting, judged>>
        /\ \A e \in Clients, s \in Segments : view'[e][s] \in {view[e][s], seg[s]}
        /\ view' \in [Clients -> [Segments -> Rows \cup {Unseen}]]
    BY DEF SegmentList, IInv, TypeOK
  <1>2. \A s \in Segments : seg[s] \in Rows /\ Upsert(seg[s], seg[s]) = seg[s]
    BY DEF IInv, TypeOK, Upsert, Rows
  <1>3. TypeOK'
    BY <1>1 DEF IInv, TypeOK
  <1>4. ASSUME NEW e \in Clients, NEW s \in Segments, view'[e][s] # Unseen
        PROVE  /\ view'[e][s].revision <= seg'[s].revision
               /\ view'[e][s].revision = seg'[s].revision =>
                    Upsert(seg'[s], view'[e][s]) = seg'[s]
    <2>1. CASE view'[e][s] = view[e][s]
      BY <1>1, <1>4, <2>1 DEF IInv, RevInv
    <2>2. CASE view'[e][s] = seg[s]
      <3>1. seg[s].revision \in Int
        BY <1>2 DEF Rows
      <3> QED BY <1>1, <1>2, <2>2, <3>1
    <2> QED BY <1>1, <2>1, <2>2
  <1>5. RevInv'
    BY <1>4 DEF RevInv
  <1>6. RowsInStep(loose)' /\ ConfirmedFindingsOnRecord'
    BY <1>1 DEF IInv, RowsInStep, ConfirmedFindingsOnRecord
  <1> QED BY <1>3, <1>5, <1>6 DEF IInv

LEMMA MemoryIInv ==
  ASSUME NEW loose \in BOOLEAN, IInv(loose), NEW m \in Memories, NEW on \in BOOLEAN, NEW writable \in BOOLEAN,
         MemoryUpdate(m, on, writable)
  PROVE  IInv(loose)'
  <1>1. UNCHANGED <<seg, issues, tm, view, learned, setting, judged>>
    BY DEF MemoryUpdate
  <1>2. working' \in Memories \cup {NoMemory} /\ enabled' \in SUBSET Memories
    BY DEF MemoryUpdate, IInv, TypeOK
  <1>3. TypeOK'
    BY <1>1, <1>2 DEF IInv, TypeOK
  <1> QED
    BY <1>1, <1>3 DEF IInv, RevInv, RowsInStep, ConfirmedFindingsOnRecord

\* The handlers that write a memory alone.
LEMMA EntriesIInv ==
  ASSUME NEW loose \in BOOLEAN, IInv(loose),
         UNCHANGED <<seg, issues, working, enabled, view, setting, judged>>,
         tm' \in [Memories -> [Hashes -> Entries \cup {NoEntry}]],
         learned' \in SUBSET Vouchers
  PROVE  IInv(loose)'
  <1>1. TypeOK'
    BY DEF IInv, TypeOK
  <1> QED BY <1>1 DEF IInv, RevInv, RowsInStep, ConfirmedFindingsOnRecord

\* What a file brings along is entries under their hashes.
LEMMA FileType ==
  ASSUME NEW file \in Exchanged, NEW h \in DOMAIN file
  PROVE  /\ file[h] \in Entries /\ h \in Hashes /\ HashOf[file[h].source] = h
         /\ file[h].source \in Sources /\ file[h].target \in Targets
         /\ Voucher(file[h].source, file[h].target, "memory") \in Vouchers
  <1>1. file[h] \in Entries /\ h \in Hashes /\ HashOf[file[h].source] = h
    BY GridAssumption
  <1>2. file[h].source \in Sources /\ file[h].target \in Targets
    BY <1>1 DEF Entries
  <1> QED BY <1>1, <1>2 DEF Voucher, Vouchers, Texts

LEMMA UpsertedType ==
  ASSUME NEW entry \in Entries \cup {NoEntry}, NEW source \in Sources, NEW target \in Targets
  PROVE  /\ TmUpsert(entry, source, target) \in Entries
         /\ TmUpsert(entry, source, target).target = target
  BY DEF TmUpsert, Entries

LEMMA ImportIInv ==
  ASSUME NEW loose \in BOOLEAN, IInv(loose), NEW m \in Memories, NEW file \in Exchanged,
         TmImport(m, file)
  PROVE  IInv(loose)'
  <1>1. /\ tm \in [Memories -> [Hashes -> Entries \cup {NoEntry}]]
        /\ learned \in SUBSET Vouchers
    BY DEF IInv, TypeOK
  <1>2. \A h \in Hashes :
          (IF h \in DOMAIN file THEN TmUpsert(tm[m][h], file[h].source, file[h].target)
           ELSE tm[m][h]) \in Entries \cup {NoEntry}
    <2> TAKE h \in Hashes
    <2>1. tm[m][h] \in Entries \cup {NoEntry}
      BY <1>1
    <2>2. CASE h \in DOMAIN file
      <3>1. file[h].source \in Sources /\ file[h].target \in Targets
        BY <2>2, FileType
      <3>2. TmUpsert(tm[m][h], file[h].source, file[h].target) \in Entries
        BY <2>1, <3>1, UpsertedType
      <3> QED BY <2>2, <3>2
    <2> QED BY <2>1, <2>2
  <1>3. tm' \in [Memories -> [Hashes -> Entries \cup {NoEntry}]]
    BY <1>1, <1>2 DEF TmImport
  <1>4. learned' \in SUBSET Vouchers
    BY <1>1, FileType DEF TmImport
  <1> QED BY <1>3, <1>4, EntriesIInv DEF TmImport

LEMMA EntryUpdateIInv ==
  ASSUME NEW loose \in BOOLEAN, IInv(loose), NEW m \in Memories, NEW h \in Hashes,
         NEW entry \in EntryEdits, TmUpdate(m, h, entry)
  PROVE  IInv(loose)'
  <1>1. /\ tm \in [Memories -> [Hashes -> Entries \cup {NoEntry}]]
        /\ learned \in SUBSET Vouchers
    BY DEF IInv, TypeOK
  <1>2. entry \in Entries /\ entry.source \in Sources /\ entry.target \in Texts
        /\ HashOf[entry.source] \in Hashes
    BY GridAssumption, RowAssumption DEF Entries, Texts
  <1>3. tm' = [tm EXCEPT ![m][h] = NoEntry, ![m][HashOf[entry.source]] = entry]
    BY DEF TmUpdate
  <1>4. tm' \in [Memories -> [Hashes -> Entries \cup {NoEntry}]]
    BY <1>1, <1>2, <1>3
  <1>5. Voucher(entry.source, entry.target, "memory") \in Vouchers
    BY <1>2 DEF Voucher, Vouchers
  <1>6. learned' \in SUBSET Vouchers
    BY <1>1, <1>5 DEF TmUpdate
  <1> QED BY <1>4, <1>6, EntriesIInv DEF TmUpdate

LEMMA EntryDeleteIInv ==
  ASSUME NEW loose \in BOOLEAN, IInv(loose), NEW m \in Memories, NEW h \in Hashes, TmDelete(m, h)
  PROVE  IInv(loose)'
  <1>1. /\ tm \in [Memories -> [Hashes -> Entries \cup {NoEntry}]]
        /\ learned \in SUBSET Vouchers
    BY DEF IInv, TypeOK
  <1>2. tm' \in [Memories -> [Hashes -> Entries \cup {NoEntry}]]
    BY <1>1 DEF TmDelete
  <1> QED BY <1>1, <1>2, EntriesIInv DEF TmDelete

LEMMA ProfileIInv ==
  ASSUME NEW loose \in BOOLEAN, IInv(loose), NEW k \in Settings, QaProfileUpdate(k)
  PROVE  IInv(loose)'
  <1>1. UNCHANGED <<seg, issues, tm, working, enabled, view, learned, judged>> /\ setting' = k
    BY DEF QaProfileUpdate
  <1>2. TypeOK'
    BY <1>1 DEF IInv, TypeOK
  <1> QED BY <1>1, <1>2 DEF IInv, RevInv, RowsInStep, ConfirmedFindingsOnRecord

LEMMA StutterIInv ==
  ASSUME NEW loose \in BOOLEAN, IInv(loose), UNCHANGED vars
  PROVE  IInv(loose)'
  <1>1. UNCHANGED <<seg, issues, tm, working, enabled, view, learned, setting, judged>>
    BY DEF vars
  <1>2. TypeOK'
    BY <1>1 DEF IInv, TypeOK
  <1> QED BY <1>1, <1>2 DEF IInv, RevInv, RowsInStep, ConfirmedFindingsOnRecord

LEMMA NextIInv ==
  ASSUME NEW loose \in BOOLEAN
  PROVE  IInv(loose) /\ [Next]_vars => IInv(loose)'
  <1> SUFFICES ASSUME IInv(loose), [Next]_vars PROVE IInv(loose)'
    OBVIOUS
  <1>1. CASE UNCHANGED vars
    BY <1>1, StutterIInv
  <1>2. CASE Next
    BY <1>2, ListIInv, PretranslateIInv, ReplaceIInv, UpdateIInv, UpdateSourceIInv,
       ConfirmIInv, LockIInv, MemoryIInv, ImportIInv, EntryUpdateIInv, EntryDeleteIInv,
       ProfileIInv DEF Next
  <1> QED BY <1>1, <1>2

-----------------------------------------------------------------------------
\* The inductive invariant holds of every behaviour of the engine.
THEOREM SafetyCore == Spec => []IInv(FALSE)
  <1>1. Init => IInv(FALSE)
    BY InitIInv
  <1>2. IInv(FALSE) /\ [Next]_vars => IInv(FALSE)'
    BY NextIInv
  <1> QED BY <1>1, <1>2, PTL DEF Spec

\* No handler ever stores a row, an issue, an entry or an answer outside its type.
THEOREM TypeCorrect == Spec => []TypeOK
  <1>1. IInv(FALSE) => TypeOK
    BY DEF IInv
  <1> QED BY <1>1, SafetyCore, PTL

\* Optimistic concurrency: a client whose base revision segment.update,
\* updateSource, confirm or lock still accepts is looking at the row it changes.
THEOREM RevisionGuards == Spec => []RevisionNamesContent
  <1>1. IInv(FALSE) => RevisionNamesContent
    BY DEF IInv, RevInv, RevisionNamesContent, BaseRevision
  <1> QED BY <1>1, SafetyCore, PTL

\* A row is untranslated exactly when its target is blank, whoever wrote it.
THEOREM StateInStep == Spec => []StateMatchesTarget
  <1>1. IInv(FALSE) => StateMatchesTarget
    BY DEF IInv, RowsInStep, InStep, StateMatchesTarget
  <1> QED BY <1>1, SafetyCore, PTL

\* Every finding of the segment rules in a confirmed row is on record.
THEOREM FindingsInStep == Spec => []ConfirmedFindingsOnRecord
  <1>1. IInv(FALSE) => ConfirmedFindingsOnRecord
    BY DEF IInv
  <1> QED BY <1>1, SafetyCore, PTL

\* What may happen to a locked row in a step.
LockKept ==
  \A s \in Segments :
    seg[s].locked /\ seg'[s] # seg[s] =>
      seg'[s] = [seg[s] EXCEPT !.locked = seg'[s].locked, !.revision = @ + 1]

\* A transaction that writes no locked row keeps the locks.
LEMMA UnlockedCommit ==
  ASSUME NEW c, NEW S, NEW written, Commit(c, written, S), \A s \in S : ~seg[s].locked
  PROVE  LockKept
  BY DEF Commit, LockKept

LEMMA LockStep == IInv(FALSE) /\ Next => LockKept
  <1> SUFFICES ASSUME IInv(FALSE), Next PROVE LockKept
    OBVIOUS
  <1>1. ASSUME NEW c \in Clients, NEW d \in Documents, SegmentList(c, d)
        PROVE  LockKept
    BY <1>1 DEF SegmentList, LockKept
  <1>2. ASSUME NEW c \in Clients, NEW d \in Documents, TmPretranslate(c, d)
        PROVE  LockKept
    <2> DEFINE S == {s \in RowsOf(d) : Fillable(seg[s]) /\ Best(HashOf[seg[s].source]) # {}}
    <2>1. \E written : Commit(c, written, S)
      BY <1>2 DEF TmPretranslate
    <2>2. \A s \in S : ~seg[s].locked
      BY DEF Fillable
    <2> HIDE DEF S
    <2> QED BY <2>1, <2>2, UnlockedCommit
  <1>3. ASSUME NEW c \in Clients, NEW d \in Documents, NEW w \in Rewrites,
               NEW incl \in BOOLEAN, SegmentReplace(c, d, w, incl)
        PROVE  LockKept
    <2> DEFINE S == {s \in RowsOf(d) : /\ seg[s].target \in DOMAIN w
                                       /\ ~seg[s].locked
                                       /\ seg[s].state = "confirmed" => incl}
    <2>1. \E written : Commit(c, written, S)
      BY <1>3 DEF SegmentReplace
    <2>2. \A s \in S : ~seg[s].locked
      OBVIOUS
    <2> HIDE DEF S
    <2> QED BY <2>1, <2>2, UnlockedCommit
  <1>4. ASSUME NEW c \in Clients, NEW s \in Segments, NEW text \in Edits, NEW stamp \in Stamps,
               SegmentUpdate(c, s, text, stamp)
        PROVE  LockKept
    <2>1. ~seg[s].locked /\ \E written : Commit(c, written, {s})
      BY <1>4 DEF SegmentUpdate
    <2> QED BY <2>1, UnlockedCommit
  <1>5. ASSUME NEW c \in Clients, NEW s \in Segments, NEW src \in SourceEdits,
               SegmentUpdateSource(c, s, src)
        PROVE  LockKept
    <2>1. ~seg[s].locked /\ \E written : Commit(c, written, {s})
      BY <1>5 DEF SegmentUpdateSource
    <2> QED BY <2>1, UnlockedCommit
  <1>6. ASSUME NEW c \in Clients, NEW s \in Segments, NEW skip \in BOOLEAN,
               SegmentConfirm(c, s, skip)
        PROVE  LockKept
    <2> DEFINE S == {s} \cup (IF skip THEN {} ELSE Duplicates(s))
    <2>1. \E written : Commit(c, written, S)
      BY <1>6 DEF SegmentConfirm
    <2>2. \A q \in S : ~seg[q].locked
      BY <1>6 DEF SegmentConfirm, Confirmable, Duplicates, Fillable
    <2> HIDE DEF S
    <2> QED BY <2>1, <2>2, UnlockedCommit
  <1>7. ASSUME NEW c \in Clients, NEW s \in Segments, NEW locked \in BOOLEAN,
               SegmentLock(c, s, locked)
        PROVE  LockKept
    <2>1. seg[s] \in Rows
      BY DEF IInv, TypeOK
    <2>2. seg'[s] = Upsert(seg[s], [seg[s] EXCEPT !.locked = locked, !.revision = @ + 1])
      BY <1>7 DEF SegmentLock, Commit
    <2>3. seg'[s] = [seg[s] EXCEPT !.locked = seg'[s].locked, !.revision = @ + 1]
      BY <2>1, <2>2 DEF Upsert, Rows
    <2>4. \A q \in Segments \ {s} : seg'[q] = seg[q]
      BY <1>7 DEF SegmentLock, Commit
    <2> QED BY <2>3, <2>4 DEF LockKept
  <1>8. ASSUME NEW m \in Memories, NEW on \in BOOLEAN, NEW writable \in BOOLEAN,
               MemoryUpdate(m, on, writable)
        PROVE  LockKept
    BY <1>8 DEF MemoryUpdate, LockKept
  <1>9. ASSUME seg' = seg
        PROVE  LockKept
    BY <1>9 DEF LockKept
  <1> QED BY <1>1, <1>2, <1>3, <1>4, <1>5, <1>6, <1>7, <1>8, <1>9
          DEF Next, TmImport, TmUpdate, TmDelete, QaProfileUpdate

\* A locked row's source, text, state and stamp are out of reach of every
\* writer: only its lock flag and its revision move.
THEOREM LockedIsReadOnly == Spec => LockedRowUntouched
  <1>1. IInv(FALSE) /\ [Next]_vars => [LockKept]_vars
    BY LockStep
  <1>2. Spec => [][LockKept]_vars
    BY <1>1, SafetyCore, PTL DEF Spec
  <1> QED BY <1>2 DEF LockedRowUntouched, LockKept

-----------------------------------------------------------------------------
(* What the memories learned.                                               *)

\* Somebody vouched for the text, for an unedited exact stamp in any way, for an
\* entry in another way than by inserting it.
Answered(given, hash, text) == \E v \in given : HashOf[v.source] = hash /\ v.target = text
Put(given, hash, text) ==
  \E v \in given : HashOf[v.source] = hash /\ v.target = text /\ v.by # "stamp"

LEMMA MoreIsAnswered ==
  ASSUME NEW given, NEW more, given \subseteq more, NEW hash, NEW text
  PROVE  /\ Answered(given, hash, text) => Answered(more, hash, text)
         /\ Put(given, hash, text) => Put(more, hash, text)
         /\ Put(given, hash, text) => Answered(given, hash, text)
  BY DEF Answered, Put

LEMMA VoucherAnswers ==
  ASSUME NEW source, NEW text, NEW by, NEW given, Voucher(source, text, by) \in given
  PROVE  /\ Answered(given, HashOf[source], text)
         /\ by # "stamp" => Put(given, HashOf[source], text)
  <1>1. /\ Voucher(source, text, by).source = source /\ Voucher(source, text, by).target = text
        /\ Voucher(source, text, by).by = by
    BY DEF Voucher
  <1> QED BY <1>1 DEF Answered, Put

LearnInv ==
  /\ \A m \in Memories, h \in Hashes :
       tm[m][h] # NoEntry => Put(learned, h, tm[m][h].target)
  /\ \A s \in Segments :
       seg[s].origin = Fresh("tmExact") =>
         Answered(learned, HashOf[seg[s].source], seg[s].target)

\* Every row of a transaction that claims an exact match has its pair.
Honest(written, S) ==
  \A s \in S : written[s].origin = Fresh("tmExact") =>
    Answered(learned', HashOf[seg[s].source], written[s].target)

LEMMA CommitHonest ==
  ASSUME NEW loose \in BOOLEAN, IInv(loose), LearnInv, learned \subseteq learned',
         NEW c, NEW S \in SUBSET Segments, NEW written,
         \A s \in S : written[s] \in Rows,
         Honest(written, S), Commit(c, written, S)
  PROVE  \A s \in Segments : seg'[s].origin = Fresh("tmExact") =>
           Answered(learned', HashOf[seg'[s].source], seg'[s].target)
  <1> SUFFICES ASSUME NEW s \in Segments, seg'[s].origin = Fresh("tmExact")
               PROVE  Answered(learned', HashOf[seg'[s].source], seg'[s].target)
    OBVIOUS
  <1>1. seg'[s] = IF s \in S THEN Upsert(seg[s], written[s]) ELSE seg[s]
    BY DEF Commit
  <1>2. seg[s] \in Rows
    BY DEF IInv, TypeOK
  <1>3. CASE s \in S
    <2>1. /\ seg'[s].source = seg[s].source /\ seg'[s].target = written[s].target
          /\ seg'[s].origin = written[s].origin
      BY <1>1, <1>2, <1>3, UpsertType
    <2> QED BY <1>3, <2>1 DEF Honest
  <1>4. CASE s \notin S
    <2>1. seg'[s] = seg[s] /\ Answered(learned, HashOf[seg[s].source], seg[s].target)
      BY <1>1, <1>4 DEF LearnInv
    <2> QED BY <2>1, MoreIsAnswered
  <1> QED BY <1>3, <1>4

\* Only a row that is written unchanged, or stamped so, has an exact stamp.
LEMMA RetargetHonest ==
  ASSUME NEW row \in Rows, NEW text, NEW stamp \in Origins \cup {NoOrigin},
         Retarget(row, text, stamp).origin = Fresh("tmExact")
  PROVE  \/ row.origin = Fresh("tmExact") /\ text = row.target
         \/ stamp # NoOrigin /\ stamp.kind = "tmExact"
  <1>1. OriginAfter(row, text, stamp) = Fresh("tmExact")
    BY DEF Retarget, Rows
  <1>2. row.origin \in Origins \cup {NoOrigin} /\ NoOrigin \notin Origins
    BY GridAssumption DEF Rows
  <1>3. Fresh("tmExact") \in Origins
    BY FreshType
  <1>4. text # Blank
    BY <1>1, <1>2, <1>3 DEF OriginAfter
  <1>5. CASE stamp # NoOrigin
    <2>1. OriginAfter(row, text, stamp) = [stamp EXCEPT !.edited = FALSE]
      BY <1>4, <1>5 DEF OriginAfter
    <2>2. OriginAfter(row, text, stamp).kind = stamp.kind
      BY <1>5, <2>1 DEF Origins
    <2> QED BY <1>1, <1>5, <2>2 DEF Fresh
  <1>6. CASE stamp = NoOrigin /\ row.origin # NoOrigin /\ text # row.target
    <2>1. OriginAfter(row, text, stamp) = [row.origin EXCEPT !.edited = TRUE]
      BY <1>4, <1>6 DEF OriginAfter
    <2>2. OriginAfter(row, text, stamp).edited = TRUE
      BY <1>2, <1>6, <2>1 DEF Origins
    <2> QED BY <1>1, <2>2 DEF Fresh
  <1>7. CASE stamp = NoOrigin /\ ~(row.origin # NoOrigin /\ text # row.target)
    BY <1>1, <1>2, <1>3, <1>4, <1>7 DEF OriginAfter
  <1> QED BY <1>5, <1>6, <1>7

\* A handler that writes rows and neither memories nor their history.
LEMMA QuietLearn ==
  ASSUME NEW loose \in BOOLEAN, IInv(loose), LearnInv, UNCHANGED <<tm, learned>>,
         \/ UNCHANGED seg
         \/ \E c \in Clients, S \in SUBSET Segments : \E written :
              /\ Commit(c, written, S) /\ Honest(written, S)
              /\ \A s \in S : written[s] \in Rows
  PROVE  LearnInv'
  <1>1. CASE UNCHANGED seg
    BY <1>1 DEF LearnInv
  <1>2. ASSUME NEW c \in Clients, NEW S \in SUBSET Segments, NEW written,
               Commit(c, written, S), Honest(written, S), \A s \in S : written[s] \in Rows
        PROVE  LearnInv'
    <2>1. learned \subseteq learned'
      OBVIOUS
    <2>2. \A s \in Segments : seg'[s].origin = Fresh("tmExact") =>
            Answered(learned', HashOf[seg'[s].source], seg'[s].target)
      BY <1>2, <2>1, CommitHonest
    <2> QED BY <2>2 DEF LearnInv
  <1> QED BY <1>1, <1>2

LEMMA UpdateLearn ==
  ASSUME NEW loose \in BOOLEAN, IInv(loose), LearnInv, NEW c \in Clients, NEW s \in Segments, NEW text \in Edits,
         NEW stamp \in Stamps, SegmentUpdate(c, s, text, stamp)
  PROVE  LearnInv'
  <1> DEFINE written == [q \in {s} |-> Retarget(seg[s], text, stamp)]
             exact == stamp # NoOrigin /\ stamp.kind = "tmExact"
  <1>1. Commit(c, written, {s}) /\ UNCHANGED tm
    BY DEF SegmentUpdate
  <1>2. /\ learned \subseteq learned'
        /\ exact => Voucher(seg[s].source, text, "stamp") \in learned'
    BY DEF SegmentUpdate
  <1>3. seg[s] \in Rows /\ seg[s].revision < MaxRevision
    BY <1>1, CommitBound DEF IInv, TypeOK
  <1>4. text \in Texts /\ stamp \in Origins \cup {NoOrigin}
    BY RequestType
  <1>5. written[s] \in Rows /\ written[s].target = text
    BY <1>3, <1>4, RetargetType
  <1>6. written[s].origin = Fresh("tmExact") =>
          \/ seg[s].origin = Fresh("tmExact") /\ text = seg[s].target
          \/ exact
    BY <1>3, <1>4, RetargetHonest
  <1> HIDE DEF written, exact
  <1>7. ASSUME written[s].origin = Fresh("tmExact")
        PROVE  Answered(learned', HashOf[seg[s].source], text)
    <2>1. CASE exact
      BY <1>2, <2>1, VoucherAnswers
    <2>2. CASE seg[s].origin = Fresh("tmExact") /\ text = seg[s].target
      <3>1. Answered(learned, HashOf[seg[s].source], text)
        BY <2>2 DEF LearnInv
      <3> QED BY <1>2, <3>1, MoreIsAnswered
    <2> QED BY <1>6, <1>7, <2>1, <2>2
  <1>8. Honest(written, {s})
    BY <1>5, <1>7 DEF Honest
  <1>9. \A q \in Segments : seg'[q].origin = Fresh("tmExact") =>
          Answered(learned', HashOf[seg'[q].source], seg'[q].target)
    BY <1>1, <1>2, <1>5, <1>8, CommitHonest
  <1>10. \A m \in Memories, h \in Hashes :
           tm'[m][h] # NoEntry => Put(learned', h, tm'[m][h].target)
    BY <1>1, <1>2, MoreIsAnswered DEF LearnInv
  <1> QED BY <1>9, <1>10 DEF LearnInv

LEMMA UpdateSourceLearn ==
  ASSUME NEW loose \in BOOLEAN, IInv(loose), LearnInv, NEW c \in Clients, NEW s \in Segments, NEW src \in SourceEdits,
         SegmentUpdateSource(c, s, src)
  PROVE  LearnInv'
  <1> DEFINE row == [seg[s] EXCEPT !.source = src,
                       !.state = IF src # seg[s].source /\ @ = "confirmed" THEN "draft" ELSE @,
                       !.revision = @ + 1]
             written == [q \in {s} |-> row]
  <1>1. Commit(c, written, {s}) /\ UNCHANGED <<tm, learned>>
    BY DEF SegmentUpdateSource
  <1>2. seg[s] \in Rows /\ seg[s].revision < MaxRevision /\ src \in Sources
    BY <1>1, CommitBound, GridAssumption DEF IInv, TypeOK
  <1>3. seg[s].revision + 1 \in 1..MaxRevision /\ seg[s].revision + 1 > seg[s].revision
    BY <1>2, RowAssumption DEF Rows
  <1>4. row \in Rows /\ row.target = seg[s].target /\ row.origin = seg[s].origin
    BY <1>2, <1>3 DEF Rows, States
  <1>5. written[s] = row
    OBVIOUS
  <1> HIDE DEF written, row
  <1>6. Honest(written, {s})
    BY <1>1, <1>4, <1>5 DEF Honest, LearnInv
  <1> QED BY <1>1, <1>4, <1>5, <1>6, QuietLearn

LEMMA LockLearn ==
  ASSUME NEW loose \in BOOLEAN, IInv(loose), LearnInv, NEW c \in Clients, NEW s \in Segments, NEW locked \in BOOLEAN,
         SegmentLock(c, s, locked)
  PROVE  LearnInv'
  <1> DEFINE row == [seg[s] EXCEPT !.locked = locked, !.revision = @ + 1]
             written == [q \in {s} |-> row]
  <1>1. Commit(c, written, {s}) /\ UNCHANGED <<tm, learned>>
    BY DEF SegmentLock
  <1>2. seg[s] \in Rows /\ seg[s].revision < MaxRevision
    BY <1>1, CommitBound DEF IInv, TypeOK
  <1>3. seg[s].revision + 1 \in 1..MaxRevision /\ seg[s].revision + 1 > seg[s].revision
    BY <1>2, RowAssumption DEF Rows
  <1>4. row \in Rows /\ row.target = seg[s].target /\ row.origin = seg[s].origin
    BY <1>2, <1>3 DEF Rows
  <1>5. written[s] = row
    OBVIOUS
  <1> HIDE DEF written, row
  <1>6. Honest(written, {s})
    BY <1>1, <1>4, <1>5 DEF Honest, LearnInv
  <1> QED BY <1>1, <1>4, <1>5, <1>6, QuietLearn

LEMMA ReplaceLearn ==
  ASSUME NEW loose \in BOOLEAN, IInv(loose), LearnInv, NEW c \in Clients, NEW d \in Documents, NEW w \in Rewrites,
         NEW incl \in BOOLEAN, SegmentReplace(c, d, w, incl)
  PROVE  LearnInv'
  <1> DEFINE S == {s \in RowsOf(d) : /\ seg[s].target \in DOMAIN w
                                     /\ ~seg[s].locked
                                     /\ seg[s].state = "confirmed" => incl}
             written == [s \in S |-> Retarget(seg[s], w[seg[s].target], NoOrigin)]
  <1>1. Commit(c, written, S) /\ UNCHANGED <<tm, learned>>
    BY DEF SegmentReplace
  <1>2. S \in SUBSET Segments
    BY DEF RowsOf
  <1>3. ASSUME NEW s \in S
        PROVE  written[s] \in Rows /\ written[s].origin # Fresh("tmExact")
    <2>1. seg[s] \in Rows /\ seg[s].revision < MaxRevision
      BY <1>1, <1>2, CommitBound DEF IInv, TypeOK
    <2>2. w[seg[s].target] \in Texts /\ w[seg[s].target] # seg[s].target
      BY GridAssumption
    <2>3. written[s] = Retarget(seg[s], w[seg[s].target], NoOrigin)
      OBVIOUS
    <2> QED BY <2>1, <2>2, <2>3, RetargetType, RetargetHonest
  <1> HIDE DEF S, written
  <1>4. Honest(written, S)
    BY <1>3 DEF Honest
  <1> QED BY <1>1, <1>2, <1>3, <1>4, QuietLearn

\* The pair a confirm learns: the text the client saw is the text of the row.
LEMMA ConfirmedPair ==
  ASSUME NEW loose \in BOOLEAN, IInv(loose), NEW c \in Clients, NEW s \in Segments, BaseRevision(c, s)
  PROVE  view[c][s].target = seg[s].target
  <1>1. view[c][s] \in Rows /\ seg[s] \in Rows
    BY DEF BaseRevision, IInv, TypeOK
  <1>2. Upsert(seg[s], view[c][s]) = seg[s]
    BY DEF IInv, RevInv, BaseRevision
  <1> QED BY <1>1, <1>2, UpsertType

LEMMA ConfirmLearn ==
  ASSUME NEW loose \in BOOLEAN, IInv(loose), LearnInv, NEW c \in Clients, NEW s \in Segments, NEW skip \in BOOLEAN,
         SegmentConfirm(c, s, skip)
  PROVE  LearnInv'
  <1> DEFINE row == [seg[s] EXCEPT !.state = "confirmed", !.revision = @ + 1]
             dups == IF skip THEN {} ELSE Duplicates(s)
             S == {s} \cup dups
             written == [q \in S |-> IF q = s THEN row ELSE Fill(seg[q], row.target, "tmExact")]
             pair == Voucher(seg[s].source, view[c][s].target, "confirm")
             hash == HashOf[seg[s].source]
  <1>1. /\ Commit(c, written, S) /\ BaseRevision(c, s)
        /\ Confirmable(seg[s]) /\ view[c][s] # Unseen
    BY DEF SegmentConfirm, BaseRevision
  <1>2. S \in SUBSET Segments /\ s \in S
    BY DEF Duplicates
  <1>3. \A q \in S : seg[q] \in Rows /\ seg[q].revision < MaxRevision
    BY <1>1, <1>2, CommitBound DEF IInv, TypeOK
  <1>4. seg[s].revision + 1 \in 1..MaxRevision /\ seg[s].target \in Targets
    BY <1>1, <1>2, <1>3, RowAssumption DEF Rows, Texts, Confirmable
  <1>5. /\ row \in Rows /\ row.target = seg[s].target /\ row.source = seg[s].source
        /\ row.origin = seg[s].origin
    BY <1>2, <1>3, <1>4 DEF Rows, States
  <1>6. written[s] = row /\ \A q \in S \ {s} : written[q] = Fill(seg[q], row.target, "tmExact")
    BY <1>2
  <1>7. learned \subseteq learned' /\ (~skip => pair \in learned')
    BY DEF SegmentConfirm
  <1>8. ~skip => Answered(learned', hash, seg[s].target) /\ Put(learned', hash, seg[s].target)
    <2>1. pair = Voucher(seg[s].source, seg[s].target, "confirm")
      BY <1>1, ConfirmedPair
    <2> HIDE DEF pair
    <2> QED BY <1>7, <2>1, VoucherAnswers
  <1>9. \A q \in S \ {s} : HashOf[seg[q].source] = hash /\ ~skip
    BY DEF Duplicates
  <1> HIDE DEF row, S, written, pair
  <1>10. ASSUME NEW q \in S
         PROVE  /\ written[q] \in Rows
                /\ written[q].origin = Fresh("tmExact") =>
                     Answered(learned', HashOf[seg[q].source], written[q].target)
    <2>1. CASE q = s
      <3>1. seg[s].origin = Fresh("tmExact") => Answered(learned, hash, seg[s].target)
        BY DEF LearnInv
      <3> QED BY <1>5, <1>6, <1>7, <2>1, <3>1, MoreIsAnswered
    <2>2. CASE q # s
      <3>1. q \in Segments /\ seg[q].revision < MaxRevision /\ row.target \in Targets
        BY <1>2, <1>3, <1>4, <1>5
      <3>2. written[q] = Fill(seg[q], row.target, "tmExact") /\ seg[q] \in Rows
        BY <1>3, <1>6, <2>2
      <3>3. written[q] \in Rows
        BY <3>1, <3>2, FillSteps
      <3>4. written[q].target = seg[s].target
        <4>1. row.target \in Texts
          BY <3>1 DEF Texts
        <4> QED BY <1>5, <3>1, <3>2, <4>1, FillType
      <3> QED BY <1>8, <1>9, <2>2, <3>3, <3>4
    <2> QED BY <2>1, <2>2
  <1>11. \A q \in Segments : seg'[q].origin = Fresh("tmExact") =>
           Answered(learned', HashOf[seg'[q].source], seg'[q].target)
    BY <1>1, <1>2, <1>7, <1>10, CommitHonest DEF Honest
  <1>12. ASSUME NEW m \in Memories, NEW h \in Hashes, tm'[m][h] # NoEntry
         PROVE  Put(learned', h, tm'[m][h].target)
    <2>1. CASE tm'[m][h] = tm[m][h]
      <3>1. Put(learned, h, tm[m][h].target)
        BY <1>12, <2>1 DEF LearnInv
      <3> QED BY <1>7, <2>1, <3>1, MoreIsAnswered
    <2>2. CASE tm'[m][h] # tm[m][h]
      <3>1. tm \in [Memories -> [Hashes -> Entries \cup {NoEntry}]]
        BY DEF IInv, TypeOK
      <3>2. tm' = [tm EXCEPT ![working][HashOf[row.source]] = TmUpsert(@, row.source, row.target)]
            /\ ~skip
        BY <2>2 DEF SegmentConfirm, row
      <3>3. m = working /\ h = hash /\ tm'[m][h] = TmUpsert(tm[m][h], row.source, row.target)
        BY <1>5, <2>2, <3>1, <3>2
      <3>4. TmUpsert(tm[m][h], row.source, row.target).target = row.target
        BY <3>1 DEF TmUpsert, Entries
      <3> QED BY <1>5, <1>8, <3>2, <3>3, <3>4
    <2> QED BY <2>1, <2>2
  <1> QED BY <1>11, <1>12 DEF LearnInv

LEMMA PretranslateLearn ==
  ASSUME NEW loose \in BOOLEAN, IInv(loose), LearnInv, NEW c \in Clients, NEW d \in Documents, TmPretranslate(c, d)
  PROVE  LearnInv'
  <1> DEFINE hash(s) == HashOf[seg[s].source]
             S == {s \in RowsOf(d) : Fillable(seg[s]) /\ Best(hash(s)) # {}}
  <1>1. PICK pick \in [S -> enabled \X Hashes] :
          /\ \A s \in S : pick[s] \in Best(hash(s))
          /\ Commit(c, [s \in S |->
               Fill(seg[s], tm[pick[s][1]][pick[s][2]].target,
                    IF pick[s][2] = hash(s) THEN "tmExact" ELSE "tmFuzzy")], S)
    BY DEF TmPretranslate
  <1> DEFINE written == [s \in S |->
               Fill(seg[s], tm[pick[s][1]][pick[s][2]].target,
                    IF pick[s][2] = hash(s) THEN "tmExact" ELSE "tmFuzzy")]
  <1>2. Commit(c, written, S) /\ UNCHANGED <<tm, learned>>
    BY <1>1 DEF TmPretranslate
  <1>3. S \in SUBSET Segments
    BY DEF RowsOf
  <1>4. ASSUME NEW s \in S
        PROVE  /\ written[s] \in Rows
               /\ written[s].origin = Fresh("tmExact") =>
                    Answered(learned, hash(s), written[s].target)
    <2> DEFINE entry == tm[pick[s][1]][pick[s][2]]
               kind == IF pick[s][2] = hash(s) THEN "tmExact" ELSE "tmFuzzy"
    <2>1. s \in Segments /\ seg[s] \in Rows /\ seg[s].revision < MaxRevision
      BY <1>2, <1>3, CommitBound DEF IInv, TypeOK
    <2>2. pick[s] \in Matches(hash(s))
      BY <1>1 DEF Best
    <2>3. pick[s][1] \in Memories /\ pick[s][2] \in Hashes /\ entry # NoEntry
      BY <2>2 DEF Matches, IInv, TypeOK
    <2>4. entry \in Entries
      BY <2>3 DEF IInv, TypeOK
    <2>5. entry.target \in Targets /\ entry.target \in Texts
          /\ kind \in {"tmExact", "tmFuzzy", "aiDraft"}
      BY <2>4 DEF Texts, Entries
    <2>6. written[s] = Fill(seg[s], entry.target, kind)
      OBVIOUS
    <2>7. Answered(learned, pick[s][2], entry.target)
      BY <2>3, MoreIsAnswered DEF LearnInv
    <2>8. kind = "tmExact" => pick[s][2] = hash(s)
      OBVIOUS
    <2> HIDE DEF entry, kind, hash
    <2>9. written[s] \in Rows
      BY <2>1, <2>5, <2>6, FillSteps
    <2>10. written[s].target = entry.target
      BY <2>1, <2>6 DEF Fill, Rows
    <2>11. written[s].origin = Fresh(kind)
      BY <2>1, <2>6 DEF Fill, Rows
    <2>12. Fresh(kind) = Fresh("tmExact") => kind = "tmExact"
      BY DEF Fresh
    <2> QED BY <2>7, <2>8, <2>9, <2>10, <2>11, <2>12
  <1> HIDE DEF S, written
  <1>5. Honest(written, S)
    BY <1>2, <1>4 DEF Honest
  <1> QED BY <1>2, <1>3, <1>4, <1>5, QuietLearn

\* A handler that writes a memory keeps the facts about the rows, and those about
\* the entries that stay.
LEMMA EntriesLearn ==
  ASSUME LearnInv, UNCHANGED seg, learned \subseteq learned',
         \A m \in Memories, h \in Hashes :
           tm'[m][h] # NoEntry => tm'[m][h] = tm[m][h] \/ Put(learned', h, tm'[m][h].target)
  PROVE  LearnInv'
  <1>1. ASSUME NEW m \in Memories, NEW h \in Hashes, tm'[m][h] # NoEntry
        PROVE  Put(learned', h, tm'[m][h].target)
    BY <1>1, MoreIsAnswered DEF LearnInv
  <1>2. ASSUME NEW s \in Segments, seg'[s].origin = Fresh("tmExact")
        PROVE  Answered(learned', HashOf[seg'[s].source], seg'[s].target)
    BY <1>2, MoreIsAnswered DEF LearnInv
  <1> QED BY <1>1, <1>2 DEF LearnInv

LEMMA ImportLearn ==
  ASSUME NEW loose \in BOOLEAN, IInv(loose), LearnInv, NEW m \in Memories, NEW file \in Exchanged,
         TmImport(m, file)
  PROVE  LearnInv'
  <1>1. tm \in [Memories -> [Hashes -> Entries \cup {NoEntry}]]
    BY DEF IInv, TypeOK
  <1>2. /\ UNCHANGED seg /\ learned \subseteq learned'
        /\ \A h \in DOMAIN file : Voucher(file[h].source, file[h].target, "memory") \in learned'
        /\ tm' = [tm EXCEPT ![m] = [h \in Hashes |->
              IF h \in DOMAIN file THEN TmUpsert(@[h], file[h].source, file[h].target)
              ELSE @[h]]]
    BY DEF TmImport
  <1>3. ASSUME NEW n \in Memories, NEW h \in Hashes, tm'[n][h] # tm[n][h]
        PROVE  Put(learned', h, tm'[n][h].target)
    <2>1. n = m /\ h \in DOMAIN file
          /\ tm'[n][h] = TmUpsert(tm[n][h], file[h].source, file[h].target)
      BY <1>1, <1>2, <1>3
    <2>2. file[h].source \in Sources /\ file[h].target \in Targets /\ HashOf[file[h].source] = h
      BY <2>1, FileType
    <2>3. tm'[n][h].target = file[h].target
      BY <1>1, <2>1, <2>2, UpsertedType
    <2>4. Put(learned', HashOf[file[h].source], file[h].target)
      BY <1>2, <2>1, VoucherAnswers
    <2> QED BY <2>2, <2>3, <2>4
  <1> QED BY <1>2, <1>3, EntriesLearn

LEMMA EntryUpdateLearn ==
  ASSUME NEW loose \in BOOLEAN, IInv(loose), LearnInv, NEW m \in Memories, NEW h \in Hashes,
         NEW entry \in EntryEdits, TmUpdate(m, h, entry)
  PROVE  LearnInv'
  <1>1. tm \in [Memories -> [Hashes -> Entries \cup {NoEntry}]]
    BY DEF IInv, TypeOK
  <1>2. /\ UNCHANGED seg /\ learned \subseteq learned'
        /\ Voucher(entry.source, entry.target, "memory") \in learned'
        /\ tm' = [tm EXCEPT ![m][h] = NoEntry, ![m][HashOf[entry.source]] = entry]
    BY DEF TmUpdate
  <1>3. HashOf[entry.source] \in Hashes
    BY GridAssumption, RowAssumption DEF Entries
  <1>4. Put(learned', HashOf[entry.source], entry.target)
    BY <1>2, VoucherAnswers
  <1>5. ASSUME NEW n \in Memories, NEW g \in Hashes
        PROVE  \/ tm'[n][g] = tm[n][g]
               \/ tm'[n][g] = NoEntry
               \/ g = HashOf[entry.source] /\ tm'[n][g] = entry
    BY <1>1, <1>2, <1>3
  <1> QED BY <1>2, <1>4, <1>5, EntriesLearn

LEMMA EntryDeleteLearn ==
  ASSUME NEW loose \in BOOLEAN, IInv(loose), LearnInv, NEW m \in Memories, NEW h \in Hashes,
         TmDelete(m, h)
  PROVE  LearnInv'
  <1>1. tm \in [Memories -> [Hashes -> Entries \cup {NoEntry}]]
    BY DEF IInv, TypeOK
  <1>2. UNCHANGED <<seg, learned>> /\ tm' = [tm EXCEPT ![m][h] = NoEntry]
    BY DEF TmDelete
  <1>3. \A n \in Memories, g \in Hashes : tm'[n][g] = tm[n][g] \/ tm'[n][g] = NoEntry
    BY <1>1, <1>2
  <1> QED BY <1>2, <1>3, EntriesLearn

LEMMA InitLearn == Init => LearnInv
  <1> SUFFICES ASSUME Init PROVE LearnInv
    OBVIOUS
  <1>1. \A s \in Segments : seg[s].origin = NoOrigin
    BY DEF Init, Imports
  <1>2. Fresh("tmExact") # NoOrigin
    BY FreshType, GridAssumption
  <1> QED BY <1>1, <1>2 DEF Init, LearnInv

LEMMA NextLearn == IInv(FALSE) /\ LearnInv /\ [Next]_vars => LearnInv'
  <1> SUFFICES ASSUME IInv(FALSE), LearnInv, [Next]_vars PROVE LearnInv'
    OBVIOUS
  <1>1. CASE UNCHANGED vars
    BY <1>1, QuietLearn DEF vars
  <1>2. ASSUME NEW c \in Clients, NEW d \in Documents, SegmentList(c, d)
        PROVE  LearnInv'
    BY <1>2, QuietLearn DEF SegmentList
  <1>3. ASSUME NEW m \in Memories, NEW on \in BOOLEAN, NEW writable \in BOOLEAN,
               MemoryUpdate(m, on, writable)
        PROVE  LearnInv'
    BY <1>3, QuietLearn DEF MemoryUpdate
  <1>4. ASSUME NEW k \in Settings, QaProfileUpdate(k)
        PROVE  LearnInv'
    BY <1>4, QuietLearn DEF QaProfileUpdate
  <1>5. CASE Next
    BY <1>2, <1>3, <1>4, <1>5, PretranslateLearn, ReplaceLearn, UpdateLearn, UpdateSourceLearn,
       ConfirmLearn, LockLearn, ImportLearn, EntryUpdateLearn, EntryDeleteLearn DEF Next
  <1> QED BY <1>1, <1>5

LEMMA Learning == Spec => []LearnInv
  BY InitLearn, NextLearn, SafetyCore, PTL DEF Spec

\* The memories hold what clients had on their screens when they confirmed and what
\* they put there by an import or an edit of an entry, and nothing else.
THEOREM MemoriesLearnConfirmed == Spec => []LearnedPairOnScreen
  <1>1. LearnInv => LearnedPairOnScreen
    BY DEF LearnInv, Put, LearnedPairOnScreen
  <1> QED BY <1>1, Learning, PTL

\* A row with an unedited exact stamp carries a text that somebody vouched for as
\* the translation of its source, whatever stamps clients send, files they import
\* and entries they edit, and also after the entry it came from is another or gone.
THEOREM StampsAreHonest == Spec => []ExactStampIsHonest
  <1>1. LearnInv => ExactStampIsHonest
    BY DEF LearnInv, Answered, ExactStampIsHonest
  <1> QED BY <1>1, Learning, PTL

-----------------------------------------------------------------------------
(* Automation.                                                              *)

\* What may happen to a text that is there.
TextKept ==
  \A s \in Segments :
    seg[s].target # Blank /\ seg'[s].target # seg[s].target =>
      \/ \E c \in Clients, text \in Edits, stamp \in Stamps : SegmentUpdate(c, s, text, stamp)
      \/ \E c \in Clients, w \in Rewrites, incl \in BOOLEAN :
           SegmentReplace(c, DocOf[s], w, incl)

LEMMA TextStep == IInv(FALSE) /\ Next => TextKept
  <1> SUFFICES ASSUME IInv(FALSE), Next PROVE TextKept
    OBVIOUS
  <1>1. ASSUME seg' = seg
        PROVE  TextKept
    BY <1>1 DEF TextKept
  <1>2. ASSUME NEW c \in Clients, NEW d \in Documents, SegmentList(c, d)
        PROVE  TextKept
    BY <1>1, <1>2 DEF SegmentList
  <1>3. ASSUME NEW c \in Clients, NEW d \in Documents, TmPretranslate(c, d)
        PROVE  TextKept
    <2> DEFINE S == {s \in RowsOf(d) : Fillable(seg[s]) /\ Best(HashOf[seg[s].source]) # {}}
    <2>1. PICK written : Commit(c, written, S)
      BY <1>3 DEF TmPretranslate
    <2>2. \A s \in S : seg[s].target = Blank
      BY DEF Fillable
    <2> HIDE DEF S
    <2>3. \A s \in Segments : seg[s].target # Blank => seg'[s] = seg[s]
      BY <2>1, <2>2 DEF Commit
    <2> QED BY <2>3 DEF TextKept
  <1>4. ASSUME NEW c \in Clients, NEW d \in Documents, NEW w \in Rewrites,
               NEW incl \in BOOLEAN, SegmentReplace(c, d, w, incl)
        PROVE  TextKept
    <2>1. \A s \in Segments \ RowsOf(d) : seg'[s] = seg[s]
      BY <1>4 DEF SegmentReplace, Commit
    <2>2. \A s \in RowsOf(d) : DocOf[s] = d
      BY DEF RowsOf
    <2> QED BY <1>4, <2>1, <2>2 DEF TextKept
  <1>5. ASSUME NEW c \in Clients, NEW s \in Segments, NEW text \in Edits, NEW stamp \in Stamps,
               SegmentUpdate(c, s, text, stamp)
        PROVE  TextKept
    <2>1. \A q \in Segments \ {s} : seg'[q] = seg[q]
      BY <1>5 DEF SegmentUpdate, Commit
    <2> QED BY <1>5, <2>1 DEF TextKept
  <1>6. ASSUME NEW c \in Clients, NEW s \in Segments, NEW src \in SourceEdits,
               SegmentUpdateSource(c, s, src)
        PROVE  TextKept
    <2>1. seg[s] \in Rows
      BY DEF IInv, TypeOK
    <2>2. /\ seg'[s].target = seg[s].target
          /\ \A q \in Segments \ {s} : seg'[q] = seg[q]
      BY <1>6, <2>1 DEF SegmentUpdateSource, Commit, Upsert, Rows
    <2> QED BY <2>2 DEF TextKept
  <1>7. ASSUME NEW c \in Clients, NEW s \in Segments, NEW locked \in BOOLEAN,
               SegmentLock(c, s, locked)
        PROVE  TextKept
    <2>1. seg[s] \in Rows
      BY DEF IInv, TypeOK
    <2>2. /\ seg'[s].target = seg[s].target
          /\ \A q \in Segments \ {s} : seg'[q] = seg[q]
      BY <1>7, <2>1 DEF SegmentLock, Commit, Upsert, Rows
    <2> QED BY <2>2 DEF TextKept
  <1>8. ASSUME NEW c \in Clients, NEW s \in Segments, NEW skip \in BOOLEAN,
               SegmentConfirm(c, s, skip)
        PROVE  TextKept
    <2> DEFINE dups == IF skip THEN {} ELSE Duplicates(s)
               row == [seg[s] EXCEPT !.state = "confirmed", !.revision = @ + 1]
               written == [q \in {s} \cup dups |->
                             IF q = s THEN row ELSE Fill(seg[q], row.target, "tmExact")]
    <2>1. Commit(c, written, {s} \cup dups)
      BY <1>8 DEF SegmentConfirm
    <2>2. \A q \in dups : seg[q].target = Blank
      BY DEF Duplicates, Fillable
    <2>3. seg[s] \in Rows /\ written[s] = row
      BY DEF IInv, TypeOK
    <2>4. row.target = seg[s].target /\ Upsert(seg[s], row).target = row.target
      BY <2>3 DEF Rows, Upsert
    <2>5. /\ seg'[s] = Upsert(seg[s], written[s])
          /\ \A q \in Segments \ ({s} \cup dups) : seg'[q] = seg[q]
      BY <2>1 DEF Commit
    <2> HIDE DEF dups, row, written
    <2> QED BY <2>2, <2>3, <2>4, <2>5 DEF TextKept
  <1>9. ASSUME NEW m \in Memories, NEW on \in BOOLEAN, NEW writable \in BOOLEAN,
               MemoryUpdate(m, on, writable)
        PROVE  TextKept
    BY <1>1, <1>9 DEF MemoryUpdate
  <1> QED BY <1>1, <1>2, <1>3, <1>4, <1>5, <1>6, <1>7, <1>8, <1>9
          DEF Next, TmImport, TmUpdate, TmDelete, QaProfileUpdate

\* Propagation and pretranslation never write over a text: only an edit of the
\* row or a search-and-replace does.
THEOREM AutomationFillsBlanks == Spec => AutomationNeverOverwrites
  <1>1. IInv(FALSE) /\ [Next]_vars => [TextKept]_vars
    BY TextStep
  <1>2. Spec => [][TextKept]_vars
    BY <1>1, SafetyCore, PTL DEF Spec
  <1> QED BY <1>2 DEF AutomationNeverOverwrites, TextKept

-----------------------------------------------------------------------------
(* Runs, waivers and corrections.                                           *)

\* A pass keeps the issues typed, and records everything it found.
LEMMA ReconcileType ==
  ASSUME NEW old \in [Findings -> Statuses], NEW found, NEW rules
  PROVE  /\ Reconcile(old, found, rules) \in [Findings -> Statuses]
         /\ \A f \in found \cap Findings : Reconcile(old, found, rules)[f] \in {"open", "waived"}
  BY DEF Reconcile, Statuses

\* What the segment rules find in a typed row with a text is on record after a
\* run that evaluated it.
LEMMA RunRecords ==
  ASSUME NEW loose \in BOOLEAN, IInv(loose), NEW d \in Documents, NEW s \in Evaluated(d), seg[s].target # Blank
  PROVE  \A f \in SegmentFindings(seg[s], setting) : AfterRun(d)[s][f] \in {"open", "waived"}
  <1>1. /\ s \in Segments /\ seg[s] \in Rows /\ issues[s] \in [Findings -> Statuses]
        /\ setting \in Settings
    BY DEF Evaluated, RowsOf, IInv, TypeOK
  <1>2. SegmentFindings(seg[s], setting) \subseteq Findings
    BY <1>1, FindingsInRange
  <1>3. SegmentFindings(seg[s], setting) \subseteq Found(Evaluated(d), s)
    BY DEF Found
  <1>4. AfterRun(d)[s] = Reconcile(issues[s], Found(Evaluated(d), s), AllRules)
    BY <1>1 DEF AfterRun
  <1> QED BY <1>1, <1>2, <1>3, <1>4, ReconcileType

LEMMA AfterRunType ==
  ASSUME issues \in [Segments -> [Findings -> Statuses]], NEW d \in Documents
  PROVE  /\ AfterRun(d) \in [Segments -> [Findings -> Statuses]]
         /\ \A s \in Segments \ Evaluated(d) : AfterRun(d)[s] = issues[s]
  BY ReconcileType DEF AfterRun

\* A step that changes nothing but issues keeps the invariant when the issues
\* of confirmed rows stay on record.
LEMMA IssuesStep ==
  ASSUME NEW loose \in BOOLEAN, IInv(loose),
         UNCHANGED <<seg, tm, working, enabled, view, learned, setting>>,
         issues' \in [Segments -> [Findings -> Statuses]], judged' \in [Segments -> Settings],
         \A s \in Segments : seg[s].state = "confirmed" =>
           \A f \in SegmentFindings(seg[s], judged'[s]) : issues'[s][f] \in {"open", "waived"}
  PROVE  IInv(loose)'
  <1>1. TypeOK'
    BY DEF IInv, TypeOK
  <1> QED BY <1>1 DEF IInv, RevInv, RowsInStep, ConfirmedFindingsOnRecord

LEMMA QaRunIInv ==
  ASSUME NEW loose \in BOOLEAN, IInv(loose), NEW d \in Documents, QaRun(d)
  PROVE  IInv(loose)'
  <1>1. /\ issues' = AfterRun(d) /\ UNCHANGED <<seg, tm, working, enabled, view, learned, setting>>
        /\ judged' = [s \in Segments |-> IF s \in Evaluated(d) THEN setting ELSE judged[s]]
    BY DEF QaRun
  <1>2. /\ issues \in [Segments -> [Findings -> Statuses]]
        /\ setting \in Settings /\ judged \in [Segments -> Settings]
    BY DEF IInv, TypeOK
  <1>3. ASSUME NEW s \in Segments, seg[s].state = "confirmed"
        PROVE  \A f \in SegmentFindings(seg[s], judged'[s]) : issues'[s][f] \in {"open", "waived"}
    <2>1. seg[s].target # Blank
      BY <1>3 DEF IInv, RowsInStep, InStep
    <2>2. CASE s \in Evaluated(d)
      BY <1>1, <2>1, <2>2, RunRecords
    <2>3. CASE s \notin Evaluated(d)
      BY <1>1, <1>2, <1>3, <2>3, AfterRunType DEF IInv, ConfirmedFindingsOnRecord
    <2> QED BY <2>2, <2>3
  <1>4. judged' \in [Segments -> Settings]
    BY <1>1, <1>2
  <1> QED BY <1>1, <1>2, <1>3, <1>4, AfterRunType, IssuesStep

LEMMA QaWaiveIInv ==
  ASSUME NEW loose \in BOOLEAN, IInv(loose), NEW selected \in Selections, NEW waived \in BOOLEAN, QaWaive(selected, waived)
  PROVE  IInv(loose)'
  <1> DEFINE flip == {x \in selected : issues[x[1]][x[2]] \in Flipped(waived)}
  <1>1. /\ issues' = [s \in Segments |-> [f \in Findings |->
              IF <<s, f>> \in flip THEN IF waived THEN "waived" ELSE "open"
              ELSE issues[s][f]]]
        /\ UNCHANGED <<seg, tm, working, enabled, view, learned, setting, judged>>
    BY DEF QaWaive
  <1>2. issues \in [Segments -> [Findings -> Statuses]] /\ judged \in [Segments -> Settings]
    BY DEF IInv, TypeOK
  <1> HIDE DEF flip
  <1>3. issues' \in [Segments -> [Findings -> Statuses]]
    BY <1>1, <1>2 DEF Statuses
  <1>4. ASSUME NEW s \in Segments, seg[s].state = "confirmed",
               NEW f \in SegmentFindings(seg[s], judged[s])
        PROVE  issues'[s][f] \in {"open", "waived"}
    <2>1. seg[s] \in Rows /\ seg[s].target # Blank
      BY <1>4 DEF IInv, TypeOK, RowsInStep, InStep
    <2>2. f \in Findings
      BY <1>2, <2>1, FindingsInRange
    <2>3. issues[s][f] \in {"open", "waived"}
      BY <1>4 DEF IInv, ConfirmedFindingsOnRecord
    <2> QED BY <1>1, <2>2, <2>3
  <1> QED BY <1>1, <1>2, <1>3, <1>4, IssuesStep

LEMMA QaFixIInv ==
  ASSUME NEW loose \in BOOLEAN, IInv(loose), NEW c \in Clients, NEW s \in Segments, NEW f \in Findings, QaFixApply(c, s, f)
  PROVE  IInv(loose)'
  <1> DEFINE text == Correct[f[1]][seg[s].target]
             row == Retarget(seg[s], text, NoOrigin)
             written == [q \in {s} |-> row]
  <1>1. /\ Commit(c, written, {s})
        /\ issues' = [issues EXCEPT ![s] = RefreshSegment(@, row, setting)]
        /\ judged' = [judged EXCEPT ![s] = setting]
        /\ UNCHANGED <<tm, working, enabled, learned, setting>>
    BY DEF QaFixApply
  <1>2. seg[s] \in Rows /\ seg[s].revision < MaxRevision
    BY <1>1, CommitBound DEF IInv, TypeOK
  <1>3. text \in Texts
    BY CorrectAssumption DEF QaFixApply
  <1> HIDE DEF text
  <1>4. /\ row \in Rows /\ row.revision > seg[s].revision
        /\ row.state # "confirmed" /\ (row.state = "untranslated" <=> row.target = Blank)
    BY <1>2, <1>3, RetargetType
  <1>5. written[s] = row
    OBVIOUS
  <1> HIDE DEF row, written
  <1>6. Advances(written, {s}) /\ Consistent(written, {s}, loose)
    BY <1>4, <1>5 DEF Advances, Consistent, InStep
  <1>7. /\ issues \in [Segments -> [Findings -> Statuses]] /\ issues[s] \in [Findings -> Statuses]
        /\ setting \in Settings /\ judged \in [Segments -> Settings]
    BY DEF IInv, TypeOK
  <1>8. /\ issues' \in [Segments -> [Findings -> Statuses]] /\ judged' \in [Segments -> Settings]
        /\ Unjudged({s})
    BY <1>1, <1>4, <1>7, RefreshType DEF Unjudged
  <1>9. OthersTyped
    BY <1>1, <1>8 DEF IInv, TypeOK, OthersTyped
  <1> QED BY <1>1, <1>6, <1>8, <1>9, CommitKeeps

LEMMA QaNextIInv ==
  ASSUME NEW loose \in BOOLEAN
  PROVE  IInv(loose) /\ [QaNext]_vars => IInv(loose)'
  <1> SUFFICES ASSUME IInv(loose), [QaNext]_vars PROVE IInv(loose)'
    OBVIOUS
  <1>1. CASE [Next]_vars
    BY <1>1, NextIInv
  <1>2. CASE QaNext /\ ~Next
    BY <1>2, QaRunIInv, QaWaiveIInv, QaFixIInv DEF QaNext, DocumentExport
  <1> QED BY <1>1, <1>2

-----------------------------------------------------------------------------
(* Waivers.                                                                 *)

LEMMA RefreshKeepsWaiver ==
  ASSUME NEW old, NEW row, NEW k, NEW f \in Findings, old[f] = "waived",
         f \in SegmentFindings(row, k)
  PROVE  RefreshSegment(old, row, k)[f] = "waived"
  BY DEF RefreshSegment, Reconcile

\* What may happen to an accepted finding that the row still shows.
WaiverKept ==
  \A s \in Segments, f \in Findings :
    /\ issues[s][f] = "waived" /\ issues'[s][f] # "waived"
    /\ f \in SegmentFindings(seg'[s], setting)
    => \E selected \in Selections : QaWaive(selected, FALSE)

\* A handler that writes a row and refreshes its issues keeps the waivers.
LEMMA RefreshingCommit ==
  ASSUME NEW loose \in BOOLEAN, IInv(loose), NEW c, NEW s \in Segments, NEW S, s \in S, NEW written, Commit(c, written, S),
         NEW row \in Rows, written[s] = row,
         issues' = [issues EXCEPT ![s] = RefreshSegment(@, row, setting)]
  PROVE  WaiverKept
  <1> SUFFICES ASSUME NEW q \in Segments, NEW f \in Findings, issues[q][f] = "waived",
                      f \in SegmentFindings(seg'[q], setting)
               PROVE  issues'[q][f] = "waived"
    BY DEF WaiverKept
  <1>1. issues \in [Segments -> [Findings -> Statuses]] /\ seg[s] \in Rows
    BY DEF IInv, TypeOK
  <1>2. CASE q # s
    BY <1>1, <1>2
  <1>3. CASE q = s
    <2>1. seg'[s] = Upsert(seg[s], row)
      BY DEF Commit
    <2>2. SegmentFindings(seg'[s], setting) = SegmentFindings(row, setting)
      BY <1>1, <2>1, UpsertType, SameFindings
    <2>3. RefreshSegment(issues[s], row, setting)[f] = "waived"
      BY <1>3, <2>2, RefreshKeepsWaiver
    <2> QED BY <1>1, <1>3, <2>3
  <1> QED BY <1>2, <1>3

LEMMA ConfirmKeepsWaiver ==
  ASSUME NEW loose \in BOOLEAN, IInv(loose), NEW c \in Clients, NEW s \in Segments, NEW skip \in BOOLEAN,
         SegmentConfirm(c, s, skip)
  PROVE  WaiverKept
  <1> DEFINE row == [seg[s] EXCEPT !.state = "confirmed", !.revision = @ + 1]
             S == {s} \cup (IF skip THEN {} ELSE Duplicates(s))
             written == [q \in S |-> IF q = s THEN row ELSE Fill(seg[q], row.target, "tmExact")]
  <1>1. Commit(c, written, S) /\ issues' = [issues EXCEPT ![s] = RefreshSegment(@, row, setting)]
    BY DEF SegmentConfirm
  <1>2. s \in S /\ written[s] = row
    OBVIOUS
  <1>3. seg[s] \in Rows /\ seg[s].revision < MaxRevision
    BY <1>1, <1>2, CommitBound DEF IInv, TypeOK
  <1>4. seg[s].revision + 1 \in 1..MaxRevision
    BY <1>3, RowAssumption DEF Rows
  <1>5. row \in Rows
    BY <1>3, <1>4 DEF Rows, States
  <1> HIDE DEF row, S, written
  <1> QED BY <1>1, <1>2, <1>5, RefreshingCommit

LEMMA FixKeepsWaiver ==
  ASSUME NEW loose \in BOOLEAN, IInv(loose), NEW c \in Clients, NEW s \in Segments, NEW f \in Findings, QaFixApply(c, s, f)
  PROVE  WaiverKept
  <1> DEFINE text == Correct[f[1]][seg[s].target]
             row == Retarget(seg[s], text, NoOrigin)
             written == [q \in {s} |-> row]
  <1>1. Commit(c, written, {s}) /\ issues' = [issues EXCEPT ![s] = RefreshSegment(@, row, setting)]
    BY DEF QaFixApply
  <1>2. seg[s] \in Rows /\ seg[s].revision < MaxRevision
    BY <1>1, CommitBound DEF IInv, TypeOK
  <1>3. text \in Texts
    BY CorrectAssumption DEF QaFixApply
  <1> HIDE DEF text
  <1>4. row \in Rows
    BY <1>2, <1>3, RetargetType
  <1>5. written[s] = row
    OBVIOUS
  <1> HIDE DEF row, written
  <1> QED BY <1>1, <1>4, <1>5, RefreshingCommit

LEMMA RunKeepsWaiver ==
  ASSUME NEW loose \in BOOLEAN, IInv(loose), NEW d \in Documents, QaRun(d)
  PROVE  WaiverKept
  <1> SUFFICES ASSUME NEW s \in Segments, NEW f \in Findings, issues[s][f] = "waived",
                      f \in SegmentFindings(seg'[s], setting)
               PROVE  issues'[s][f] = "waived"
    BY DEF WaiverKept
  <1>1. issues' = AfterRun(d) /\ seg' = seg
    BY DEF QaRun
  <1> QED BY <1>1 DEF AfterRun, Found, Reconcile

\* Waiving changes open issues only; restoring is the user's decision.
LEMMA WaiveKeepsWaiver ==
  ASSUME NEW loose \in BOOLEAN, IInv(loose), NEW selected \in Selections, NEW waived \in BOOLEAN, QaWaive(selected, waived)
  PROVE  WaiverKept
  <1>1. CASE waived
    <2> SUFFICES ASSUME NEW s \in Segments, NEW f \in Findings, issues[s][f] = "waived"
                 PROVE  issues'[s][f] = "waived"
      BY DEF WaiverKept
    <2> QED BY <1>1 DEF QaWaive
  <1>2. CASE ~waived
    BY <1>2 DEF WaiverKept
  <1> QED BY <1>1, <1>2

LEMMA WaiverStep ==
  ASSUME NEW loose \in BOOLEAN, IInv(loose), QaNext
  PROVE  WaiverKept
  <1>1. ASSUME UNCHANGED issues PROVE WaiverKept
    BY <1>1 DEF WaiverKept
  <1>2. CASE Next
    BY <1>1, <1>2, ConfirmKeepsWaiver
       DEF Next, SegmentList, SegmentUpdate, SegmentUpdateSource, SegmentReplace, SegmentLock,
           TmPretranslate, MemoryUpdate, TmImport, TmUpdate, TmDelete, QaProfileUpdate
  <1>3. CASE ~Next
    BY <1>3, RunKeepsWaiver, WaiveKeepsWaiver, FixKeepsWaiver DEF QaNext, DocumentExport
  <1> QED BY <1>2, <1>3

-----------------------------------------------------------------------------
\* The invariant of the grid also holds with runs, waivers and corrections.
THEOREM QaSafety == QaSpec => []IInv(FALSE)
  <1>1. Init => IInv(FALSE)
    BY InitIInv
  <1>2. IInv(FALSE) /\ [QaNext]_vars => IInv(FALSE)'
    BY QaNextIInv
  <1> QED BY <1>1, <1>2, PTL DEF QaSpec

\* A confirmed row never shows a finding that is not on record, whatever runs,
\* waivers and corrections happen around the confirm.
THEOREM QaFindingsInStep == QaSpec => []ConfirmedFindingsOnRecord
  <1>1. IInv(FALSE) => ConfirmedFindingsOnRecord
    BY DEF IInv
  <1> QED BY <1>1, QaSafety, PTL

\* What a user accepted stays accepted while the row shows it, until the user
\* restores it.
THEOREM AcceptedStaysAccepted == QaSpec => WaiverHolds
  <1>1. IInv(FALSE) /\ [QaNext]_vars => [WaiverKept]_vars
    BY WaiverStep
  <1>2. QaSpec => [][WaiverKept]_vars
    BY <1>1, QaSafety, PTL DEF QaSpec
  <1> QED BY <1>2 DEF WaiverHolds, WaiverKept

-----------------------------------------------------------------------------
(* The AI writers.                                                          *)

\* A write of the engine's own is a transaction that answers nobody.
LEMMA StoreCommits ==
  ASSUME seg \in [Segments -> Rows], NEW S \in SUBSET Segments, NEW written,
         Advances(written, S), Store(written, S)
  PROVE  \A c : Commit(c, written, S)
  <1>1. \A s \in S : seg[s].revision < MaxRevision
    BY RowAssumption DEF Store, Advances, Rows
  <1> QED BY <1>1 DEF Store, Commit

LEMMA FillFields ==
  ASSUME NEW old \in Rows, NEW text, NEW kind, NEW row, row = Fill(old, text, kind)
  PROVE  /\ row.revision = old.revision + 1 /\ old.revision \in Int
         /\ row.origin = Fresh(kind) /\ row.source = old.source
  BY DEF Fill, Rows

\* The row of a draft.
LEMMA DraftType ==
  ASSUME NEW loose \in BOOLEAN, IInv(loose), NEW s \in Segments, NEW text \in Answers,
         NEW row, row = Fill(seg[s], text, "aiDraft"), row.revision <= MaxRevision
  PROVE  /\ seg[s] \in Rows /\ row \in Rows
         /\ row.revision = seg[s].revision + 1 /\ row.state = "draft" /\ row.target = text
         /\ row.origin = Fresh("aiDraft") /\ row.source = seg[s].source
  <1>1. seg[s] \in Rows /\ text \in Texts
    BY AiAssumption DEF IInv, TypeOK
  <1>2. /\ row.revision = seg[s].revision + 1 /\ seg[s].revision \in Int
        /\ row.origin = Fresh("aiDraft") /\ row.source = seg[s].source
    BY <1>1, FillFields
  <1>3. seg[s].revision < MaxRevision
    BY <1>2, RowAssumption
  <1> QED BY <1>1, <1>2, <1>3, FillType

\* A draft that is stored, with or without its findings.
LEMMA DraftIInv ==
  ASSUME NEW loose \in BOOLEAN, IInv(loose), NEW s \in Segments, NEW text \in Answers,
         loose \/ text # Blank,
         NEW row, row = Fill(seg[s], text, "aiDraft"),
         Store([q \in {s} |-> row], {s}),
         \/ issues' = issues /\ judged' = judged
         \/ /\ issues' = [issues EXCEPT ![s] = RefreshSegment(@, row, setting)]
            /\ judged' = [judged EXCEPT ![s] = setting],
         UNCHANGED <<tm, working, enabled, learned, setting>>
  PROVE  IInv(loose)'
  <1> DEFINE written == [q \in {s} |-> row]
  <1>1. written[s] = row
    OBVIOUS
  <1>2. row.revision <= MaxRevision
    BY DEF Store
  <1>3. /\ seg[s] \in Rows /\ row \in Rows /\ row.revision = seg[s].revision + 1
        /\ row.state = "draft" /\ row.target = text
    BY <1>2, DraftType
  <1>4. Store(written, {s})
    OBVIOUS
  <1> HIDE DEF written
  <1>5. Advances(written, {s})
    BY <1>1, <1>3 DEF Advances, Rows
  <1>6. seg \in [Segments -> Rows]
    BY DEF IInv, TypeOK
  <1>7. Commit(s, written, {s})
    BY <1>4, <1>5, <1>6, StoreCommits
  <1>8. Consistent(written, {s}, loose)
    BY <1>1, <1>3 DEF Consistent, InStep
  <1>9. /\ issues \in [Segments -> [Findings -> Statuses]] /\ issues[s] \in [Findings -> Statuses]
        /\ setting \in Settings /\ judged \in [Segments -> Settings]
    BY DEF IInv, TypeOK
  <1>10. /\ issues' \in [Segments -> [Findings -> Statuses]] /\ judged' \in [Segments -> Settings]
         /\ Unjudged({s})
    <2>1. CASE issues' = issues /\ judged' = judged
      BY <1>9, <2>1 DEF Unjudged
    <2>2. CASE /\ issues' = [issues EXCEPT ![s] = RefreshSegment(@, row, setting)]
               /\ judged' = [judged EXCEPT ![s] = setting]
      <3> DEFINE refreshed == RefreshSegment(issues[s], row, setting)
      <3>1. refreshed \in [Findings -> Statuses]
        BY <1>3, <1>9, RefreshType
      <3>2. issues' = [issues EXCEPT ![s] = refreshed]
        BY <2>2
      <3> HIDE DEF refreshed
      <3> QED BY <1>9, <2>2, <3>1, <3>2 DEF Unjudged
    <2> QED BY <2>1, <2>2
  <1>11. OthersTyped
    BY <1>10 DEF IInv, TypeOK, OthersTyped
  <1> QED BY <1>5, <1>7, <1>8, <1>10, <1>11, CommitKeeps

\* What a turbo confirm writes: the row, confirmed, and drafts in its duplicates.
TurboStep(s, text, S, written, row) ==
  /\ \A c : Commit(c, written, S)
  /\ Advances(written, S)
  /\ s \in S /\ written[s] = row
  /\ \A q \in S : seg[q].target = Blank /\ ~seg[q].locked
  /\ \A q \in S \ {s} : /\ written[q].state = "draft" /\ written[q].target # Blank
                         /\ written[q].origin = Fresh("tmExact")
  /\ row.state = "confirmed" /\ row.target = text /\ text \in Targets
  /\ row.origin = Fresh("aiDraft") /\ row.source = seg[s].source
  /\ issues' = [issues EXCEPT ![s] = RefreshSegment(@, row, setting)]
  /\ tm' = [tm EXCEPT ![working][HashOf[row.source]] = TmUpsert(@, row.source, row.target)]
  /\ judged' = [judged EXCEPT ![s] = setting]
  /\ UNCHANGED <<working, enabled, learned, setting>>
  /\ working # NoMemory

LEMMA TurboWrites ==
  ASSUME NEW loose \in BOOLEAN, IInv(loose), NEW s \in Segments, NEW text \in Answers,
         TurboDraft(s, text)
  PROVE  \E S \in SUBSET Segments, row \in Rows : \E written : TurboStep(s, text, S, written, row)
  <1> DEFINE drafted == Fill(seg[s], text, "aiDraft")
             row == [drafted EXCEPT !.state = "confirmed", !.revision = @ + 1]
             dups == Duplicates(s)
             S == {s} \cup dups
             written == [q \in S |-> IF q = s THEN row ELSE Fill(seg[q], text, "tmExact")]
  <1>1. /\ Store(written, S) /\ Draftable(s, text)
        /\ issues' = [issues EXCEPT ![s] = RefreshSegment(@, row, setting)]
        /\ tm' = [tm EXCEPT ![working][HashOf[seg[s].source]] =
                    TmUpsert(@, seg[s].source, text)]
        /\ judged' = [judged EXCEPT ![s] = setting]
        /\ UNCHANGED <<working, enabled, learned, setting>> /\ working # NoMemory
    BY DEF TurboDraft, IssuesAfterGate
  <1>2. S \in SUBSET Segments /\ s \in S
    BY DEF Duplicates
  <1>3. written[s] = row /\ \A q \in S \ {s} : written[q] = Fill(seg[q], text, "tmExact")
    OBVIOUS
  <1>4. \A q \in S : seg[q] \in Rows /\ seg[q].target = Blank /\ ~seg[q].locked
    BY <1>1, <1>2 DEF Draftable, Duplicates, Fillable, IInv, TypeOK
  <1>5. text \in Targets
    BY <1>1, AiAssumption DEF Draftable, Texts
  <1>6. /\ row.revision = seg[s].revision + 2 /\ seg[s].revision \in Int
        /\ drafted.revision = seg[s].revision + 1
    BY <1>2, <1>4 DEF Fill, Rows
  <1>7. row.revision <= MaxRevision
    BY <1>1, <1>2, <1>3 DEF Store
  <1>8. /\ drafted \in Rows /\ drafted.target = text
        /\ drafted.origin = Fresh("aiDraft") /\ drafted.source = seg[s].source
    BY <1>6, <1>7, RowAssumption, DraftType
  <1>9. row.revision \in 1..MaxRevision
    BY <1>6, <1>7, <1>8, RowAssumption DEF Rows
  <1> HIDE DEF drafted
  <1>10. /\ row \in Rows /\ row.state = "confirmed" /\ row.target = text
         /\ row.origin = Fresh("aiDraft") /\ row.source = seg[s].source
    <2>1. row.revision = drafted.revision + 1
      BY <1>8 DEF Rows
    <2> QED BY <1>8, <1>9, <2>1 DEF Rows, States
  <1> HIDE DEF row
  <1>11. ASSUME NEW q \in S \ {s}
         PROVE  /\ written[q] \in Rows /\ written[q].revision = seg[q].revision + 1
                /\ written[q].state = "draft" /\ written[q].target = text
                /\ written[q].origin = Fresh("tmExact")
    <2>1. written[q].revision <= MaxRevision
      BY <1>1 DEF Store
    <2>2. written[q] = Fill(seg[q], text, "tmExact")
      BY <1>3
    <2>3. /\ written[q].revision = seg[q].revision + 1 /\ seg[q].revision \in Int
          /\ written[q].origin = Fresh("tmExact")
      BY <1>4, <2>2, FillFields
    <2>4. seg[q].revision < MaxRevision /\ text \in Texts
      BY <1>5, <2>1, <2>3, RowAssumption DEF Texts
    <2> QED BY <1>4, <2>2, <2>3, <2>4, FillType
  <1> HIDE DEF S, written
  <1>12. Advances(written, S)
    BY <1>2, <1>3, <1>6, <1>10, <1>11, <1>4 DEF Advances, Rows
  <1>13. \A c : Commit(c, written, S)
    <2>1. seg \in [Segments -> Rows]
      BY DEF IInv, TypeOK
    <2> QED BY <1>1, <1>2, <1>12, <2>1, StoreCommits
  <1>14. text # Blank
    BY <1>5, RowAssumption
  <1>15. TurboStep(s, text, S, written, row)
    BY <1>1, <1>2, <1>3, <1>4, <1>5, <1>10, <1>11, <1>12, <1>13, <1>14 DEF TurboStep
  <1> QED BY <1>2, <1>10, <1>15

LEMMA TurboIInv ==
  ASSUME NEW loose \in BOOLEAN, IInv(loose), NEW s \in Segments, NEW text \in Answers,
         TurboDraft(s, text)
  PROVE  IInv(loose)'
  <1>1. PICK S \in SUBSET Segments, row \in Rows : \E w : TurboStep(s, text, S, w, row)
    BY TurboWrites
  <1>2. PICK written : TurboStep(s, text, S, written, row)
    BY <1>1
  <1>3. /\ Commit(s, written, S) /\ Advances(written, S)
        /\ s \in S /\ written[s] = row
        /\ row.state = "confirmed" /\ row.target \in Targets /\ row.target # Blank
    BY <1>2, RowAssumption DEF TurboStep
  <1>4. /\ issues \in [Segments -> [Findings -> Statuses]] /\ issues[s] \in [Findings -> Statuses]
        /\ setting \in Settings /\ judged \in [Segments -> Settings]
    BY DEF IInv, TypeOK
  <1>5. /\ issues'[s] = RefreshSegment(issues[s], row, setting) /\ judged'[s] = setting
        /\ Unjudged({s})
        /\ issues' \in [Segments -> [Findings -> Statuses]] /\ judged' \in [Segments -> Settings]
    BY <1>2, <1>4, RefreshType DEF TurboStep, Unjudged
  <1>6. \A f \in SegmentFindings(row, setting) : issues'[s][f] \in {"open", "waived"}
    <2>1. SegmentFindings(row, setting) \subseteq Findings
      BY <1>3, <1>4, FindingsInRange
    <2> QED BY <1>4, <1>5, <2>1, RefreshType
  <1>7. \A q \in S \ {s} : written[q].state = "draft" /\ written[q].target # Blank
    BY <1>2 DEF TurboStep
  <1>8. Consistent(written, S, loose)
    BY <1>3, <1>5, <1>6, <1>7 DEF Consistent, InStep
  <1>9. tm' \in [Memories -> [Hashes -> Entries \cup {NoEntry}]]
    <2>1. /\ tm \in [Memories -> [Hashes -> Entries \cup {NoEntry}]]
          /\ working \in Memories
      BY <1>2 DEF IInv, TypeOK, TurboStep
    <2>2. row.source \in Sources /\ HashOf[row.source] \in Hashes
      BY RowAssumption DEF Rows
    <2>3. TmUpsert(tm[working][HashOf[row.source]], row.source, row.target)
            \in Entries
      <3>1. tm[working][HashOf[row.source]] \in Entries \cup {NoEntry}
        BY <2>1, <2>2
      <3> QED BY <1>3, <2>2, <3>1 DEF TmUpsert, Entries
    <2>4. tm' = [tm EXCEPT ![working][HashOf[row.source]] = TmUpsert(@, row.source, row.target)]
      BY <1>2 DEF TurboStep
    <2> QED BY <2>1, <2>2, <2>3, <2>4
  <1>10. UNCHANGED <<working, enabled, learned, setting>>
    BY <1>2 DEF TurboStep
  <1>11. OthersTyped
    BY <1>5, <1>9, <1>10 DEF IInv, TypeOK, OthersTyped
  <1>12. Unjudged(S)
    BY <1>3, <1>5 DEF Unjudged
  <1> QED BY <1>3, <1>8, <1>11, <1>12, CommitKeeps

LEMMA AiNextIInv ==
  ASSUME NEW loose \in BOOLEAN, Blank \in Answers => loose
  PROVE  IInv(loose) /\ [AiNext]_vars => IInv(loose)'
  <1> SUFFICES ASSUME IInv(loose), [AiNext]_vars PROVE IInv(loose)'
    OBVIOUS
  <1>1. CASE [QaNext]_vars
    BY <1>1, QaNextIInv
  <1>2. ASSUME NEW s \in Segments, NEW text \in Answers,
               AgentDraft(s, text) \/ HarnessWriteDraft(s, text)
        PROVE  IInv(loose)'
    <2> DEFINE row == Fill(seg[s], text, "aiDraft")
    <2>1. Store([q \in {s} |-> row], {s}) /\ UNCHANGED <<issues, tm, working, enabled, learned, setting, judged>>
      BY <1>2 DEF AgentDraft, HarnessWriteDraft
    <2>2. loose \/ text # Blank
      OBVIOUS
    <2> HIDE DEF row
    <2> QED BY <2>1, <2>2, DraftIInv DEF row
  <1>3. ASSUME NEW s \in Segments, NEW text \in Answers, AgentApply(s, text)
        PROVE  IInv(loose)'
    <2> DEFINE row == Fill(seg[s], text, "aiDraft")
    <2>1. /\ Store([q \in {s} |-> row], {s}) /\ UNCHANGED <<tm, working, enabled, learned, setting>>
          /\ issues' = [issues EXCEPT ![s] = RefreshSegment(@, row, setting)]
          /\ judged' = [judged EXCEPT ![s] = setting]
      BY <1>3 DEF AgentApply
    <2>2. loose \/ text # Blank
      OBVIOUS
    <2> HIDE DEF row
    <2> QED BY <2>1, <2>2, DraftIInv DEF row
  <1> QED BY <1>1, <1>2, <1>3, TurboIInv DEF AiNext

\* The invariant of the grid holds with the AI writers too, but for blank drafts.
THEOREM AiSafety == AiSpec => []IInv(TRUE)
  <1>1. Init => IInv(TRUE)
    BY InitIInv
  <1>2. IInv(TRUE) /\ [AiNext]_vars => IInv(TRUE)'
    BY AiNextIInv
  <1> QED BY <1>1, <1>2, PTL DEF AiSpec

\* A row is untranslated exactly when its target is blank, also with the AI
\* writers, as long as no model answers with a blank text: write_draft would store it.
THEOREM AiStateInStep ==
  ASSUME Blank \notin Answers
  PROVE  AiSpec => []StateMatchesTarget
  <1>1. Init => IInv(FALSE)
    BY InitIInv
  <1>2. IInv(FALSE) /\ [AiNext]_vars => IInv(FALSE)'
    BY AiNextIInv
  <1>3. IInv(FALSE) => StateMatchesTarget
    BY DEF IInv, RowsInStep, InStep, StateMatchesTarget
  <1> QED BY <1>1, <1>2, <1>3, PTL DEF AiSpec

\* With drafts landing at any moment an accepted base revision still names the
\* row a client is about to overwrite.
THEOREM AiRevisionGuards == AiSpec => []RevisionNamesContent
  <1>1. IInv(TRUE) => RevisionNamesContent
    BY DEF IInv, RevInv, RevisionNamesContent, BaseRevision
  <1> QED BY <1>1, AiSafety, PTL

\* Neither a draft nor turbo's confirm leaves a confirmed row with a finding that
\* is not on record.
THEOREM AiFindingsInStep == AiSpec => []ConfirmedFindingsOnRecord
  <1>1. IInv(TRUE) => ConfirmedFindingsOnRecord
    BY DEF IInv
  <1> QED BY <1>1, AiSafety, PTL

-----------------------------------------------------------------------------
(* What the AI writers do to the decisions of people.                       *)

LEMMA AiWaiverStep == IInv(TRUE) /\ AiNext => WaiverKept
  <1> SUFFICES ASSUME IInv(TRUE), AiNext PROVE WaiverKept
    OBVIOUS
  <1>1. CASE QaNext
    BY <1>1, WaiverStep
  <1>2. ASSUME NEW s \in Segments, NEW text \in Answers,
               AgentDraft(s, text) \/ HarnessWriteDraft(s, text)
        PROVE  WaiverKept
    <2>1. UNCHANGED issues
      BY <1>2 DEF AgentDraft, HarnessWriteDraft
    <2> QED BY <2>1 DEF WaiverKept
  <1>3. ASSUME NEW s \in Segments, NEW text \in Answers, AgentApply(s, text)
        PROVE  WaiverKept
    <2> DEFINE row == Fill(seg[s], text, "aiDraft")
               written == [q \in {s} |-> row]
    <2>1. /\ Store(written, {s}) /\ written[s] = row
          /\ issues' = [issues EXCEPT ![s] = RefreshSegment(@, row, setting)]
      BY <1>3 DEF AgentApply
    <2>2. row.revision <= MaxRevision
      BY <2>1 DEF Store
    <2>3. seg[s] \in Rows /\ row \in Rows /\ row.revision = seg[s].revision + 1
      BY <2>2, DraftType
    <2> HIDE DEF row, written
    <2>4. seg \in [Segments -> Rows] /\ Advances(written, {s})
      <3>1. seg \in [Segments -> Rows]
        BY DEF IInv, TypeOK
      <3>2. row.revision \in Int /\ seg[s].revision \in Int
        BY <2>3 DEF Rows
      <3>3. Advances(written, {s})
        BY <2>1, <2>3, <3>2 DEF Advances
      <3> QED BY <3>1, <3>3
    <2>5. Commit(s, written, {s})
      BY <2>1, <2>4, StoreCommits
    <2> QED BY <2>1, <2>3, <2>5, RefreshingCommit
  <1>4. ASSUME NEW s \in Segments, NEW text \in Answers, TurboDraft(s, text)
        PROVE  WaiverKept
    <2>1. PICK S \in SUBSET Segments, row \in Rows : \E w : TurboStep(s, text, S, w, row)
      BY <1>4, TurboWrites
    <2>2. PICK written : TurboStep(s, text, S, written, row)
      BY <2>1
    <2>3. /\ Commit(s, written, S) /\ s \in S /\ written[s] = row
          /\ issues' = [issues EXCEPT ![s] = RefreshSegment(@, row, setting)]
      BY <2>2 DEF TurboStep
    <2> QED BY <2>3, RefreshingCommit
  <1> QED BY <1>1, <1>2, <1>3, <1>4 DEF AiNext

\* What a user accepted stays accepted while the row shows it, also when an
\* approved draft or turbo's confirm refreshes the issues of the row.
THEOREM AiKeepsAccepted == AiSpec => WaiverHolds
  <1>1. IInv(TRUE) /\ [AiNext]_vars => [WaiverKept]_vars
    BY AiWaiverStep
  <1>2. AiSpec => [][WaiverKept]_vars
    BY <1>1, AiSafety, PTL DEF AiSpec
  <1> QED BY <1>2 DEF WaiverHolds, WaiverKept

-----------------------------------------------------------------------------
(* Who confirms a row, and which issues of a locked row move.               *)

NewlyConfirmed(s) == seg[s].state # "confirmed" /\ seg'[s].state = "confirmed"

\* No new text comes with a confirmed state.
LEMMA NewTextIsDraft ==
  ASSUME NEW row \in Rows, NEW text, NEW stamp, NEW kind
  PROVE  /\ Upsert(row, Retarget(row, text, stamp)).state # "confirmed"
         /\ Upsert(row, Fill(row, text, kind)).state # "confirmed"
  BY DEF Upsert, Retarget, Fill, Rows

LEMMA GridConfirms ==
  ASSUME NEW loose \in BOOLEAN, IInv(loose), Next
  PROVE  \A s \in Segments : NewlyConfirmed(s) =>
           \E c \in Clients, skip \in BOOLEAN : SegmentConfirm(c, s, skip)
  <1> SUFFICES ASSUME NEW s \in Segments, NewlyConfirmed(s)
               PROVE  \E c \in Clients, skip \in BOOLEAN : SegmentConfirm(c, s, skip)
    OBVIOUS
  <1>1. seg[s] \in Rows
    BY DEF IInv, TypeOK
  <1>2. seg'[s] # seg[s]
    BY DEF NewlyConfirmed
  <1>3. ASSUME NEW c \in Clients, NEW d \in Documents, TmPretranslate(c, d)
        PROVE  FALSE
    <2> DEFINE S == {q \in RowsOf(d) : Fillable(seg[q]) /\ Best(HashOf[seg[q].source]) # {}}
               Text(pick, q) == tm[pick[q][1]][pick[q][2]].target
               Kind(pick, q) == IF pick[q][2] = HashOf[seg[q].source] THEN "tmExact" ELSE "tmFuzzy"
    <2>1. \E pick : Commit(c, [q \in S |-> Fill(seg[q], Text(pick, q), Kind(pick, q))], S)
      BY <1>3 DEF TmPretranslate
    <2> HIDE DEF S, Text, Kind
    <2>2. PICK pick : Commit(c, [q \in S |-> Fill(seg[q], Text(pick, q), Kind(pick, q))], S)
      BY <2>1
    <2>3. seg'[s] = Upsert(seg[s], Fill(seg[s], Text(pick, s), Kind(pick, s)))
      BY <1>2, <2>2 DEF Commit
    <2> QED BY <1>1, <2>3, NewTextIsDraft DEF NewlyConfirmed
  <1>4. ASSUME NEW c \in Clients, NEW d \in Documents, NEW w \in Rewrites,
               NEW incl \in BOOLEAN, SegmentReplace(c, d, w, incl)
        PROVE  FALSE
    <2>1. \E text : seg'[s] = Upsert(seg[s], Retarget(seg[s], text, NoOrigin))
      BY <1>2, <1>4 DEF SegmentReplace, Commit
    <2> QED BY <1>1, <2>1, NewTextIsDraft DEF NewlyConfirmed
  <1>5. ASSUME NEW c \in Clients, NEW q \in Segments, NEW text \in Edits, NEW stamp \in Stamps,
               SegmentUpdate(c, q, text, stamp)
        PROVE  FALSE
    <2>1. seg'[s] = Upsert(seg[s], Retarget(seg[s], text, stamp))
      BY <1>2, <1>5 DEF SegmentUpdate, Commit
    <2> QED BY <1>1, <2>1, NewTextIsDraft DEF NewlyConfirmed
  <1>6. ASSUME NEW c \in Clients, NEW q \in Segments, NEW src \in SourceEdits,
               SegmentUpdateSource(c, q, src)
        PROVE  FALSE
    <2>1. seg'[s].state \in {seg[s].state, "draft"}
      BY <1>1, <1>2, <1>6 DEF SegmentUpdateSource, Commit, Upsert, Rows
    <2> QED BY <2>1 DEF NewlyConfirmed
  <1>7. ASSUME NEW c \in Clients, NEW q \in Segments, NEW locked \in BOOLEAN,
               SegmentLock(c, q, locked)
        PROVE  FALSE
    <2>1. seg'[s].state = seg[s].state
      BY <1>1, <1>2, <1>7 DEF SegmentLock, Commit, Upsert, Rows
    <2> QED BY <2>1 DEF NewlyConfirmed
  <1>8. ASSUME NEW c \in Clients, NEW q \in Segments, NEW skip \in BOOLEAN,
               SegmentConfirm(c, q, skip), q # s
        PROVE  FALSE
    <2>1. \E text : seg'[s] = Upsert(seg[s], Fill(seg[s], text, "tmExact"))
      BY <1>2, <1>8 DEF SegmentConfirm, Commit
    <2> QED BY <1>1, <2>1, NewTextIsDraft DEF NewlyConfirmed
  <1>9. ASSUME seg' = seg
        PROVE  FALSE
    BY <1>2, <1>9
  <1> QED BY <1>3, <1>4, <1>5, <1>6, <1>7, <1>8, <1>9
        DEF Next, SegmentList, MemoryUpdate, TmImport, TmUpdate, TmDelete, QaProfileUpdate

\* Turbo's gate looked at the draft; its confirm finds nothing more but that it is
\* an unedited AI draft.
LEMMA GateHolds ==
  ASSUME NEW old, NEW drafted \in Rows, NEW confirmed \in Rows,
         drafted.state = "draft", confirmed.origin = Fresh("aiDraft"),
         confirmed.target = drafted.target,
         "aiDraft" \notin ErrorRules,
         NEW k, NEW f \in Findings, f[1] \in ErrorRules
  PROVE  RefreshSegment(old, confirmed, k)[f] = RefreshSegment(old, drafted, k)[f]
  <1>1. TextFindings(confirmed, k) = TextFindings(drafted, k)
    BY DEF TextFindings
  <1>2. BehaviourFindings(drafted) = {}
    BY DEF BehaviourFindings
  <1>3. \A kind : Fresh(kind) = Fresh("aiDraft") => kind = "aiDraft"
    BY DEF Fresh
  <1>4. f \notin BehaviourFindings(confirmed)
    BY <1>3 DEF BehaviourFindings
  <1>5. f \in SegmentFindings(confirmed, k) <=> f \in SegmentFindings(drafted, k)
    BY <1>1, <1>2, <1>4 DEF SegmentFindings
  <1> QED BY <1>5 DEF RefreshSegment, Reconcile

\* What may happen to a row that turns confirmed.
CleanlyConfirmed ==
  \A s \in Segments :
    seg[s].state # "confirmed" /\ seg'[s].state = "confirmed" =>
      \/ \E c \in Clients, skip \in BOOLEAN : SegmentConfirm(c, s, skip)
      \/ \A f \in Findings : f[1] \in ErrorRules => issues'[s][f] # "open"

LEMMA TurboIsClean ==
  ASSUME "aiDraft" \notin ErrorRules, IInv(TRUE),
         NEW s \in Segments, NEW text \in Answers, TurboDraft(s, text)
  PROVE  CleanlyConfirmed
  <1>1. PICK S \in SUBSET Segments, row \in Rows : \E w : TurboStep(s, text, S, w, row)
    BY TurboWrites
  <1>2. PICK written : TurboStep(s, text, S, written, row)
    BY <1>1
  <1> DEFINE drafted == Fill(seg[s], text, "aiDraft")
             confirmed == [drafted EXCEPT !.state = "confirmed", !.revision = @ + 1]
  <1>3. /\ GateClear(s, drafted)
        /\ issues' = [issues EXCEPT ![s] = RefreshSegment(@, confirmed, setting)]
    BY DEF TurboDraft, IssuesAfterGate
  <1>4. /\ Commit(s, written, S) /\ Advances(written, S) /\ s \in S /\ written[s] = row
        /\ \A q \in S \ {s} : written[q].state = "draft"
        /\ row.origin = Fresh("aiDraft") /\ row.target = text
        /\ issues' = [issues EXCEPT ![s] = RefreshSegment(@, row, setting)]
    BY <1>2 DEF TurboStep
  <1>5. /\ seg[s] \in Rows /\ seg[s].revision < row.revision /\ row.revision <= MaxRevision
    BY <1>4, RowAssumption DEF IInv, TypeOK, Advances, Rows
  <1>6. drafted \in Rows /\ drafted.state = "draft" /\ drafted.target = text
    <2>1. text \in Texts /\ seg[s].revision < MaxRevision
      BY <1>5, AiAssumption, RowAssumption DEF Rows
    <2> QED BY <1>5, <2>1, FillType
  <1>7. issues[s] \in [Findings -> Statuses] /\ issues \in [Segments -> [Findings -> Statuses]]
    BY DEF IInv, TypeOK
  <1> HIDE DEF drafted, confirmed
  <1>8. ASSUME NEW f \in Findings, f[1] \in ErrorRules
        PROVE  issues'[s][f] # "open"
    <2>1. RefreshSegment(issues[s], drafted, setting)[f] # "open"
      BY <1>3, <1>8 DEF GateClear
    <2>2. RefreshSegment(issues[s], row, setting)[f] = RefreshSegment(issues[s], drafted, setting)[f]
      BY <1>4, <1>6, <1>8, GateHolds
    <2> QED BY <1>4, <1>7, <2>1, <2>2
  <1>9. ASSUME NEW q \in Segments, q # s, seg'[q].state = "confirmed"
        PROVE  seg[q].state = "confirmed"
    <2>1. CASE q \in S
      <3>1. seg[q] \in Rows /\ written[q] \in Rows /\ seg'[q] = Upsert(seg[q], written[q])
        BY <1>4, <2>1 DEF Commit, Advances, IInv, TypeOK
      <3> QED BY <1>4, <1>9, <2>1, <3>1, UpsertType
    <2>2. CASE q \notin S
      BY <1>4, <1>9, <2>2 DEF Commit
    <2> QED BY <2>1, <2>2
  <1> QED BY <1>8, <1>9 DEF CleanlyConfirmed

LEMMA ConfirmsStep ==
  ASSUME "aiDraft" \notin ErrorRules, IInv(TRUE), AiNext
  PROVE  CleanlyConfirmed
  <1>1. CASE Next
    BY <1>1, GridConfirms DEF CleanlyConfirmed, NewlyConfirmed
  <1>2. ASSUME seg' = seg
        PROVE  CleanlyConfirmed
    BY <1>2 DEF CleanlyConfirmed
  <1>3. ASSUME NEW s \in Segments,
               \A q \in Segments \ {s} : seg'[q] = seg[q],
               seg'[s].state # "confirmed"
        PROVE  CleanlyConfirmed
    BY <1>3 DEF CleanlyConfirmed
  <1>4. ASSUME NEW c \in Clients, NEW s \in Segments, NEW f \in Findings, QaFixApply(c, s, f)
        PROVE  CleanlyConfirmed
    <2> DEFINE text == Correct[f[1]][seg[s].target]
    <2>1. /\ seg'[s] = Upsert(seg[s], Retarget(seg[s], text, NoOrigin))
          /\ \A q \in Segments \ {s} : seg'[q] = seg[q]
      BY <1>4 DEF QaFixApply, Commit
    <2>2. seg[s] \in Rows
      BY DEF IInv, TypeOK
    <2> HIDE DEF text
    <2>3. seg'[s].state # "confirmed"
      BY <2>1, <2>2, NewTextIsDraft
    <2> QED BY <1>3, <2>1, <2>3
  <1>5. ASSUME NEW s \in Segments, NEW text \in Answers,
               AgentDraft(s, text) \/ AgentApply(s, text) \/ HarnessWriteDraft(s, text)
        PROVE  CleanlyConfirmed
    <2>1. /\ seg'[s] = Upsert(seg[s], Fill(seg[s], text, "aiDraft"))
          /\ \A q \in Segments \ {s} : seg'[q] = seg[q]
      BY <1>5 DEF AgentDraft, AgentApply, HarnessWriteDraft, Store
    <2>2. seg[s] \in Rows
      BY DEF IInv, TypeOK
    <2>3. seg'[s].state # "confirmed"
      BY <2>1, <2>2, NewTextIsDraft
    <2> QED BY <1>3, <2>1, <2>3
  <1> QED BY <1>1, <1>2, <1>4, <1>5, TurboIsClean
        DEF AiNext, QaNext, QaRun, QaWaive, DocumentExport

\* Turbo confirms no row with an open error, whatever the table said before its
\* gate and whatever the confirm finds on top; with the rule about unedited AI
\* drafts below an error, as it is by default.
THEOREM TurboIsSelective ==
  ASSUME "aiDraft" \notin ErrorRules
  PROVE  AiSpec => TurboConfirmsClean
  <1>1. IInv(TRUE) /\ [AiNext]_vars => [CleanlyConfirmed]_vars
    BY ConfirmsStep
  <1>2. AiSpec => [][CleanlyConfirmed]_vars
    BY <1>1, AiSafety, PTL DEF AiSpec
  <1> QED BY <1>2 DEF TurboConfirmsClean, CleanlyConfirmed

\* What may happen to the issues of a locked row.
LockedIssuesKept ==
  \A s \in Segments :
    seg[s].locked /\ issues'[s] # issues[s] =>
      \E selected \in Selections, waived \in BOOLEAN : QaWaive(selected, waived)

LEMMA LockedIssuesStep ==
  ASSUME IInv(TRUE), AiNext
  PROVE  LockedIssuesKept
  <1>1. issues \in [Segments -> [Findings -> Statuses]]
    BY DEF IInv, TypeOK
  <1>2. ASSUME UNCHANGED issues
        PROVE  LockedIssuesKept
    BY <1>2 DEF LockedIssuesKept
  <1>3. ASSUME NEW s \in Segments, ~seg[s].locked, NEW new, issues' = [issues EXCEPT ![s] = new]
        PROVE  LockedIssuesKept
    BY <1>1, <1>3 DEF LockedIssuesKept
  <1>4. ASSUME NEW c \in Clients, NEW s \in Segments, NEW skip \in BOOLEAN,
               SegmentConfirm(c, s, skip)
        PROVE  LockedIssuesKept
    <2>1. ~seg[s].locked /\ \E new : issues' = [issues EXCEPT ![s] = new]
      BY <1>4 DEF SegmentConfirm, Confirmable
    <2> QED BY <1>3, <2>1
  <1>5. ASSUME NEW c \in Clients, NEW s \in Segments, NEW f \in Findings, QaFixApply(c, s, f)
        PROVE  LockedIssuesKept
    <2>1. ~seg[s].locked /\ \E new : issues' = [issues EXCEPT ![s] = new]
      BY <1>5 DEF QaFixApply
    <2> QED BY <1>3, <2>1
  <1>6. ASSUME NEW s \in Segments, NEW text \in Answers,
               AgentApply(s, text) \/ TurboDraft(s, text)
        PROVE  LockedIssuesKept
    <2>1. ~seg[s].locked /\ \E new : issues' = [issues EXCEPT ![s] = new]
      BY <1>6 DEF AgentApply, TurboDraft, Draftable, Fillable
    <2> QED BY <1>3, <2>1
  <1>7. ASSUME NEW d \in Documents, QaRun(d)
        PROVE  LockedIssuesKept
    BY <1>1, <1>7, AfterRunType DEF QaRun, Evaluated, LockedIssuesKept
  <1>8. ASSUME NEW selected \in Selections, NEW waived \in BOOLEAN, QaWaive(selected, waived)
        PROVE  LockedIssuesKept
    BY <1>8 DEF LockedIssuesKept
  <1>9. CASE Next
    BY <1>2, <1>4, <1>9
       DEF Next, SegmentList, SegmentUpdate, SegmentUpdateSource, SegmentReplace, SegmentLock,
           TmPretranslate, MemoryUpdate, TmImport, TmUpdate, TmDelete, QaProfileUpdate
  <1> QED BY <1>2, <1>5, <1>6, <1>7, <1>8, <1>9
        DEF AiNext, QaNext, DocumentExport, AgentDraft, HarnessWriteDraft

\* Runs, refreshes, corrections and drafts leave the issues of a locked row as
\* they are; only a waiver reaches them.
THEOREM LockedIssuesStay == AiSpec => LockedIssuesUntouched
  <1>1. IInv(TRUE) /\ [AiNext]_vars => [LockedIssuesKept]_vars
    BY LockedIssuesStep
  <1>2. AiSpec => [][LockedIssuesKept]_vars
    BY <1>1, AiSafety, PTL DEF AiSpec
  <1> QED BY <1>2 DEF LockedIssuesUntouched, LockedIssuesKept

\* What an export that passed the gate saw.
GateSawAll ==
  \A d \in Documents : DocumentExport(d, FALSE) =>
    \A s \in Evaluated(d) : \A f \in SegmentFindings(seg[s], setting) :
      f[1] \in ErrorRules => issues'[s][f] = "waived"

LEMMA GateStep == IInv(TRUE) => GateSawAll
  <1> SUFFICES ASSUME IInv(TRUE), NEW d \in Documents, DocumentExport(d, FALSE),
                      NEW s \in Evaluated(d), NEW f \in SegmentFindings(seg[s], setting),
                      f[1] \in ErrorRules
               PROVE  issues'[s][f] = "waived"
    BY DEF GateSawAll
  <1>1. s \in RowsOf(d) /\ s \in Segments /\ seg[s] \in Rows /\ setting \in Settings
    BY DEF Evaluated, RowsOf, IInv, TypeOK
  <1>2. f \in Findings
    <2>1. CASE seg[s].target # Blank
      BY <1>1, <2>1, FindingsInRange
    <2>2. CASE seg[s].target = Blank
      <3>1. seg[s].state # "confirmed"
        BY <1>1, <2>2 DEF IInv, RowsInStep, InStep
      <3>2. f \in TextFindings(seg[s], setting)
        BY <3>1 DEF SegmentFindings, BehaviourFindings
      <3> QED BY <1>1, <3>2 DEF TextFindings, Findings, Rows
    <2> QED BY <2>1, <2>2
  <1>3. issues' = AfterRun(d) /\ Blocking(d, AfterRun(d)) = {}
    BY DEF DocumentExport, QaRun
  <1>4. AfterRun(d)[s][f] # "open"
    <2>1. <<s, f>> \in RowsOf(d) \X Findings
      BY <1>1, <1>2
    <2> QED BY <1>3, <2>1 DEF Blocking
  <1>5. AfterRun(d)[s] = Reconcile(issues[s], Found(Evaluated(d), s), AllRules)
    BY <1>1 DEF AfterRun
  <1>6. f \in Found(Evaluated(d), s)
    BY DEF Found
  <1> QED BY <1>2, <1>3, <1>4, <1>5, <1>6 DEF Reconcile

\* The export gate lets no error through that is on no record and that nobody
\* accepted, whatever was edited or drafted since the last run.
THEOREM GateIsTight == AiSpec => GateLetsNothingSlip
  <1>1. IInv(TRUE) /\ [AiNext]_vars => [GateSawAll]_vars
    BY GateStep
  <1>2. AiSpec => [][GateSawAll]_vars
    BY <1>1, AiSafety, PTL DEF AiSpec
  <1> QED BY <1>2 DEF GateLetsNothingSlip, GateSawAll
=============================================================================
