------------------------------ MODULE AiDrafts ------------------------------
(***************************************************************************)
(* What the AI writers do to the rows of a project and their QA issues:    *)
(* the drafts of the batch agent (auto, turbo, and approved by hand) and   *)
(* the write_draft tool of the conversation harness, on top of the rows,   *)
(* issues and clients of QaIssues.  When a writer may act is the subject   *)
(* of AgentRuns and HarnessRuns; here one may act at any moment.           *)
(***************************************************************************)
EXTENDS QaIssues

CONSTANTS
  Answers,   \* texts a model may answer with
  Intact     \* Intact[src]: the texts whose placeholders agree with src

ASSUME AiAssumption ==
  /\ Answers \subseteq Texts
  /\ Intact \in [Sources -> SUBSET Texts]

\* A write of the engine's own: no client is answered.
Store(written, S) ==
  /\ \A s \in S : written[s].revision <= MaxRevision
  /\ seg' = [s \in Segments |-> IF s \in S THEN Upsert(seg[s], written[s]) ELSE seg[s]]
  /\ UNCHANGED view

-----------------------------------------------------------------------------
(* The batch agent *)

\* A draft lands in a row that is still untouched, and only when it is neither
\* blank nor breaks a placeholder.
Draftable(s, text) ==
  Fillable(seg[s]) /\ text \in Intact[seg[s].source] \ {Blank}

\* Auto: the draft is written.  Turbo ends here too when its gate is closed, the
\* confirm fails, or the engine dies between the two transactions.
AgentDraft(s, text) ==
  /\ Draftable(s, text)
  /\ Store([q \in {s} |-> Fill(seg[s], text, "aiDraft")], {s})
  /\ UNCHANGED <<issues, tm, working, enabled, learned, setting, judged>>

\* Manual: the approved proposal is written and its findings with it.
AgentApply(s, text) ==
  LET row == Fill(seg[s], text, "aiDraft")
  IN /\ Draftable(s, text)
     /\ Store([q \in {s} |-> row], {s})
     /\ issues' = [issues EXCEPT ![s] = RefreshSegment(@, row, setting)]
     /\ judged' = [judged EXCEPT ![s] = setting]
     /\ UNCHANGED <<tm, working, enabled, learned, setting>>

\* Variant: the gate reads the issues the table has.
GateClearStored(s, row) ==
  \A f \in Findings : f[1] \in ErrorRules => issues[s][f] # "open"

\* Turbo's gate: refreshed for the draft, the row has no open error.  The refresh
\* itself is not stored.
GateClear(s, row) ==
  \A f \in Findings : f[1] \in ErrorRules => RefreshSegment(issues[s], row, setting)[f] # "open"

\* Variant: the issues the gate computed are all there is.
IssuesAtGate(s, drafted, confirmed) == RefreshSegment(issues[s], drafted, setting)

\* The issues of a row confirmed through the gate.
IssuesAfterGate(s, drafted, confirmed) == RefreshSegment(issues[s], confirmed, setting)

\* Turbo, gate open: the draft goes through the confirm, which writes the working
\* memory and fills the duplicates.
TurboDraft(s, text) ==
  LET drafted   == Fill(seg[s], text, "aiDraft")
      confirmed == [drafted EXCEPT !.state = "confirmed", !.revision = @ + 1]
      dups      == Duplicates(s)
  IN /\ Draftable(s, text) /\ GateClear(s, drafted) /\ working # NoMemory
     /\ Store([q \in {s} \cup dups |->
                 IF q = s THEN confirmed ELSE Fill(seg[q], text, "tmExact")], {s} \cup dups)
     /\ tm' = [tm EXCEPT ![working][HashOf[seg[s].source]] =
                 TmUpsert(@, seg[s].source, text)]
     /\ issues' = [issues EXCEPT ![s] = IssuesAfterGate(s, drafted, confirmed)]
     /\ judged' = [judged EXCEPT ![s] = setting]
     /\ UNCHANGED <<working, enabled, learned, setting>>

-----------------------------------------------------------------------------
(* The harness *)

\* Variants: one guard of write_draft is missing.
WritableConfirmed(s, text) == ~seg[s].locked /\ text \in Intact[seg[s].source]
WritableUnchecked(s, text) == ~seg[s].locked /\ seg[s].state # "confirmed"

\* write_draft may overwrite a draft; that the text is not blank is not asked.
HarnessWritable(s, text) ==
  ~seg[s].locked /\ seg[s].state # "confirmed" /\ text \in Intact[seg[s].source]

\* The issues are refreshed and the result dropped.
HarnessWriteDraft(s, text) ==
  /\ HarnessWritable(s, text)
  /\ Store([q \in {s} |-> Fill(seg[s], text, "aiDraft")], {s})
  /\ UNCHANGED <<issues, tm, working, enabled, learned, setting, judged>>

-----------------------------------------------------------------------------
AiNext ==
  \/ QaNext
  \/ \E s \in Segments, text \in Answers :
       AgentDraft(s, text) \/ AgentApply(s, text) \/ TurboDraft(s, text)
         \/ HarnessWriteDraft(s, text)

AiSpec == Init /\ [][AiNext]_vars

-----------------------------------------------------------------------------
(* Properties *)

\* No writer rewrites a confirmed text on its own: it changes by the request of a
\* client, whatever the drafts in flight were computed from.
ConfirmedTextIsKept ==
  [][\A s \in Segments :
       seg[s].state = "confirmed" /\ seg'[s].target # seg[s].target =>
         \E c \in Clients :
           \/ \E text \in Edits, stamp \in Stamps : SegmentUpdate(c, s, text, stamp)
           \/ \E w \in Rewrites : SegmentReplace(c, DocOf[s], w, TRUE)
           \/ \E f \in Findings : QaFixApply(c, s, f)]_vars

\* An AI draft nobody edited never breaks the placeholders of its source: no
\* writer skips the check, and the source it was checked against stays.
AiDraftsAreIntact ==
  \A s \in Segments :
    seg[s].origin = Fresh("aiDraft") => seg[s].target \in Intact[seg[s].source]

\* A row that turns confirmed without a client confirming it has passed turbo's
\* gate: after the step none of its issues is an open error.
TurboConfirmsClean ==
  [][\A s \in Segments :
       seg[s].state # "confirmed" /\ seg'[s].state = "confirmed" =>
         \/ \E c \in Clients, skip \in BOOLEAN : SegmentConfirm(c, s, skip)
         \/ \A f \in Findings : f[1] \in ErrorRules => issues'[s][f] # "open"]_vars

\* "Segment-scoped QA refreshed in the same transaction": what the rules find in
\* a text write_draft wrote is on record once it is written.
HarnessDraftOnRecord ==
  [][\A s \in Segments : (\E text \in Answers : HarnessWriteDraft(s, text)) =>
       \A f \in SegmentFindings(seg'[s], setting) : issues'[s][f] \in {"open", "waived"}]_vars
=============================================================================
