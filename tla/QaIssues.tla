------------------------------ MODULE QaIssues ------------------------------
(***************************************************************************)
(* The QA issues of a project while its rows are edited: full runs over a  *)
(* document, human waivers, engine corrections and the export gate, on top *)
(* of the handlers of SegmentGrid, which refresh issues on confirm and     *)
(* otherwise leave them behind the texts until the next run.               *)
(***************************************************************************)
EXTENDS SegmentGrid

CONSTANTS
  ErrorRules,   \* rules of error severity
  Correct       \* Correct[r]: the mechanical corrections of rule r, a function
                \* from the targets it can correct

ASSUME CorrectAssumption ==
  /\ DOMAIN Correct = TextRules
  /\ \A r \in TextRules : /\ DOMAIN Correct[r] \subseteq Targets
                          /\ \A t \in DOMAIN Correct[r] : Correct[r][t] \in Texts \ {t}

AllRules == TextRules \cup BehaviourRules \cup ConsistencyRules

\* Variant: locked rows are evaluated like any other.
EvaluatedAll(d) == RowsOf(d)

\* The rows a run over document d evaluates; locked rows sit outside it.
Evaluated(d) == {s \in RowsOf(d) : ~seg[s].locked}

\* What a run over the rows of S finds in row s.
Found(S, s) == SegmentFindings(seg[s], setting) \cup ConsistencyFindings(seg, S, s)

\* The issues after a run: reconciled for the rows it evaluated.
AfterRun(d) ==
  [s \in Segments |->
     IF s \in Evaluated(d) THEN Reconcile(issues[s], Found(Evaluated(d), s), AllRules)
     ELSE issues[s]]

QaRun(d) ==
  /\ issues' = AfterRun(d)
  /\ judged' = [s \in Segments |-> IF s \in Evaluated(d) THEN setting ELSE judged[s]]
  /\ UNCHANGED <<seg, tm, working, enabled, view, learned, setting>>

\* A waiver selects one issue, the issues of a rule in a document, or those of
\* a segment.
Selections ==
  {{<<s, f>>} : s \in Segments, f \in Findings}
    \cup {{x \in RowsOf(d) \X Findings : x[2][1] = r} : d \in Documents, r \in AllRules}
    \cup {{s} \X Findings : s \in Segments}

\* The issues a call flips: it skips those already in the requested state, and
\* a resolved issue is neither waived nor restored.
Flipped(waived) == IF waived THEN {"open"} ELSE {"waived"}

QaWaive(selected, waived) ==
  LET flip == {x \in selected : issues[x[1]][x[2]] \in Flipped(waived)}
  IN /\ flip # {}
     /\ issues' = [s \in Segments |-> [f \in Findings |->
          IF <<s, f>> \in flip THEN IF waived THEN "waived" ELSE "open"
          ELSE issues[s][f]]]
     /\ UNCHANGED <<seg, tm, working, enabled, view, learned, setting, judged>>

\* The correction is recomputed from the current text and takes the guards of
\* an update.
QaFixApply(c, s, f) ==
  /\ issues[s][f] = "open"
  /\ BaseRevision(c, s)
  /\ ~seg[s].locked
  /\ f[1] \in TextRules /\ seg[s].target \in DOMAIN Correct[f[1]]
  /\ LET row == Retarget(seg[s], Correct[f[1]][seg[s].target], NoOrigin)
     IN /\ Commit(c, [q \in {s} |-> row], {s})
        /\ issues' = [issues EXCEPT ![s] = RefreshSegment(@, row, setting)]
        /\ judged' = [judged EXCEPT ![s] = setting]
  /\ UNCHANGED <<tm, working, enabled, learned, setting>>

\* Variant: the gate trusts the issues as they were before its run.
BlockingBefore(d, after) ==
  {x \in RowsOf(d) \X Findings : x[2][1] \in ErrorRules /\ issues[x[1]][x[2]] = "open"}

\* The issues that close the export gate of document d.
Blocking(d, after) ==
  {x \in RowsOf(d) \X Findings : x[2][1] \in ErrorRules /\ after[x[1]][x[2]] = "open"}

\* An export through the gate: the run is persisted whether or not the gate
\* opens; only the file depends on it.
DocumentExport(d, blocked) ==
  /\ QaRun(d)
  /\ blocked <=> Blocking(d, AfterRun(d)) # {}

QaNext ==
  \/ Next
  \/ \E d \in Documents : QaRun(d) \/ \E blocked \in BOOLEAN : DocumentExport(d, blocked)
  \/ \E selected \in Selections, waived \in BOOLEAN : QaWaive(selected, waived)
  \/ \E c \in Clients, s \in Segments, f \in Findings : QaFixApply(c, s, f)

QaSpec == Init /\ [][QaNext]_vars

-----------------------------------------------------------------------------
(* Properties *)

\* The human decision stands: while the row still shows the finding a user
\* accepted, no run, confirm or correction reopens or resolves the issue; only
\* the user does.
WaiverHolds ==
  [][\A s \in Segments, f \in Findings :
       /\ issues[s][f] = "waived" /\ issues'[s][f] # "waived"
       /\ f \in SegmentFindings(seg'[s], setting)
       => \E selected \in Selections : QaWaive(selected, FALSE)]_vars

\* "QA leaves the issues of a locked row untouched": only a waiver reaches them.
LockedIssuesUntouched ==
  [][\A s \in Segments :
       seg[s].locked /\ issues'[s] # issues[s] =>
         \E selected \in Selections, waived \in BOOLEAN : QaWaive(selected, waived)]_vars

\* The gate lets nothing through that nobody judged: in the exported document
\* every error the rules find in a row that is not locked has been accepted,
\* whatever was edited since the issues were last brought up to date.
GateLetsNothingSlip ==
  [][\A d \in Documents : DocumentExport(d, FALSE) =>
       \A s \in Evaluated(d) : \A f \in SegmentFindings(seg[s], setting) :
         f[1] \in ErrorRules => issues'[s][f] = "waived"]_vars
=============================================================================
