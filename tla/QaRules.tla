------------------------------ MODULE QaRules ------------------------------
(***************************************************************************)
(* What a QA pass finds in rows and how its findings are folded into the   *)
(* persisted issues.  A finding is a pair <<rule, evidence>>: the engine's *)
(* fingerprint hashes rule, segment and evidence, so within one segment    *)
(* the pair and the fingerprint identify the same issue.                   *)
(***************************************************************************)
EXTENDS SegmentRow

CONSTANTS
  Segments,     \* segment ids
  Settings,     \* QA profiles and attached termbases a project may have
  TextRules,    \* rules whose finding depends on the target text and the settings
  Evidence,     \* Evidence[k][r][text]: what rule r finds in text under k, or NoFinding
  NoFinding

ASSUME QaAssumption ==
  /\ DOMAIN Evidence = Settings
  /\ \A k \in Settings : /\ DOMAIN Evidence[k] = TextRules
                         /\ \A r \in TextRules : DOMAIN Evidence[k][r] = Texts

\* Cross-segment rules; their evidence is the set of the other rows involved.
ConsistencyRules == {"sameSourceDifferentTarget", "differentSourceSameTarget"}

\* Behavioural rules are named after the origin they look for.
BehaviourRules == {"tmFuzzy", "aiDraft"}

TextFindings(row, k) ==
  {<<r, Evidence[k][r][row.target]>> :
      r \in {q \in TextRules : Evidence[k][q][row.target] # NoFinding}}

\* A suggestion confirmed without a single edit.
BehaviourFindings(row) ==
  {<<kind, row.target>> :
      kind \in {k \in BehaviourRules : row.state = "confirmed" /\ row.origin = Fresh(k)}}

\* Everything the segment-scoped rules find in a row.
SegmentFindings(row, k) == TextFindings(row, k) \cup BehaviourFindings(row)

\* Rows of the evaluated set that the consistency rule sets against row s.
Related(rule, rows, evaluated, s) ==
  LET key(q) == IF rule = "sameSourceDifferentTarget"
                THEN HashOf[rows[q].source] ELSE rows[q].target
      other(q) == IF rule = "sameSourceDifferentTarget"
                  THEN rows[q].target ELSE HashOf[rows[q].source]
      group == {q \in evaluated : rows[q].target # Blank /\ key(q) = key(s)}
  IN IF s \in group /\ \E q \in group : other(q) # other(s)
     THEN group \ {s} ELSE {}

\* What the cross-segment pass over the evaluated rows finds for row s.
ConsistencyFindings(rows, evaluated, s) ==
  {<<r, Related(r, rows, evaluated, s)>> :
      r \in {q \in ConsistencyRules : Related(q, rows, evaluated, s) # {}}}

Findings ==
  {<<r, Evidence[k][r][t]>> : k \in Settings, r \in TextRules, t \in Texts}
    \cup BehaviourRules \X Targets
    \cup ConsistencyRules \X (SUBSET Segments \ {{}})

Statuses == {"none", "open", "waived", "resolved"}

\* Variant: a run reopens what was accepted.
ReconcileReopens(issues, found, evaluatedRules) ==
  [f \in Findings |->
     IF f \in found THEN "open"
     ELSE IF f[1] \in evaluatedRules /\ issues[f] \in {"open", "waived"}
          THEN "resolved" ELSE issues[f]]

\* Fold what a pass found into one segment's issues: an accepted finding stays
\* waived, any other is open, and an issue of an evaluated rule that was not
\* found again is resolved.
Reconcile(issues, found, evaluatedRules) ==
  [f \in Findings |->
     IF f \in found
     THEN IF issues[f] = "waived" THEN "waived" ELSE "open"
     ELSE IF f[1] \in evaluatedRules /\ issues[f] \in {"open", "waived"}
          THEN "resolved" ELSE issues[f]]

\* The refresh of one segment: only the segment-scoped rules run, so only their
\* issues may resolve.
RefreshSegment(issues, row, k) ==
  Reconcile(issues, SegmentFindings(row, k), TextRules \cup BehaviourRules)
===========================================================================
