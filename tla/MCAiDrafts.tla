----------------------------- MODULE MCAiDrafts -----------------------------
(* Small instances of AiDrafts for TLC. *)
EXTENDS AiDrafts, TLC

CONSTANTS d1, s1, s2, src1, h1, t1, t2, m1, k1, k2, e1

MCHashOf == [src \in Sources |-> h1]
MCDocOf == [s \in Segments |-> d1]
\* One setting finds the evidence in t1, the other in t2; t1 is corrected to t2.
MCEvidence == [k \in Settings |-> [r \in TextRules |->
                [t \in Texts |-> IF t = (IF k = k1 THEN t1 ELSE t2) THEN e1 ELSE NoFinding]]]
MCCorrect == [r \in TextRules |-> t1 :> t2]
\* t2 lacks a placeholder of the source.
MCTagged == [src \in Sources |-> {t1}]
MCStamps == {NoOrigin}
MCAlike == Permutations({s1, s2})
\* What pretranslation reads is the subject of MCSegmentGrid.
MCMountsRead == enabled = Memories
\* No guard and no property of this run reads the history of vouchers.
MCView == <<seg, issues, tm, working, enabled, view, setting, judged>>
MCRank == [m \in Memories |-> 0]
MCScore == [h \in Hashes |-> [g \in Hashes |-> 100]]
=============================================================================
