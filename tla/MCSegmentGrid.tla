--------------------------- MODULE MCSegmentGrid ---------------------------
(* Small instances of SegmentGrid for TLC. *)
EXTENDS SegmentGrid, TLC

CONSTANTS d1, d2, s1, s2, s3, src1, src2, h1, h2, t1, t2, m1, k1, e1

\* The two sources have a hash each.
MCHashOf == [src \in Sources |-> IF src = src2 THEN h2 ELSE h1]
MCDocOf == [s \in Segments |-> IF s = s3 THEN d2 ELSE d1]
MCEvidence == [k \in Settings |-> [r \in TextRules |->
                [t \in Texts |-> IF t = t1 THEN e1 ELSE NoFinding]]]
MCRewrites == {t1 :> t2, t2 :> Blank}
MCStamps == {NoOrigin, Fresh("tmExact"), Fresh("tmFuzzy")}
\* A file with one entry, and one edit that moves an entry to the other hash.
MCExchanged == {h2 :> [source |-> src2, target |-> t2]}
MCEntryEdits == {[source |-> src1, target |-> t1]}
MCRank == [m \in Memories |-> 0]
\* The sources differ in a number only: a fuzzy match can score like an exact one.
MCScore == [h \in Hashes |-> [g \in Hashes |-> 100]]
=============================================================================
