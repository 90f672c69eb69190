----------------------------- MODULE MCAgentRuns -----------------------------
(* Small instances of AgentRuns for TLC. *)
EXTENDS AgentRuns

CONSTANTS d1, d2, s1, s2, s3, src1, src2, h1, h2, t1, t2

MCHashOf == [src \in Sources |-> IF src = src1 THEN h1 ELSE h2]
MCDocOf == [s \in Segments |-> IF s = s3 THEN d2 ELSE d1]
=============================================================================
