--------------------------- MODULE MCMemoryMounts ---------------------------
(* Small instances of MemoryMounts for TLC. *)
EXTENDS MemoryMounts, TLC

CONSTANTS p1, m1, m2, m3

MCOwnMemory == [p \in Projects |-> m1]

\* The memories the one project does not own are alike.
MCAlike == Permutations({m2, m3})
=============================================================================
