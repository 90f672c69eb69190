--------------------------- MODULE WorkingMemory ---------------------------
(***************************************************************************)
(* What the mounts of a project promise to the rest of the engine, without *)
(* saying how they are kept: confirm-time writes go to a working memory,   *)
(* which a request may appoint only while there is none, and no memory     *)
(* disappears while a project works in it.  A request may fail to reach    *)
(* the store, and a restart falls back to what did reach it.               *)
(***************************************************************************)
CONSTANTS
  Projects,
  Memories

VARIABLES
  working,   \* working[p]: the memories that confirms in p may be learned by
  kept,      \* kept[p]: what a restart makes of working[p]
  filled     \* the memories that hold entries

vars == <<working, kept, filled>>

TypeOK ==
  /\ working \in [Projects -> SUBSET Memories]
  /\ kept \in [Projects -> SUBSET Memories]
  /\ filled \in SUBSET Memories

Init ==
  /\ working = [p \in Projects |-> {}]
  /\ kept = [p \in Projects |-> {}]
  /\ filled = {}

\* The store takes over what project p says of the memories in "rows".
Written(p, rows) == kept' = [kept EXCEPT ![p] = (@ \ rows) \cup (working'[p] \cap rows)]

\* A request that changes memory m (or none: {}) writes at least that, or fails.
Persist(p, changed) ==
  \/ UNCHANGED kept
  \/ \E rows \in SUBSET Memories : changed \subseteq rows /\ Written(p, rows)

Promote(p, m) ==
  /\ working[p] = {}
  /\ working' = [working EXCEPT ![p] = {m}]
  /\ Persist(p, {m})
  /\ UNCHANGED filled

Demote(p, m) ==
  /\ m \in working[p]
  /\ working' = [working EXCEPT ![p] = @ \ {m}]
  /\ Persist(p, {m})
  /\ UNCHANGED filled

\* A request about anything else writes the roles along with the rows it changed.
Rewrite(p) ==
  /\ UNCHANGED <<working, filled>>
  /\ Persist(p, {})

Learn(p) ==
  /\ \E m \in working[p] : filled' = filled \cup {m}
  /\ UNCHANGED <<working, kept>>

Forget(m) ==
  /\ \A p \in Projects : m \notin working[p]
  /\ filled' = filled \ {m}
  /\ UNCHANGED <<working, kept>>

Restart ==
  /\ working' = kept
  /\ UNCHANGED <<kept, filled>>

Next ==
  \/ \E p \in Projects :
       \/ Rewrite(p) \/ Learn(p)
       \/ \E m \in Memories : Promote(p, m) \/ Demote(p, m)
  \/ \E m \in Memories : Forget(m)
  \/ Restart

Spec == Init /\ [][Next]_vars
=============================================================================
