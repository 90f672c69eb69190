---------------------------- MODULE MCWorkspace ----------------------------
(* A small workspace: two projects, one document, two entries and two terms. *)
EXTENDS Workspace

CONSTANTS p1, p2, d1, e1, e2, t1, t2, en_de, en_fr, hello, Hello, bye, hallo,
          term, Term, word, wort, Wort

MCHashOf == (hello :> 1) @@ (Hello :> 1) @@ (bye :> 2)
MCKeyOf  == (term :> 1) @@ (Term :> 1) @@ (word :> 2) @@ (wort :> 3) @@ (Wort :> 3)

\* What the earlier engine wrote: two entries of one key, and no memories.
MCLegacy ==
  [EmptyTables EXCEPT
     !.projects[p1] = [pair |-> en_de, archived |-> FALSE, gated |-> FALSE],
     !.documents[d1] = [project |-> p1, pair |-> en_de],
     !.tm = (e1 :> [memory |-> p1, source |-> hello, target |-> hallo])
              @@ (e2 :> [memory |-> p1, source |-> Hello, target |-> hallo]),
     !.terms[t1] = [source |-> term, translations |-> <<>>]]

MCTmFiles ==
  {<<[source |-> s, target |-> hallo]>> : s \in {hello, bye}}
    \cup {<<[source |-> hello, target |-> hallo], [source |-> Hello, target |-> hallo]>>}

MCTermFiles ==
  {<<[source |-> term, term |-> wort, forbidden |-> FALSE],
     [source |-> Term, term |-> Wort, forbidden |-> TRUE]>>}
=============================================================================
