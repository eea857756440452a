---------------------------- MODULE MCProjectSync ----------------------------
(***************************************************************************)
(* Small instances of ProjectSync.                                         *)
(***************************************************************************)
EXTENDS ProjectSync, TLC

CONSTANTS b1, b2, t1, t2

Apart == (t1 :> b1) @@ (t2 :> b2)   \* a browser for each tab

\* Two troubles happen together at most: an event, a change elsewhere, a failure,
\* a choice, a page opened again.  Tabs are alike: the first one has them.
Again(t) == IF pages[t] > 1 THEN 1 ELSE 0
TwoTroubles ==
  /\ events[t2] = 0 /\ choices[t2] = 0 /\ pages[t2] <= 1
  /\ elsewhere + failures + events[t1] + choices[t1] + Again(t1) <= 2

\* Edits are alike: the same one is made first.
InOrder == made = {} \/ (CHOOSE e \in Edit : TRUE) \in made

\* Edits are alike.
Alike == Permutations(Edit)
=============================================================================
