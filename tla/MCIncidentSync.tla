--------------------------- MODULE MCIncidentSync ----------------------------
(* The Studio reports an Incident and acknowledges it; another session reports *)
(* one.                                                                        *)
EXTENDS IncidentSync, TLC

CONSTANTS i1, i2, k1, k2, e1, r1, c1, c2

MCIncidentOf == [k \in AnyKey |-> IF k = e1 THEN i2 ELSE i1]
MCOpOf == [k \in AnyKey |-> [kind |-> IF k = k2 THEN "acknowledge" ELSE "report"]]

\* The handlers of the page are interchangeable.
CallSymmetry == Permutations(Call)

\* Bound: a synchronization the user asks for, or a page that is opened again, with
\* or without a request that fails.
OneTrouble ==
  /\ failures + syncs + pages <= 3
  /\ syncs = 1 => failures = 0 /\ pages = 1
=============================================================================
