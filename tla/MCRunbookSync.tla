---------------------------- MODULE MCRunbookSync ----------------------------
(***************************************************************************)
(* Small instances of RunbookSync.                                         *)
(***************************************************************************)
EXTENDS RunbookSync

CONSTANTS t1, t2, d1

\* t2 can start when t1 is completed.
Chain == [t \in Task |-> IF t = t2 THEN {t1} ELSE {}]

\* Bounds of the devices.
One     == [d \in Device |-> 1]
OneOfD1 == [d \in Device |-> IF d = d1 THEN 1 ELSE 0]
TwoOfD1 == [d \in Device |-> IF d = d1 THEN 2 ELSE 1]

\* Either d1 is alone, with two commands, two synchronizations and a reload, or
\* both devices have a command and a synchronization, and the other one may have
\* a refused click, which moves its client sequence past that of d1.
AloneOrTogether ==
  \/ /\ \A d \in Device : blocked[d] = 0
     /\ \A d \in Device \ {d1} : issued[d] = {} /\ sync[d].pc = "idle" /\ SyncsOf(d) = 0
  \/ /\ Cardinality(issued[d1]) <= 1 /\ reloads[d1] = 0 /\ blocked[d1] = 0
     /\ SyncsOf(d1) <= 1 /\ (SyncsOf(d1) = 1 => sync[d1].pc # "created")
=============================================================================
