--------------------------- MODULE IncidentLedger ---------------------------
(***************************************************************************)
(* What the worker promises of an Incident Register, whoever sends what    *)
(* and however often: commands take effect one at a time and once, each on *)
(* the register as it is and on the Incident its author saw                *)
(* (docs/event-day-incidents.md, "Operational loop").                      *)
(***************************************************************************)
EXTENDS IncidentRecord

CONSTANTS Key,          \* idempotency keys
          IncidentOf,   \* the Incident and the operation a key stands for
          OpOf

VARIABLE register

Init == register = Created

\* A command whose author saw the Incident as it is now.
Informed(k) ==
  [key |-> k, incident |-> IncidentOf[k], rev |-> register.incident[IncidentOf[k]].rev,
   op |-> OpOf[k]]

Execute(k) ==
  /\ RegisterVerdict(register, Informed(k)) = "ok"
  /\ register' = RegisterAfter(register, Informed(k))

Next == \E k \in Key : Execute(k)

Spec == Init /\ [][Next]_register
=============================================================================
