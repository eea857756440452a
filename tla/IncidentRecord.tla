--------------------------- MODULE IncidentRecord ---------------------------
(***************************************************************************)
(* The commands of an Incident Register (src/src/domain/incidents.ts).     *)
(* The browser's command bus and the worker's sync handler run the same    *)
(* functions, each on its own copy of the register; this module is what    *)
(* these functions do to a copy.                                           *)
(*                                                                         *)
(* A register is its revision, the idempotency keys that have a receipt,   *)
(* and its Incidents.  A command is a record with the fields key,          *)
(* incident, rev (the Incident revision the caller saw) and op, a record   *)
(* with a kind and, where the command has one, an argument `arg`; a handoff *)
(* names the owner it takes the Incident from.                             *)
(*                                                                         *)
(* Left out: classification, location, reasons and evidence, which no      *)
(* decision reads (classify_incident and relocate_incident are "note"),    *)
(* the hash chain of the ledger, and a key that comes with another input,  *)
(* which no client of the repository sends.                                *)
(***************************************************************************)
EXTENDS Naturals

CONSTANTS Incident,    \* ids of Incidents
          Owner,       \* operational roles that can own one
          NoOwner,
          HasPlan      \* does the accepted Plan have an Emergency Plan?

ASSUME IncidentConstants == NoOwner \notin Owner /\ HasPlan \in BOOLEAN

\* INCIDENT_STATUSES; "none" is an Incident that was not reported.
IncidentStatus == {"none", "open", "mitigating", "resolved", "closed"}

\* The positions in INCIDENT_ESCALATION_LEVELS.
Level == 0 .. 3

Unreported == [rev |-> 0, status |-> "none", acked |-> FALSE, owner |-> NoOwner, level |-> 0]
Reported   == [rev |-> 1, status |-> "open", acked |-> FALSE, owner |-> NoOwner, level |-> 0]

\* createIncidentRegister
Created == [rev |-> 0, keys |-> {}, incident |-> [i \in Incident |-> Unreported]]

\* STATUS_TRANSITIONS
Transitions ==
  [s \in IncidentStatus |-> CASE s = "open"       -> {"mitigating", "resolved"}
                      [] s = "mitigating" -> {"resolved"}
                      [] s = "resolved"   -> {"closed", "open"}
                      [] s = "closed"     -> {"open"}
                      [] s = "none"       -> {}]

Active == {"open", "mitigating"}

\* The conditions of the functions passed to mutateIncident.
Accepts(in, op) ==
  CASE op.kind = "status" ->
         /\ op.arg \in Transitions[in.status]
         /\ op.arg = "resolved" => in.acked /\ in.owner # NoOwner
    [] op.kind = "handoff"     -> in.status \in Active /\ in.owner = op.from /\ op.from # op.arg
    [] op.kind = "emergency"   -> in.status \in Active /\ HasPlan
    [] op.kind = "acknowledge" -> in.status # "closed" /\ ~in.acked
    [] op.kind = "escalate"    -> in.status # "closed" /\ op.arg > in.level
    [] op.kind \in {"owner", "note"} -> in.status # "closed"

\* What these functions assign.
Mutated(in, op) ==
  CASE op.kind = "status"               -> [in EXCEPT !.rev = @ + 1, !.status = op.arg]
    [] op.kind \in {"owner", "handoff"} -> [in EXCEPT !.rev = @ + 1, !.owner = op.arg]
    [] op.kind = "acknowledge"          -> [in EXCEPT !.rev = @ + 1, !.acked = TRUE]
    [] op.kind = "escalate"             -> [in EXCEPT !.rev = @ + 1, !.level = op.arg]
    [] op.kind \in {"emergency", "note"} -> [in EXCEPT !.rev = @ + 1]

\* The checks of reportIncident and mutateIncident, in their order, and how the
\* worker's handler names their errors.
RegisterVerdict(reg, cmd) ==
  LET in == reg.incident[cmd.incident]
  IN  IF cmd.key \in reg.keys THEN "duplicate"
      ELSE IF cmd.op.kind = "report" THEN IF in.status = "none" THEN "ok" ELSE "rejected"
      ELSE IF in.status = "none" THEN "rejected"
      ELSE IF in.rev # cmd.rev THEN "conflict"
      ELSE IF Accepts(in, cmd.op) THEN "ok" ELSE "rejected"

\* The register a command returns when its verdict is "ok".
RegisterAfter(reg, cmd) ==
  [rev      |-> reg.rev + 1,
   keys     |-> reg.keys \cup {cmd.key},
   incident |-> [reg.incident EXCEPT ![cmd.incident] =
                   IF cmd.op.kind = "report" THEN Reported ELSE Mutated(@, cmd.op)]]
=============================================================================
