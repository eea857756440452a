---------------------------- MODULE RunbookTasks ----------------------------
(***************************************************************************)
(* The task state machine of an Event Day Runbook                          *)
(* (src/src/domain/event-day-runbook.ts).  The browser's command bus and   *)
(* the worker's sync handler run the same function, transitionRunbookTask, *)
(* on their own copy of the Runbook; this module is that function.         *)
(*                                                                         *)
(* A copy of a Runbook is a record                                         *)
(*   status : the status of each task                                      *)
(*   rev    : the revision of each task                                    *)
(*   seq    : the number of transitions applied (runbook.revision)         *)
(*   keys   : the idempotency keys that have a receipt                     *)
(* and a command is a record with the fields key, task, rev (the task      *)
(* revision the caller saw), to (the wanted status) and cseq (the client   *)
(* sequence).                                                              *)
(*                                                                         *)
(* Left out: evidence and reason codes.  The Studio attaches a reason to   *)
(* every skip and reopen and its preview refuses a completion without the  *)
(* declared evidence before anything is queued, so no command without them *)
(* ever exists.                                                            *)
(***************************************************************************)
EXTENDS Naturals

CONSTANTS Task,    \* the tasks of one Runbook Version
          Deps     \* the dependencies of each task

ASSUME DepsAssumption == Deps \in [Task -> SUBSET Task]

Status == {"pending", "in-progress", "blocked", "completed", "skipped"}

Terminal == {"completed", "skipped"}

\* The ordinary transition graph (TRANSITIONS).
Ordinary ==
  [s \in Status |->
     CASE s = "pending"     -> {"in-progress", "blocked", "skipped"}
       [] s = "in-progress" -> {"completed", "blocked"}
       [] s = "blocked"     -> {"in-progress", "skipped"}
       [] OTHER             -> {}]

\* Terminal work can be reopened by a reason-coded human operation.
Allowed(from, to) ==
  \/ to \in Ordinary[from]
  \/ from \in Terminal /\ to = "pending"

\* Readiness: every dependency is completed; a skipped one does not count.
Ready(rb, t) == \A d \in Deps[t] : rb.status[d] = "completed"

\* The checks of transitionRunbookTask, in its order.
Verdict(rb, cmd) ==
  CASE cmd.key \in rb.keys                                     -> "duplicate"
    [] cmd.key \notin rb.keys /\ rb.rev[cmd.task] # cmd.rev     -> "conflict"
    [] OTHER -> IF /\ Allowed(rb.status[cmd.task], cmd.to)
                   /\ cmd.to = "in-progress" => Ready(rb, cmd.task)
                THEN "ok"
                ELSE "rejected"

\* The Runbook transitionRunbookTask returns when the verdict is "ok".
After(rb, cmd) ==
  [status |-> [rb.status EXCEPT ![cmd.task] = cmd.to],
   rev    |-> [rb.rev EXCEPT ![cmd.task] = @ + 1],
   seq    |-> rb.seq + 1,
   keys   |-> rb.keys \cup {cmd.key}]

\* A frozen Runbook: createEventDayRunbook.
Frozen ==
  [status |-> [t \in Task |-> "pending"],
   rev    |-> [t \in Task |-> 0],
   seq    |-> 0,
   keys   |-> {}]
=============================================================================
