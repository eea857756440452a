--------------------------- MODULE ProjectRegister ---------------------------
(***************************************************************************)
(* What the worker promises of one Project record: a register with a       *)
(* version, replaced only by compare-and-swap.  The record is present when *)
(* its version is positive.  A write takes effect once and at one instant; *)
(* a writer is told that it was saved only when it was.                    *)
(***************************************************************************)
EXTENDS Naturals

CONSTANTS Writer,     \* the write requests
          NoWriter    \* the value of an absent record

VARIABLES version,       \* Project Record Revision, 0 when absent
          value,         \* the writer whose snapshot is stored
          effective,     \* writers whose snapshot was stored
          acknowledged   \* writers that were told so

registerVars == <<version, value, effective, acknowledged>>

RegisterInit ==
  /\ version = 0
  /\ value = NoWriter
  /\ effective = {}
  /\ acknowledged = {}

\* Creation, or replacement of the very version the writer names.
Swap(w, expected) ==
  /\ version = expected
  /\ w \notin effective
  /\ version' = expected + 1
  /\ value' = w
  /\ effective' = effective \cup {w}
  /\ UNCHANGED acknowledged

\* Deletion and recovery: a new version of the same snapshot.
Retag ==
  /\ version > 0
  /\ version' = version + 1
  /\ UNCHANGED <<value, effective, acknowledged>>

\* Purge: the record is gone, and may be created anew.
Drop ==
  /\ version > 0
  /\ version' = 0
  /\ value' = NoWriter
  /\ UNCHANGED <<effective, acknowledged>>

Acknowledge(w) ==
  /\ w \in effective
  /\ acknowledged' = acknowledged \cup {w}
  /\ UNCHANGED <<version, value, effective>>

RegisterNext ==
  \/ \E w \in Writer : (\E n \in 0..version : Swap(w, n)) \/ Acknowledge(w)
  \/ Retag
  \/ Drop

RegisterSpec == RegisterInit /\ [][RegisterNext]_registerVars
=============================================================================
