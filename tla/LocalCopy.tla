------------------------------ MODULE LocalCopy ------------------------------
(***************************************************************************)
(* What the recovery envelope promises a page about its own copy of a      *)
(* Project: one record, replaced at once and read back as it is.  Bytes    *)
(* that change, and a crash in the middle of a write, take the copy away   *)
(* or bring back the record before a write that has not settled; they      *)
(* never yield anything else.                                              *)
(***************************************************************************)
EXTENDS Naturals

VARIABLES
    copy,    \* the record a page would read now: its number, or Nothing
    before,  \* the record an unsettled write may still fall back to
    served   \* what the last read returned

copyVars == <<copy, before, served>>

\* Records are numbered from 1 in the order of the calls that write them.
Nothing == 0

CopyInit == copy = Nothing /\ before = Nothing /\ served = Nothing

\* A write takes effect: the record is newer than any that was ever read.
Replace ==
  /\ copy' \in Nat
  /\ copy' > copy /\ copy' > before /\ copy' > served
  /\ before' \in {copy, before, Nothing}
  /\ UNCHANGED served

Settle == before' = Nothing /\ UNCHANGED <<copy, served>>

Lose ==
  /\ copy' \in {before, Nothing}
  /\ before' = Nothing
  /\ UNCHANGED served

Serve == served' = copy /\ UNCHANGED <<copy, before>>

CopyNext == Replace \/ Settle \/ Lose \/ Serve

CopySpec == CopyInit /\ [][CopyNext]_copyVars

=============================================================================
