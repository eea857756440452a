-------------------------- MODULE RecoveryEnvelope --------------------------
(***************************************************************************)
(* The browser's own copy of one Project: the recovery envelope of         *)
(* src/src/persistence/recovery-envelope.ts as project-store.ts uses it.   *)
(* Three localStorage items: the committed envelope, the autosave journal  *)
(* and the quarantine evidence.  One page uses them.  Its code runs to the *)
(* end of an operation without giving up the thread, so the faults are the *)
(* end of the process between two storage calls, which may tear the item   *)
(* being written, a call that throws (no quota), and bytes that change     *)
(* while the page is at rest.                                              *)
(***************************************************************************)
EXTENDS Naturals

CONSTANTS MaxWrites, MaxTears   \* bounds on the writes and on the torn items

ASSUME BoundsAssumption == MaxWrites \in Nat /\ MaxTears \in Nat

VARIABLES
    committed,  \* <prefix>project.<id>, the committed envelope
    journal,    \* <prefix>autosave.<id>
    evidence,   \* is there a quarantine record
    pc,         \* where the page's operation is
    after,      \* what a read is for: to serve a load, or a save to follow
    seen,       \* the envelope the operation selected when it inspected
    mine,       \* the envelope a write stores
    written,    \* records numbered so far
    served,     \* what the last load was given, Nothing or a number
    kept,       \* history: the last record stored whole in both places
    tears,      \* history: items torn since then
    hurt,       \* history: bytes changed since then
    owned       \* history: the page has had a copy that was not purged

envelopeVars == <<committed, journal, evidence, pc, after, seen, mine, written, served,
                  kept, tears, hurt, owned>>
history == <<kept, tears, hurt, owned>>

Nothing == 0

\* An item as inspectRecoveryEnvelope classifies it.  A checksum over sequence,
\* time and value tells a whole envelope from any other bytes.
Missing == [state |-> "missing", sequence |-> 0, value |-> Nothing]
Broken  == [state |-> "quarantined", sequence |-> 0, value |-> Nothing]
Envelope(n, v) == [state |-> "pass", sequence |-> n, value |-> v]
Whole(e) == e.state = "pass"

JournalWins == Whole(journal) /\ journal.sequence > committed.sequence

\* selectRecoveryEnvelope: the newest verified envelope.
Selected ==
  IF JournalWins THEN journal
  ELSE IF Whole(committed) THEN committed
  ELSE IF committed.state = "quarantined" THEN committed
  ELSE journal

Phase == {"idle", "inspect", "promote", "promoted", "quarantine", "condemned",
          "emptied", "read", "prior", "journal", "commit", "verify", "clean",
          "clear", "forget", "forgot", "forgotten"}

EnvelopeInit ==
  /\ committed = Missing /\ journal = Missing /\ evidence = FALSE
  /\ pc = "idle" /\ after = "serve" /\ seen = Missing /\ mine = Missing
  /\ written = 0 /\ served = Nothing
  /\ kept = Nothing /\ tears = 0 /\ hurt = FALSE /\ owned = FALSE

Items == <<committed, journal, evidence>>
Locals == <<after, seen, mine, written, served>>

Goto(from, to) == pc = from /\ pc' = to

-----------------------------------------------------------------------------
(* readLocal *)

\* store.load without the worker, and start; or the first thing save does.
BeginLoad == /\ Goto("idle", "inspect")
             /\ after' = "serve"
             /\ UNCHANGED <<Items, seen, mine, written, served, history>>

BeginSave == /\ Goto("idle", "inspect")
             /\ written < MaxWrites
             /\ after' = "save"
             /\ UNCHANGED <<Items, seen, mine, written, served, history>>

\* Mutant: the committed envelope is preferred whenever it is whole.
InspectCommittedFirst ==
  /\ pc = "inspect"
  /\ seen' = IF Whole(committed) THEN committed ELSE Selected
  /\ pc' = IF Whole(committed) THEN "read"
           ELSE IF JournalWins THEN "promote"
           ELSE IF Selected.state = "quarantined" THEN "quarantine" ELSE "read"
  /\ UNCHANGED <<Items, after, mine, written, served, history>>

Inspect ==
  /\ pc = "inspect"
  /\ seen' = Selected
  /\ pc' = IF JournalWins THEN "promote"
           ELSE IF Selected.state = "quarantined" THEN "quarantine" ELSE "read"
  /\ UNCHANGED <<Items, after, mine, written, served, history>>

\* A journal newer than the committed envelope becomes the committed one.
Promote ==
  /\ Goto("promote", "promoted")
  /\ committed' = seen
  /\ kept' = seen.value /\ tears' = 0 /\ hurt' = FALSE
  /\ UNCHANGED <<journal, evidence, Locals, owned>>

Promoted ==
  /\ Goto("promoted", "read")
  /\ journal' = Missing
  /\ UNCHANGED <<committed, evidence, Locals, history>>

\* Mutant: the items go, and nothing says that they were there.
QuarantineUnrecorded ==
  /\ Goto("quarantine", "condemned")
  /\ UNCHANGED <<Items, Locals, history>>

\* quarantineLocal: the evidence first, then the two items go.
Quarantine ==
  /\ Goto("quarantine", "condemned")
  /\ evidence' = TRUE
  /\ UNCHANGED <<committed, journal, Locals, history>>

Condemned ==
  /\ Goto("condemned", "emptied")
  /\ committed' = Missing
  /\ UNCHANGED <<journal, evidence, Locals, history>>

Emptied ==
  /\ Goto("emptied", "read")
  /\ journal' = Missing
  /\ UNCHANGED <<committed, evidence, Locals, history>>

\* What a load without the worker gives the page.  With no record and no
\* quarantine the page stores the Project it shows, as a new record.
ServeRead ==
  /\ pc = "read" /\ after = "serve"
  /\ served' = seen.value
  /\ IF Whole(seen) \/ Selected.state = "quarantined" \/ evidence
     THEN pc' = "idle" /\ UNCHANGED after
     ELSE written < MaxWrites /\ pc' = "inspect" /\ after' = "save"
  /\ UNCHANGED <<Items, seen, mine, written, history>>

SaveRead ==
  /\ Goto("read", "prior")
  /\ after = "save"
  /\ UNCHANGED <<Items, Locals, history>>

-----------------------------------------------------------------------------
(* writeLocal *)

\* A record loaded from the worker, or merged: writeLocal with no read before.
BeginCache ==
  /\ Goto("idle", "prior")
  /\ written < MaxWrites
  /\ UNCHANGED <<Items, Locals, history>>

Prior ==
  /\ Goto("prior", "journal")
  /\ written' = written + 1
  /\ mine' = Envelope(Selected.sequence + 1, written')
  /\ UNCHANGED <<Items, after, seen, served, history>>

\* Mutant: the committed envelope is overwritten with no journal beside it.
WriteNoJournal ==
  /\ Goto("journal", "commit")
  /\ owned' = TRUE
  /\ UNCHANGED <<Items, Locals, kept, tears, hurt>>

WriteJournal ==
  /\ Goto("journal", "commit")
  /\ journal' = mine
  /\ owned' = TRUE
  /\ UNCHANGED <<committed, evidence, Locals, kept, tears, hurt>>

Commit ==
  /\ Goto("commit", "verify")
  /\ committed' = mine
  /\ kept' = mine.value /\ tears' = 0 /\ hurt' = FALSE
  /\ UNCHANGED <<journal, evidence, Locals, owned>>

Verify ==
  /\ pc = "verify"
  /\ pc' = IF committed = mine THEN "clean" ELSE "idle"
  /\ UNCHANGED <<Items, Locals, history>>

Clean ==
  /\ Goto("clean", "clear")
  /\ journal' = Missing
  /\ UNCHANGED <<committed, evidence, Locals, history>>

Clear ==
  /\ Goto("clear", "idle")
  /\ evidence' = FALSE
  /\ UNCHANGED <<committed, journal, Locals, history>>

-----------------------------------------------------------------------------
(* purgeLocalProject, which removes the items in this order *)

BeginPurge ==
  /\ Goto("idle", "forget")
  /\ kept' = Nothing /\ owned' = FALSE
  /\ UNCHANGED <<Items, Locals, tears, hurt>>

Forget ==
  /\ Goto("forget", "forgot")
  /\ committed' = Missing
  /\ UNCHANGED <<journal, evidence, Locals, history>>

Forgot ==
  /\ Goto("forgot", "forgotten")
  /\ journal' = Missing
  /\ UNCHANGED <<committed, evidence, Locals, history>>

Forgotten ==
  /\ Goto("forgotten", "idle")
  /\ evidence' = FALSE
  /\ UNCHANGED <<committed, journal, Locals, history>>

-----------------------------------------------------------------------------
(* Faults *)

\* setItem throws: a promotion or a quarantine is given up and the read goes on
\* with what it has, a write is given up.
Throw ==
  /\ \/ pc \in {"promote", "quarantine"} /\ pc' = "read"
     \/ pc \in {"journal", "commit"} /\ pc' = "idle"
  /\ UNCHANGED <<Items, Locals, history>>

\* The page ends between two storage calls.
Crash ==
  /\ pc # "idle" /\ pc' = "idle"
  /\ UNCHANGED <<Items, Locals, history>>

\* It ends in a call that writes, and leaves the item in pieces.
Tear ==
  /\ tears < MaxTears
  /\ \/ pc = "journal" /\ journal' = Broken /\ UNCHANGED <<committed, evidence>>
     \/ pc \in {"promote", "commit"} /\ committed' = Broken /\ UNCHANGED <<journal, evidence>>
     \/ pc = "quarantine" /\ evidence' = FALSE /\ UNCHANGED <<committed, journal>>
  /\ pc' = "idle"
  /\ tears' = tears + 1
  /\ UNCHANGED <<Locals, kept, hurt, owned>>

\* The bytes of an item change while the page is at rest.
Damage ==
  /\ pc = "idle"
  /\ \/ committed # Missing /\ committed' = Broken /\ UNCHANGED journal
     \/ journal # Missing /\ journal' = Broken /\ UNCHANGED committed
  /\ hurt' = TRUE
  /\ UNCHANGED <<evidence, pc, Locals, kept, tears, owned>>

ReadLocal == \/ BeginLoad \/ BeginSave \/ Inspect \/ Promote \/ Promoted
             \/ Quarantine \/ Condemned \/ Emptied \/ ServeRead \/ SaveRead
Write == BeginCache \/ Prior \/ WriteJournal \/ Commit \/ Verify \/ Clean \/ Clear
PurgeLocal == BeginPurge \/ Forget \/ Forgot \/ Forgotten
Fault == Throw \/ Crash \/ Tear \/ Damage

EnvelopeNext == ReadLocal \/ Write \/ PurgeLocal \/ Fault

EnvelopeSpec == EnvelopeInit /\ [][EnvelopeNext]_envelopeVars

-----------------------------------------------------------------------------
(* Properties *)

\* The variables hold values of these sets: items, positions and numbers.
Item ==
  {e \in [state : {"missing", "quarantined", "pass"}, sequence : Nat, value : Nat] :
     /\ Whole(e) => e.sequence > 0 /\ e.value > 0
     /\ ~Whole(e) => e.sequence = 0 /\ e.value = Nothing}

EnvelopeTypeOK ==
  /\ committed \in Item /\ journal \in Item /\ seen \in Item /\ mine \in Item
  /\ evidence \in BOOLEAN /\ hurt \in BOOLEAN /\ owned \in BOOLEAN
  /\ pc \in Phase /\ after \in {"serve", "save"}
  /\ written \in Nat /\ served \in Nat /\ kept \in Nat /\ tears \in Nat

\* writeLocal and readLocal never hold the only good copy in the item they
\* overwrite: once a record was stored whole, a page that ends anywhere, even
\* in the middle of a storage call, finds it or a later one again.  The order
\* journal, committed envelope, removal of the journal is what this rests on.
Durable ==
  kept # Nothing /\ ~hurt /\ tears <= 1 => Whole(Selected) /\ Selected.value >= kept

\* A page that opens without the worker starts a new record in the place of one
\* it has had only when that one was purged: what was quarantined keeps
\* blocking it ("CACHE BLOCK"), over reloads and crashes of the quarantine.
NoReplacement == [][pc = "read" /\ pc' = "inspect" => ~owned]_envelopeVars

\* With all its steps, crashes and damaged bytes, the envelope is one record
\* that is replaced at once and read back as it is.
Copy == INSTANCE LocalCopy
          WITH copy <- Selected.value,
               before <- IF JournalWins THEN committed.value ELSE Nothing
ImplementsCopy == Copy!CopySpec
=============================================================================
