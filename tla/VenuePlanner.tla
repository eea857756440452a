---------------------------- MODULE VenuePlanner -----------------------------
(***************************************************************************)
(* The planner of one Project, src/src/domain/venue-planner.ts: accepted   *)
(* Plan and Event Brief, Proposal Branches, Locks, approval, undo and      *)
(* redo, and the Activity Ledger that must replay to what was accepted.    *)
(* People and agents (the Studio, WebMCP, MCP) give commands to one        *)
(* planner in any order; each command is one step.                         *)
(*                                                                         *)
(* A Plan is its minor version and the place of each object.  A Change     *)
(* puts one object somewhere, moves it or deletes it; its id is a          *)
(* fingerprint of what it does (editing-commands.ts), so a Change is its   *)
(* own id.  The undo and redo stacks are closures of the planner and not   *)
(* part of the snapshot.                                                   *)
(*                                                                         *)
(* Simplifications: a command that throws changes nothing and is no step,  *)
(* unless it throws after it changed something; Validation beyond what is  *)
(* below may always fail, which is a command that throws; branch names and *)
(* decisions, retained revisions, Proposal ids, waivers, comments,         *)
(* scenarios and command receipts are left out.                            *)
(***************************************************************************)
EXTENDS Naturals, Sequences, SequencesExt, Keep

CONSTANTS Object, Place, Absent,
          Start,        \* the places of the objects in the first Plan
          Change,       \* Changes that commands may bring in
          Seeds,        \* what the Proposal of a new Project may contain
          Brief,
          Lockable,     \* pairs of an object and a lock type
          None,         \* no Plan or no Brief in a ledger entry
          MaxVersion, MaxLedger, MaxBranches, MaxChanges, MaxEdits  \* bounds

Operation == {"place", "move", "delete"}
LockType  == {"position", "deletion"}
Places    == [Object -> Place \cup {Absent}]

ASSUME PlannerConstants ==
  /\ Absent \notin Place /\ Absent \notin Places
  /\ Start \in Places
  /\ Change \subseteq [op : Operation, object : Object, to : Place \cup {Absent}]
  /\ \A c \in Change : c.to = Absent <=> c.op = "delete"
  /\ Seeds \subseteq Seq(Change)
  /\ Brief # {} /\ None \notin Brief
  /\ None \notin [version : 0..MaxVersion, objects : Places]
  /\ Lockable \subseteq Object \X LockType
  /\ {MaxVersion, MaxLedger, MaxBranches, MaxChanges, MaxEdits} \subseteq Nat

VARIABLES
  plan,      \* the accepted Plan: version and objects
  brief,     \* the accepted Event Brief
  proposal,  \* the Proposal shown: base version, status, changes
  active,    \* activeBranchId
  branches,  \* Proposal and archived flag of each branch, by order of creation
  edits,     \* editHistory: Changes that undo takes out and redo puts back
  locks,     \* projectLocks: never set, active or released
  past,      \* undoStack
  future,    \* redoStack
  ledger     \* the ledger's entries that carry accepted truth

accepted   == <<plan, brief, ledger>>
history    == <<past, future>>
proposals  == <<proposal, active, branches>>
vars       == <<accepted, history, proposals, edits, locks>>

-----------------------------------------------------------------------------
(* Changes: materializeSpatialPlan and what stands in its way *)

\* The objects after a Change, or Absent for the error of a target that
\* exists already or is missing.
AfterChange(objects, c) ==
  IF objects = Absent \/ (c.op = "place" <=> objects[c.object] # Absent)
  THEN Absent ELSE [objects EXCEPT ![c.object] = c.to]
Materialized(objects, changes) ==
  LET after[i \in 0 .. Len(changes)] ==
        IF i = 0 THEN objects ELSE AfterChange(after[i - 1], changes[i])
  IN  after[Len(changes)]
Materializes(p, changes) == Materialized(p.objects, changes) # Absent

\* normalizeProjectLocks throws for every Lock, released ones included, whose
\* object is not in the Plan.
LocksBelong(p, lk) ==
  \A l \in Lockable : lk[l] # "never" => p.objects[l[1]] # Absent

\* detectLockConflicts looks at each Change by itself and at objects of the
\* Plan only.  A "place" has no effect with that object id, so it counts as a
\* mutation of every kind.
LockConflict(p, c, l) ==
  /\ c.object = l[1] /\ p.objects[l[1]] # Absent
  /\ \/ c.op = "place"
     \/ c.op = "delete" /\ l[2] = "deletion"
     \/ c.op = "move" /\ l[2] = "position" /\ c.to # p.objects[l[1]]
LocksAllow(p, changes, lk) ==
  /\ LocksBelong(p, lk)
  /\ \A c \in ToSet(changes), l \in Lockable :
       lk[l] = "active" => ~LockConflict(p, c, l)

\* validateVenueState throws rather than fails: it materializes the Changes of
\* the Proposal whatever its status.
Validates(p, q, lk) == Materializes(p, q.changes) /\ LocksBelong(p, lk)

Review(base, changes) == [base |-> base, status |-> "review", changes |-> changes]
Branch(q) == [proposal |-> q, archived |-> FALSE]

-----------------------------------------------------------------------------
(* State *)

InitProposal(seed) == Review(0, seed)
Init ==
  /\ plan = [version |-> 0, objects |-> Start]
  /\ brief \in Brief
  /\ \E seed \in Seeds : proposal = InitProposal(seed)
  /\ active = 1 /\ branches = <<Branch(proposal)>>
  /\ edits = [undo |-> <<>>, redo |-> <<>>]
  /\ locks = [l \in Lockable |-> "never"]
  /\ past = <<>> /\ future = <<>>
  /\ ledger = <<[type |-> "opened", plan |-> plan, brief |-> brief]>>

\* What replayActivityLedger and a restore take from the ledger.
PlanEntries   == {i \in DOMAIN ledger : ledger[i].plan # None}
Latest(I)     == CHOOSE i \in I : \A j \in I : j <= i
ReplayedPlan  == ledger[Latest(PlanEntries)].plan
ReplayedBrief == Last(ledger).brief
AcceptedPlan(version) ==       \* acceptedPlanForVersion: the latest one
  LET found == {i \in PlanEntries : ledger[i].plan.version = version}
  IN  IF found = {} THEN None ELSE ledger[Latest(found)].plan

\* syncActiveBranch: the Proposal shown and the active branch's are one.
SyncActive(q) ==
  /\ proposal' = q
  /\ branches' = [branches EXCEPT ![active].proposal = q]
  /\ UNCHANGED active
SetProposalUnseen(b, q) ==     \* Mutant: the Proposal shown is forgotten
  /\ branches' = [branches EXCEPT ![b].proposal = q]
  /\ UNCHANGED <<proposal, active>>
SetProposal(b, q) ==           \* the same for a branch named by a command
  /\ branches' = [branches EXCEPT ![b].proposal = q]
  /\ proposal' = IF b = active THEN q ELSE proposal
  /\ UNCHANGED active
AddBranch(q) ==                \* a new branch becomes the active one
  /\ Len(branches) < MaxBranches
  /\ branches' = Append(branches, Branch(q))
  /\ active' = Len(branches) + 1
  /\ proposal' = q
Show(b) == active' = b /\ proposal' = branches[b].proposal

Accept(type, p, b) ==
  /\ Len(ledger) < MaxLedger
  /\ plan' = p /\ brief' = b
  /\ ledger' = Append(ledger, [type |-> type, plan |-> p, brief |-> b])
ForgetEdits == edits' = [undo |-> <<>>, redo |-> <<>>]

-----------------------------------------------------------------------------
(* Commands on the Proposal shown *)

\* preview_revision takes the Proposal to the current version as it is.
PreviewRevision ==
  /\ LocksAllow(plan, proposal.changes, locks)
  /\ SyncActive(Review(plan.version, proposal.changes))
  /\ UNCHANGED <<accepted, history, edits, locks>>

\* request_adjustment does so without looking at the Locks.
RequestAdjustment ==
  /\ SyncActive(Review(plan.version, proposal.changes))
  /\ UNCHANGED <<accepted, history, edits, locks>>

\* apply_edit starts over when the Proposal is approved or stale.
ExistingChanges ==
  IF proposal.status = "review" /\ proposal.base = plan.version
  THEN proposal.changes ELSE <<>>
ApplyEdit(c) ==
  LET changes == Append(ExistingChanges, c) IN
  /\ Len(changes) <= MaxChanges /\ Len(edits.undo) < MaxEdits
  /\ Materializes(plan, changes)
  /\ LocksAllow(plan, changes, locks)
  /\ SyncActive(Review(plan.version, changes))
  /\ edits' = [undo |-> Append(edits.undo, c), redo |-> <<>>]
  /\ UNCHANGED <<accepted, history, locks>>

Without(changes, c) == Keep(changes, {i \in DOMAIN changes : changes[i] # c})
RevertChange(c) ==
  /\ proposal.status = "review" /\ c \in ToSet(proposal.changes)
  /\ SyncActive([proposal EXCEPT !.changes = Without(@, c)])
  /\ edits' = [edits EXCEPT !.undo = Without(@, c)]
  /\ UNCHANGED <<accepted, history, locks>>

\* update_event_brief is accepted at once and written to the ledger.
UpdateEventBrief(b) ==
  /\ Len(ledger) < MaxLedger
  /\ SyncActive(proposal)
  /\ brief' = b
  /\ ledger' = Append(ledger, [type |-> "brief", plan |-> None, brief |-> b])
  /\ UNCHANGED <<plan, history, edits, locks>>

-----------------------------------------------------------------------------
(* Commands on Proposal Branches *)

\* create_branch keeps the Changes whose number its strategy selects; numbers
\* are not positions once a Change has been reverted, so any may be kept.
Selections(changes) ==
  {Keep(changes, {i \in DOMAIN changes : changes[i] \in kept}) : kept \in SUBSET ToSet(changes)}
CreateBranch(selection) ==
  LET q == Review(plan.version, selection) IN
  /\ LocksAllow(plan, q.changes, locks)
  /\ AddBranch(q)
  /\ UNCHANGED <<accepted, history, edits, locks>>

\* preview_template_update proposes moves of objects of the Plan.
PreviewTemplateUpdate(c) ==
  /\ c.op = "move" /\ plan.objects[c.object] # Absent
  /\ LocksAllow(plan, <<c>>, locks)
  /\ AddBranch(Review(plan.version, <<c>>))
  /\ UNCHANGED <<accepted, history, edits, locks>>

\* duplicate_branch keeps the base version of its source.
DuplicateBranch(b) ==
  LET q == Review(branches[b].proposal.base, branches[b].proposal.changes) IN
  /\ LocksAllow(plan, q.changes, locks)
  /\ AddBranch(q)
  /\ UNCHANGED <<accepted, history, edits, locks>>

\* recover_unsynchronized_branch: a Proposal of another copy of this Project
\* becomes a branch that is not shown.
RecoverBranch(base, c) ==
  /\ Len(branches) < MaxBranches
  /\ branches' = Append(branches, Branch(Review(base, <<c>>)))
  /\ UNCHANGED <<accepted, history, proposal, active, edits, locks>>

\* archive_branch: the first other branch takes the place of the active one;
\* the last one stays.
Fallbacks(b) == {f \in DOMAIN branches : f # b /\ ~branches[f].archived}
First(S) == CHOOSE f \in S : \A g \in S : f <= g
ArchiveBranch(b) ==
  /\ ~branches[b].archived
  /\ branches' = [branches EXCEPT ![b].archived = TRUE]
  /\ IF b = active
     THEN Fallbacks(b) # {} /\ Show(First(Fallbacks(b)))
     ELSE UNCHANGED <<active, proposal>>
  /\ UNCHANGED <<accepted, history, edits, locks>>
RestoreBranch(b) ==
  /\ branches[b].archived
  /\ branches' = [branches EXCEPT ![b].archived = FALSE]
  /\ UNCHANGED <<accepted, history, proposal, active, edits, locks>>

\* record_branch_decision needs a branch to reject and may choose an archived
\* one; neither it nor switch_branch clears the edit history.
RecordBranchDecision(b) ==
  /\ Len(branches) > 1
  /\ Show(b)
  /\ UNCHANGED <<accepted, history, branches, edits, locks>>
SwitchBranch(b) ==
  /\ ~branches[b].archived
  /\ LocksAllow(plan, branches[b].proposal.changes, locks)
  /\ Show(b)
  /\ UNCHANGED <<accepted, history, branches, edits, locks>>

-----------------------------------------------------------------------------
(* Conflicts of a branch with the accepted Plan: detectProposalConflicts *)

Stale(q) == q.base # plan.version
\* Only a "place" adds its object; an earlier Change of the Proposal does not
\* count.
DeletedDependency(c) == c.op # "place" /\ plan.objects[c.object] = Absent
SameObjectEdit(q, c) ==
  LET base == AcceptedPlan(q.base) IN
  /\ Stale(q) /\ base # None
  /\ base.objects[c.object] # Absent
  /\ base.objects[c.object] # plan.objects[c.object]
  /\ ~(c.op = "move" /\ c.to = plan.objects[c.object])   \* already applied
  /\ ~DeletedDependency(c)
Conflict(q, c) ==
  \/ DeletedDependency(c)
  \/ SameObjectEdit(q, c)
  \/ \E l \in Lockable : locks[l] = "active" /\ LockConflict(plan, c, l)
\* The Changes whose objects are missing are left out of the candidate Plan.
Present(changes) == Keep(changes, {i \in DOMAIN changes : ~DeletedDependency(changes[i])})
Detects(q) == LocksBelong(plan, locks) /\ Materializes(plan, Present(q.changes))

Rebase(b) ==
  LET q == branches[b].proposal IN
  /\ Detects(q)
  /\ \A c \in ToSet(q.changes) : ~Conflict(q, c)
  /\ Stale(q)
  /\ Validates(plan, q, locks)
  /\ SetProposal(b, Review(plan.version, q.changes))
  /\ UNCHANGED <<accepted, history, edits, locks>>

\* resolve_conflict settles one conflict, of Change c, and brings the whole
\* Proposal to the current version.
KeepPlan(q, c) == {Without(q.changes, c)}
KeepProposal(q, c) == IF SameObjectEdit(q, c) THEN {q.changes} ELSE {}
Replaced(changes, c, d) ==
  LET i == First({j \in DOMAIN changes : changes[j] = c}) IN
  SubSeq(changes, 1, i - 1) \o <<d>> \o Without(SubSeq(changes, i + 1, Len(changes)), c)
ManualResolution(q, c) ==
  IF SameObjectEdit(q, c) \/ DeletedDependency(c)
  THEN {Replaced(q.changes, c, d) : d \in Change} ELSE {}
ResolveConflict(b, c) ==
  LET q == branches[b].proposal IN
  /\ c \in ToSet(q.changes)
  /\ Detects(q) /\ Conflict(q, c)
  /\ \E changes \in KeepPlan(q, c) \cup KeepProposal(q, c) \cup ManualResolution(q, c) :
       /\ LocksAllow(plan, changes, locks)
       /\ Materializes(plan, changes)
       /\ SetProposal(b, Review(plan.version, changes))
  /\ UNCHANGED <<accepted, history, edits, locks>>

-----------------------------------------------------------------------------
(* Locks *)

SetObjectLock(l) ==
  /\ plan.objects[l[1]] # Absent
  /\ locks[l] # "active"
  /\ LocksBelong(plan, locks)
  /\ locks' = [locks EXCEPT ![l] = "active"]
  /\ UNCHANGED <<accepted, history, proposals, edits>>
ReleaseObjectLock(l) ==
  /\ locks[l] = "active"
  /\ LocksBelong(plan, locks)
  /\ locks' = [locks EXCEPT ![l] = "released"]
  /\ UNCHANGED <<accepted, history, proposals, edits>>

-----------------------------------------------------------------------------
(* Approval, undo and redo *)

Now == [plan |-> plan, brief |-> brief]

\* approve_proposal does not look at the Proposal's status: a redone Proposal
\* can be approved again.
Approvable == plan.version < MaxVersion
                /\ proposal.changes # <<>> /\ proposal.base = plan.version
Approved == [version |-> plan.version + 1,
             objects |-> Materialized(plan.objects, proposal.changes)]
Commit ==
  /\ past' = Append(past, Now)
  /\ Accept("approved", Approved, brief)
  /\ SyncActive([proposal EXCEPT !.status = "approved"])
  /\ ForgetEdits
  /\ UNCHANGED locks

\* Mutant: the Locks are not looked at.
ApproveLocked ==
  Approvable /\ Validates(plan, proposal, locks) /\ Commit /\ future' = <<>>
\* Mutant: the Proposal is taken as validated when it was previewed.
ApproveUnvalidated ==
  Approvable /\ LocksAllow(plan, proposal.changes, locks) /\ Commit /\ future' = <<>>
\* Mutant: the redo stack outlives the approval.
ApproveKeepsFuture ==
  /\ Approvable
  /\ LocksAllow(plan, proposal.changes, locks) /\ Validates(plan, proposal, locks)
  /\ Commit /\ UNCHANGED future

Approve ==
  /\ Approvable
  /\ LocksAllow(plan, proposal.changes, locks)
  /\ Validates(plan, proposal, locks)
  /\ Commit
  /\ future' = <<>>

\* undo takes back the last edit when the Proposal shown contains it ...
EditToUndo == edits.undo # <<>> /\ proposal.status = "review"
                /\ Last(edits.undo) \in ToSet(proposal.changes)
UndoEdit ==
  /\ EditToUndo
  /\ SyncActive([proposal EXCEPT !.changes = Without(@, Last(edits.undo))])
  /\ edits' = [undo |-> Front(edits.undo), redo |-> Append(edits.redo, Last(edits.undo))]
  /\ UNCHANGED <<accepted, history, locks>>
\* Mutant: the ledger entry carries the Plan that was left.
UndoPlanRecordsLeft ==
  /\ ~EditToUndo /\ past # <<>> /\ Len(ledger) < MaxLedger
  /\ past' = Front(past) /\ future' = Append(future, Now)
  /\ plan' = Last(past).plan /\ brief' = Last(past).brief
  /\ ledger' = Append(ledger, [type |-> "undone", plan |-> plan, brief |-> brief])
  /\ SyncActive(Review(Last(past).plan.version, proposal.changes))
  /\ ForgetEdits
  /\ UNCHANGED locks

\* ... and the last approval otherwise.  The Proposal shown, whichever branch
\* it is of, is put in review at the version that comes back.
UndoPlan ==
  /\ ~EditToUndo /\ past # <<>>
  /\ past' = Front(past) /\ future' = Append(future, Now)
  /\ Accept("undone", Last(past).plan, Last(past).brief)
  /\ SyncActive(Review(Last(past).plan.version, proposal.changes))
  /\ ForgetEdits
  /\ UNCHANGED locks

EditToRedo == edits.redo # <<>> /\ proposal.status = "review"
RedoEdit ==
  LET changes == Append(proposal.changes, Last(edits.redo)) IN
  /\ EditToRedo /\ Len(changes) <= MaxChanges
  /\ LocksAllow(plan, changes, locks)
  /\ Materializes(plan, changes)
  /\ SyncActive([proposal EXCEPT !.changes = changes])
  /\ edits' = [undo |-> Append(edits.undo, Last(edits.redo)), redo |-> Front(edits.redo)]
  /\ UNCHANGED <<accepted, history, locks>>
\* The Proposal shown is validated as an approved one on the Plan that comes
\* back, after both stacks have been changed.
Redone == [proposal EXCEPT !.base = Last(future).plan.version, !.status = "approved"]
RedoPlan ==
  /\ ~EditToRedo /\ future # <<>>
  /\ future' = Front(future) /\ past' = Append(past, Now)
  /\ Validates(Last(future).plan, Redone, locks)
  /\ Accept("redone", Last(future).plan, Last(future).brief)
  /\ SyncActive(Redone)
  /\ ForgetEdits
  /\ UNCHANGED locks
\* When that throws, nothing is published, but the stacks stay changed.
RedoPlanThrows ==
  /\ ~EditToRedo /\ future # <<>>
  /\ future' = Front(future) /\ past' = Append(past, Now)
  /\ ~Validates(Last(future).plan, Redone, locks)
  /\ UNCHANGED <<accepted, proposals, edits, locks>>

-----------------------------------------------------------------------------
(* Opening the Project again: restore_snapshot of what was saved *)

Restorable ==
  /\ active \in DOMAIN branches
  /\ LocksBelong(plan, locks)
  /\ ReplayedPlan = plan /\ ReplayedBrief = brief
Reopen ==
  /\ Restorable
  /\ past' = <<>> /\ future' = <<>>
  /\ UNCHANGED <<accepted, proposals, edits, locks>>

Next ==
  \/ PreviewRevision \/ RequestAdjustment
  \/ \E c \in Change : ApplyEdit(c) \/ RevertChange(c)
  \/ \E b \in Brief : UpdateEventBrief(b)
  \/ \E selection \in Selections(proposal.changes) : CreateBranch(selection)
  \/ \E c \in Change : PreviewTemplateUpdate(c)
  \/ \E base \in 0..plan.version, c \in Change : RecoverBranch(base, c)
  \/ \E b \in DOMAIN branches :
       \/ DuplicateBranch(b) \/ ArchiveBranch(b) \/ RestoreBranch(b)
       \/ RecordBranchDecision(b) \/ SwitchBranch(b) \/ Rebase(b)
       \/ \E c \in Change : ResolveConflict(b, c)
  \/ \E l \in Lockable : SetObjectLock(l) \/ ReleaseObjectLock(l)
  \/ Approve \/ UndoEdit \/ UndoPlan \/ RedoEdit \/ RedoPlan \/ RedoPlanThrows
  \/ Reopen

Spec == Init /\ [][Next]_vars

-----------------------------------------------------------------------------
(* Properties *)

Plans      == [version : 0..MaxVersion, objects : Places]
IsProposal(q) ==
  /\ DOMAIN q = {"base", "status", "changes"}
  /\ q.base \in 0..MaxVersion /\ q.status \in {"review", "approved"}
  /\ q.changes \in Seq(Change)
Versions   == [plan : Plans, brief : Brief]

\* The planner's state has the shape its snapshot says; in particular every
\* accepted Plan is one that its Changes lead to, and activeBranchId names a
\* branch.
TypeOK ==
  /\ plan \in Plans /\ brief \in Brief
  /\ IsProposal(proposal)
  /\ active \in DOMAIN branches
  /\ \A b \in DOMAIN branches :
       IsProposal(branches[b].proposal) /\ branches[b].archived \in BOOLEAN
  /\ edits.undo \in Seq(Change) /\ edits.redo \in Seq(Change)
  /\ locks \in [Lockable -> {"never", "active", "released"}]
  /\ past \in Seq(Versions) /\ future \in Seq(Versions)
  /\ \A i \in DOMAIN ledger :
       ledger[i].plan \in Plans \cup {None} /\ ledger[i].brief \in Brief

\* The snapshot keeps the Proposal twice, as `proposal` and in the active
\* branch; whichever branch a command names, the two stay the same Proposal.
ActiveIsCurrent == proposal = branches[active].proposal

\* replayActivityLedger reproduces the accepted Plan and Event Brief at any
\* moment, through briefs updated between approvals, undo and redo; otherwise
\* restore_snapshot refuses what was saved.
LedgerReplays == ReplayedPlan = plan /\ ReplayedBrief = brief

\* No approval moves an object whose position is locked or removes one whose
\* deletion is locked, whatever became of Plan, Proposal and Locks since the
\* Proposal was made.
Approves == ledger' # ledger /\ Last(ledger').type = "approved"
LocksHold ==
  [][Approves =>
       \A l \in Lockable : locks[l] = "active" =>
         \/ plan'.objects[l[1]] = plan.objects[l[1]]
         \/ l[2] = "deletion" /\ plan'.objects[l[1]] # Absent
         \/ l[2] = "position" /\ plan'.objects[l[1]] = Absent]_vars

\* From the bottom of the undo stack over the present to the bottom of the
\* redo stack versions only ascend, and one version is one Plan: undo never
\* goes forward, redo never goes back or to a Plan of another history.
Timeline == past \o <<Now>> \o Reverse(future)
HistoryAscends ==
  \A i \in 1 .. Len(Timeline) - 1 :
    \/ Timeline[i].plan.version < Timeline[i + 1].plan.version
    \/ Timeline[i].plan = Timeline[i + 1].plan
=============================================================================
