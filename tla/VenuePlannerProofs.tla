--------------------------- MODULE VenuePlannerProofs --------------------------
(***************************************************************************)
(* Proofs about VenuePlanner, for any objects, places, Changes and Locks   *)
(* and any number of versions, branches and edits: its types, that the     *)
(* Proposal shown is the active branch's, that no approval goes through a  *)
(* Lock, that the ledger replays, and that history ascends.                *)
(***************************************************************************)
EXTENDS VenuePlanner, KeepTheorems

Status     == {"review", "approved"}
Proposals  == [base : 0..MaxVersion, status : Status, changes : Seq(Change)]
BranchType == [proposal : Proposals, archived : BOOLEAN]
EntryType  == [type : {"opened", "approved", "brief", "undone", "redone"},
               plan : Plans \cup {None}, brief : Brief]

\* The Proposal shown and the branches, the accepted truth and its history, the
\* edits and the Locks: their types, and that what is shown is the active branch's.
Shown ==
  /\ proposal \in Proposals /\ branches \in Seq(BranchType)
  /\ active \in 1 .. Len(branches) /\ ActiveIsCurrent
Truth     == plan \in Plans /\ brief \in Brief /\ ledger \in Seq(EntryType)
Stacks    == past \in Seq(Versions) /\ future \in Seq(Versions)
EditTypes == edits \in [undo : Seq(Change), redo : Seq(Change)]
LockTypes == locks \in [Lockable -> {"never", "active", "released"}]
Types     == Shown /\ Truth /\ Stacks /\ EditTypes /\ LockTypes

-----------------------------------------------------------------------------
(* Changes and sequences of them                                           *)

LEMMA ChangeFacts ==
  ASSUME NEW c \in Change
  PROVE  /\ c.op \in Operation /\ c.object \in Object /\ c.to \in Place \cup {Absent}
         /\ c.to = Absent <=> c.op = "delete"
  BY PlannerConstants

LEMMA AfterChangeType ==
  ASSUME NEW objects \in Places \cup {Absent}, NEW c \in Change
  PROVE  AfterChange(objects, c) \in Places \cup {Absent}
<1>1. c.object \in Object /\ c.to \in Place \cup {Absent}
  BY ChangeFacts
<1>2. CASE objects = Absent
  BY <1>2 DEF AfterChange
<1>3. CASE objects \in Places
  BY <1>1, <1>3 DEF AfterChange, Places
<1> QED
  BY <1>2, <1>3

\* One step of the recursion, and what the recursion asks of its function.
ChangeStep(f, objects, changes, i) ==
  IF i = 0 THEN objects ELSE AfterChange(f[i - 1], changes[i])
IsChanged(f, objects, changes, n) == f = [i \in 0 .. n |-> ChangeStep(f, objects, changes, i)]

\* The recursion defines a function.
LEMMA ChangedExists ==
  ASSUME NEW objects, NEW changes, NEW n \in Nat
  PROVE  \E f : IsChanged(f, objects, changes, n)
<1> DEFINE S == {m \in Nat : \E f : IsChanged(f, objects, changes, m)}
<1>1. 0 \in S
  <2> DEFINE f == [i \in 0 .. 0 |-> objects]
  <2>1. IsChanged(f, objects, changes, 0)
    BY DEF IsChanged, ChangeStep
  <2> HIDE DEF f
  <2> QED
    BY <2>1
<1>2. ASSUME NEW m \in Nat, m \in S PROVE m + 1 \in S
  <2>1. PICK f : IsChanged(f, objects, changes, m)
    BY <1>2
  <2> DEFINE g == [i \in 0 .. m + 1 |-> IF i <= m THEN f[i] ELSE ChangeStep(f, objects, changes, i)]
  <2>2. \A i \in 0 .. m + 1 : i # 0 => i - 1 \in 0 .. m /\ g[i - 1] = f[i - 1]
    OBVIOUS
  <2>3. \A i \in 0 .. m + 1 : ChangeStep(g, objects, changes, i) = ChangeStep(f, objects, changes, i)
    BY <2>2 DEF ChangeStep
  <2>4. \A i \in 0 .. m : f[i] = ChangeStep(f, objects, changes, i)
    BY <2>1 DEF IsChanged
  <2>5. IsChanged(g, objects, changes, m + 1)
    BY <2>3, <2>4 DEF IsChanged
  <2> HIDE DEF g
  <2> QED
    BY <2>5
<1> HIDE DEF S
<1>3. n \in S
  BY <1>1, <1>2, Induction
<1> QED
  BY <1>3 DEF S

\* The objects after each of the Changes.
LEMMA ChangedParts ==
  ASSUME NEW objects, NEW changes, Len(changes) \in Nat
  PROVE  \E f : /\ f[0] = objects /\ f[Len(changes)] = Materialized(objects, changes)
                /\ \A i \in 1 .. Len(changes) : f[i] = AfterChange(f[i - 1], changes[i])
<1> DEFINE f == CHOOSE f : IsChanged(f, objects, changes, Len(changes))
<1>1. IsChanged(f, objects, changes, Len(changes))
  <2>1. \E g : IsChanged(g, objects, changes, Len(changes))
    BY ChangedExists
  <2> QED
    BY <2>1
<1>2. Materialized(objects, changes) = f[Len(changes)]
  BY DEF Materialized, IsChanged, ChangeStep
<1> HIDE DEF f
<1>3. \A i \in 0 .. Len(changes) : f[i] = ChangeStep(f, objects, changes, i)
  BY <1>1 DEF IsChanged
<1>4. f[0] = objects
  BY <1>3 DEF ChangeStep
<1>5. \A i \in 1 .. Len(changes) : f[i] = AfterChange(f[i - 1], changes[i])
  BY <1>3 DEF ChangeStep
<1> QED
  BY <1>2, <1>4, <1>5, Zenon

\* Changes lead to places of the objects, or to an error.
LEMMA MaterializedType ==
  ASSUME NEW objects \in Places, NEW changes \in Seq(Change)
  PROVE  Materialized(objects, changes) \in Places \cup {Absent}
<1>n. Len(changes) \in Nat /\ \A i \in 1 .. Len(changes) : changes[i] \in Change
  OBVIOUS
<1>1. PICK f : /\ f[0] = objects /\ f[Len(changes)] = Materialized(objects, changes)
               /\ \A i \in 1 .. Len(changes) : f[i] = AfterChange(f[i - 1], changes[i])
  BY ChangedParts, <1>n
<1> DEFINE S == {i \in 0 .. Len(changes) : f[i] \in Places \cup {Absent}}
<1>2. 0 \in S
  BY <1>1, <1>n
<1>3. ASSUME NEW i \in 1 .. Len(changes), i - 1 \in S PROVE i \in S
  <2>1. f[i - 1] \in Places \cup {Absent} /\ changes[i] \in Change /\ i \in 0 .. Len(changes)
    BY <1>3, <1>n
  <2> QED
    BY <1>1, <2>1, AfterChangeType
<1> HIDE DEF S
<1>4. 0 .. Len(changes) \subseteq S
  BY <1>2, <1>3, <1>n, InductionUpTo
<1> QED
  BY <1>1, <1>4, <1>n DEF S

\* What a Lock forbids each Change by itself, no sequence of them does either:
\* the object that is kept in place is there or deleted, and the one that is
\* kept from deletion is somewhere.
LEMMA MaterializedLocked ==
  ASSUME NEW p \in Plans, NEW changes \in Seq(Change), NEW l \in Lockable, p.objects[l[1]] # Absent,
         \A c \in ToSet(changes) : ~LockConflict(p, c, l), Materializes(p, changes)
  PROVE  LET after == Materialized(p.objects, changes)[l[1]]
         IN  \/ after = p.objects[l[1]]
             \/ l[2] = "deletion" /\ after # Absent
             \/ l[2] = "position" /\ after = Absent
<1> DEFINE o == l[1]
           here == p.objects[o]
           Fine(objects) ==
             objects # Absent =>
               \/ objects[o] = here
               \/ l[2] = "deletion" /\ objects[o] # Absent
               \/ l[2] = "position" /\ objects[o] = Absent
<1>n. /\ Len(changes) \in Nat /\ \A i \in 1 .. Len(changes) : changes[i] \in Change
      /\ p.objects \in Places /\ o \in Object /\ l[2] \in LockType
  BY PlannerConstants DEF Plans
<1>1. PICK f : /\ f[0] = p.objects /\ f[Len(changes)] = Materialized(p.objects, changes)
               /\ \A i \in 1 .. Len(changes) : f[i] = AfterChange(f[i - 1], changes[i])
  <2> DEFINE start == p.objects
  <2>1. Len(changes) \in Nat
    BY <1>n
  <2> HIDE DEF start
  <2>2. \E f : /\ f[0] = start /\ f[Len(changes)] = Materialized(start, changes)
               /\ \A i \in 1 .. Len(changes) : f[i] = AfterChange(f[i - 1], changes[i])
    BY <2>1, ChangedParts
  <2> QED
    BY <2>2 DEF start
<1> DEFINE S == {i \in 0 .. Len(changes) : f[i] \in Places \cup {Absent} /\ Fine(f[i])}
<1>2. 0 \in S
  <2>1. f[0][o] = here /\ f[0] \in Places
    BY <1>1, <1>n
  <2>2. Fine(f[0])
    BY <2>1
  <2> HIDE DEF Fine
  <2> QED
    BY <1>n, <2>1, <2>2
<1>3. ASSUME NEW i \in 1 .. Len(changes), i - 1 \in S PROVE i \in S
  <2> DEFINE c == changes[i]
             objects == f[i - 1]
  <2>1. /\ objects \in Places \cup {Absent} /\ Fine(objects) /\ i \in 0 .. Len(changes)
        /\ c \in Change /\ ~LockConflict(p, c, l) /\ f[i] = AfterChange(objects, c)
    BY <1>1, <1>3, <1>n DEF ToSet
  <2>2. c.op \in Operation /\ c.object \in Object /\ c.to \in Place \cup {Absent}
        /\ (c.to = Absent <=> c.op = "delete")
    BY <2>1, ChangeFacts
  <2> HIDE DEF Fine, S, objects, c
  <2>3. f[i] \in Places \cup {Absent}
    BY <2>1, AfterChangeType
  <2>4. CASE objects = Absent \/ (c.op = "place" <=> objects[c.object] # Absent)
    <3>1. f[i] = Absent
      BY <2>1, <2>4 DEF AfterChange
    <3> QED
      BY <2>1, <2>3, <3>1 DEF S, Fine
  <2>5. CASE objects # Absent /\ ~(c.op = "place" <=> objects[c.object] # Absent)
    <3>1. objects \in Places /\ f[i] = [objects EXCEPT ![c.object] = c.to]
      BY <2>1, <2>5 DEF AfterChange
    <3>2. CASE c.object # o
      <4>1. f[i][o] = objects[o]
        BY <1>n, <2>2, <3>1, <3>2 DEF Places
      <4> QED
        BY <2>1, <2>3, <2>5, <4>1 DEF S, Fine
    <3>3. CASE c.object = o
      <4>1. f[i][o] = c.to
        BY <1>n, <3>1, <3>3 DEF Places
      <4>2. /\ c.op # "place"
            /\ ~(c.op = "delete" /\ l[2] = "deletion")
            /\ ~(c.op = "move" /\ l[2] = "position" /\ c.to # here)
        BY <2>1, <3>3 DEF LockConflict
      <4>3. \/ f[i][o] = here
            \/ l[2] = "deletion" /\ f[i][o] # Absent
            \/ l[2] = "position" /\ f[i][o] = Absent
        BY <1>n, <2>2, <4>1, <4>2 DEF Operation, LockType
      <4> QED
        BY <2>1, <2>3, <4>3 DEF S, Fine
    <3> QED
      BY <3>2, <3>3
  <2> QED
    BY <2>4, <2>5
<1> HIDE DEF S, Fine
<1>4. 0 .. Len(changes) \subseteq S
  BY <1>2, <1>3, <1>n, InductionUpTo
<1>5. Fine(Materialized(p.objects, changes))
  BY <1>1, <1>4, <1>n DEF S
<1> QED
  BY <1>5 DEF Fine, Materializes

\* What revert_change, a selection and a resolution make of Changes are Changes.
LEMMA WithoutType ==
  ASSUME NEW changes \in Seq(Change), NEW c
  PROVE  Without(changes, c) \in Seq(Change)
  BY KeepType DEF Without

LEMMA SelectionsType ==
  ASSUME NEW changes \in Seq(Change), NEW selection \in Selections(changes)
  PROVE  selection \in Seq(Change)
  BY KeepType DEF Selections

\* The first of some positions is one of them.
LEMMA FirstIsIn ==
  ASSUME NEW S, S \subseteq Nat, S # {}
  PROVE  First(S) \in S
<1>1. \E n \in S : \A m \in S : n <= m
  BY LeastElement
<1> QED
  BY <1>1 DEF First

LEMMA ReplacedType ==
  ASSUME NEW changes \in Seq(Change), NEW c \in ToSet(changes), NEW d \in Change
  PROVE  Replaced(changes, c, d) \in Seq(Change)
<1> DEFINE S == {j \in DOMAIN changes : changes[j] = c}
           i == First(S)
<1>1. S \subseteq Nat /\ S # {} /\ S \subseteq 1 .. Len(changes)
  BY DEF ToSet
<1> HIDE DEF S
<1>2. i \in 1 .. Len(changes)
  BY <1>1, FirstIsIn
<1> HIDE DEF i
<1>3. SubSeq(changes, 1, i - 1) \in Seq(Change) /\ SubSeq(changes, i + 1, Len(changes)) \in Seq(Change)
  BY <1>2
<1>4. Without(SubSeq(changes, i + 1, Len(changes)), c) \in Seq(Change)
  BY <1>3, WithoutType
<1>5. SubSeq(changes, 1, i - 1) \o <<d>> \in Seq(Change)
  BY <1>3
<1>6. Replaced(changes, c, d) =
        SubSeq(changes, 1, i - 1) \o <<d>> \o Without(SubSeq(changes, i + 1, Len(changes)), c)
  BY DEF Replaced, i, S
<1> QED
  BY <1>4, <1>5, <1>6

-----------------------------------------------------------------------------
(* Types, and the Proposal shown                                           *)

LEMMA ReviewType ==
  ASSUME NEW base \in 0 .. MaxVersion, NEW changes \in Seq(Change)
  PROVE  Review(base, changes) \in Proposals
  BY DEF Review, Proposals, Status

LEMMA PlanVersion ==
  ASSUME Truth
  PROVE  plan.version \in 0 .. MaxVersion /\ plan.objects \in Places
  BY DEF Truth, Plans

LEMMA ShownParts ==
  ASSUME Shown
  PROVE  /\ proposal.base \in 0 .. MaxVersion /\ proposal.status \in Status
         /\ proposal.changes \in Seq(Change) /\ Len(branches) \in Nat /\ active \in DOMAIN branches
         /\ \A b \in DOMAIN branches :
              /\ b \in 1 .. Len(branches) /\ branches[b] \in BranchType
              /\ branches[b].proposal \in Proposals
              /\ branches[b].proposal.base \in 0 .. MaxVersion
              /\ branches[b].proposal.changes \in Seq(Change)
<1>1. \A b \in DOMAIN branches : b \in 1 .. Len(branches) /\ branches[b] \in BranchType
  BY DEF Shown
<1>2. \A b \in DOMAIN branches : branches[b].proposal \in Proposals
  BY <1>1 DEF BranchType
<1> QED
  BY <1>1, <1>2 DEF Shown, Proposals

\* Every way in which a command changes the Proposals.
LEMMA SyncActiveShown ==
  ASSUME Shown, NEW q \in Proposals, SyncActive(q)
  PROVE  Shown'
<1>1. [branches[active] EXCEPT !.proposal = q] \in BranchType
  BY ShownParts DEF BranchType
<1>2. branches' = [branches EXCEPT ![active] = [branches[active] EXCEPT !.proposal = q]]
  BY DEF SyncActive
<1>3. branches' \in Seq(BranchType) /\ Len(branches') = Len(branches)
  BY <1>1, <1>2 DEF Shown
<1>4. branches'[active].proposal = q
  BY <1>2, ShownParts DEF BranchType
<1> QED
  BY <1>3, <1>4 DEF Shown, SyncActive, ActiveIsCurrent

LEMMA SetProposalShown ==
  ASSUME Shown, NEW b \in DOMAIN branches, NEW q \in Proposals, SetProposal(b, q)
  PROVE  Shown'
<1>1. [branches[b] EXCEPT !.proposal = q] \in BranchType
  BY ShownParts DEF BranchType
<1>2. branches' = [branches EXCEPT ![b] = [branches[b] EXCEPT !.proposal = q]]
  BY DEF SetProposal
<1>3. branches' \in Seq(BranchType) /\ Len(branches') = Len(branches)
  BY <1>1, <1>2 DEF Shown
<1>4. branches'[b].proposal = q /\ (b # active => branches'[active] = branches[active])
  BY <1>2, ShownParts DEF BranchType
<1> QED
  BY <1>3, <1>4 DEF Shown, SetProposal, ActiveIsCurrent

LEMMA AddBranchShown ==
  ASSUME Shown, NEW q \in Proposals, AddBranch(q)
  PROVE  Shown'
<1>1. Branch(q) \in BranchType /\ Branch(q).proposal = q
  BY DEF Branch, BranchType
<1>2. /\ branches' \in Seq(BranchType) /\ Len(branches') = Len(branches) + 1
      /\ branches'[Len(branches) + 1] = Branch(q)
  BY <1>1 DEF Shown, AddBranch
<1> QED
  BY <1>1, <1>2, ShownParts DEF Shown, AddBranch, ActiveIsCurrent

\* A branch that is there is shown, and archived or not.
LEMMA ShowShown ==
  ASSUME Shown, NEW b \in DOMAIN branches, Show(b),
         branches' \in Seq(BranchType), Len(branches') = Len(branches),
         branches'[b].proposal = branches[b].proposal
  PROVE  Shown'
  BY ShownParts DEF Shown, Show, ActiveIsCurrent

LEMMA ArchivedShown ==
  ASSUME Shown, NEW b \in DOMAIN branches, NEW flag \in BOOLEAN,
         branches' = [branches EXCEPT ![b].archived = flag]
  PROVE  /\ branches' \in Seq(BranchType) /\ Len(branches') = Len(branches)
         /\ \A a \in DOMAIN branches : branches'[a].proposal = branches[a].proposal
<1>1. [branches[b] EXCEPT !.archived = flag] \in BranchType
  BY ShownParts DEF BranchType
<1>2. branches' = [branches EXCEPT ![b] = [branches[b] EXCEPT !.archived = flag]]
  OBVIOUS
<1>3. \A a \in DOMAIN branches : branches'[a].proposal = branches[a].proposal
  BY <1>2, ShownParts DEF BranchType
<1> QED
  BY <1>1, <1>2, <1>3 DEF Shown

\* Acceptance of a Plan and a brief.
LEMMA AcceptTruth ==
  ASSUME Truth, NEW type \in {"approved", "undone", "redone"}, NEW p \in Plans, NEW b \in Brief,
         Accept(type, p, b)
  PROVE  Truth'
<1>1. [type |-> type, plan |-> p, brief |-> b] \in EntryType
  BY DEF EntryType
<1> QED
  BY <1>1 DEF Truth, Accept

LEMMA SameTruth ==
  ASSUME Truth, UNCHANGED accepted
  PROVE  Truth'
  BY DEF Truth, accepted

LEMMA SameStacks ==
  ASSUME Stacks, UNCHANGED history
  PROVE  Stacks'
  BY DEF Stacks, history

LEMMA SameShown ==
  ASSUME Shown, UNCHANGED proposals
  PROVE  Shown'
  BY DEF Shown, proposals, ActiveIsCurrent

LEMMA SameEdits ==
  ASSUME EditTypes, UNCHANGED edits \/ ForgetEdits
  PROVE  EditTypes'
<1>1. <<>> \in Seq(Change)
  OBVIOUS
<1>2. CASE UNCHANGED edits
  BY <1>2 DEF EditTypes
<1>3. CASE ForgetEdits
  BY <1>1, <1>3 DEF EditTypes, ForgetEdits
<1> QED
  BY <1>2, <1>3

LEMMA SameLocks ==
  ASSUME LockTypes, UNCHANGED locks
  PROVE  LockTypes'
  BY DEF LockTypes

LEMMA EditParts ==
  ASSUME EditTypes
  PROVE  edits.undo \in Seq(Change) /\ edits.redo \in Seq(Change)
  BY DEF EditTypes

\* The last of a sequence that is not empty, and what is before it.
LEMMA LastFront ==
  ASSUME NEW T, NEW s \in Seq(T), s # <<>>
  PROVE  /\ Last(s) \in T /\ Last(s) = s[Len(s)] /\ Front(s) \in Seq(T)
         /\ Len(s) \in Nat \ {0} /\ Len(Front(s)) = Len(s) - 1
         /\ \A i \in 1 .. Len(s) - 1 : Front(s)[i] = s[i]
<1>1. Len(s) \in Nat \ {0}
  OBVIOUS
<1>2. Last(s) = s[Len(s)] /\ s[Len(s)] \in T
  BY <1>1 DEF Last
<1> DEFINE n == Len(s) - 1
<1>n. n \in Nat /\ n <= Len(s) /\ \A i \in 1 .. n : s[i] \in T
  BY <1>1
<1>3. Front(s) = [i \in 1 .. n |-> s[i]]
  BY <1>n DEF Front
<1>4. Front(s) \in Seq(T) /\ Len(Front(s)) = n /\ \A i \in 1 .. n : Front(s)[i] = s[i]
  <2> HIDE DEF n
  <2> QED
    BY <1>3, <1>n
<1> QED
  BY <1>1, <1>2, <1>3, <1>4

LEMMA NowType ==
  ASSUME Truth
  PROVE  Now \in Versions
  BY DEF Truth, Now, Versions

LEMMA VersionParts ==
  ASSUME NEW v \in Versions
  PROVE  v.plan \in Plans /\ v.brief \in Brief /\ v.plan.version \in 0 .. MaxVersion
         /\ v.plan.objects \in Places
  BY DEF Versions, Plans

\* The first state of a Project has the types.
LEMMA InitTypes == Init => Types
<1> SUFFICES ASSUME Init PROVE Types
  OBVIOUS
<1>1. /\ 0 \in 0 .. MaxVersion /\ Start \in Places /\ Seeds \subseteq Seq(Change)
      /\ <<>> \in Seq(Change) /\ <<>> \in Seq(Versions)
  BY PlannerConstants
<1>2. plan \in Plans /\ brief \in Brief
  BY <1>1 DEF Init, Plans
<1>3. Truth
  <2>1. [type |-> "opened", plan |-> plan, brief |-> brief] \in EntryType
    BY <1>2 DEF EntryType
  <2> QED
    BY <1>2, <2>1 DEF Truth, Init
<1>4. Shown
  <2>1. proposal \in Proposals
    BY <1>1, ReviewType DEF Init, InitProposal
  <2>2. Branch(proposal) \in BranchType /\ Branch(proposal).proposal = proposal
    BY <2>1 DEF Branch, BranchType
  <2>3. /\ branches \in Seq(BranchType) /\ Len(branches) = 1 /\ active = 1
        /\ branches[1] = Branch(proposal)
    BY <2>2 DEF Init
  <2> QED
    BY <2>1, <2>2, <2>3 DEF Shown, ActiveIsCurrent
<1> QED
  BY <1>1, <1>3, <1>4 DEF Init, Types, Stacks, EditTypes, LockTypes

\* Each command keeps them.
LEMMA ProposalCommandTypes ==
  ASSUME Types, NEW c, NEW br,
         \/ PreviewRevision \/ RequestAdjustment
         \/ c \in Change /\ (ApplyEdit(c) \/ RevertChange(c))
         \/ br \in Brief /\ UpdateEventBrief(br)
  PROVE  Types'
<1>n. /\ Shown /\ Truth /\ Stacks /\ EditTypes /\ LockTypes /\ plan.version \in 0 .. MaxVersion
      /\ proposal.changes \in Seq(Change) /\ proposal \in Proposals
  BY PlanVersion, ShownParts DEF Types, Shown
<1>1. CASE PreviewRevision \/ RequestAdjustment
  <2>1. /\ SyncActive(Review(plan.version, proposal.changes)) /\ UNCHANGED accepted
        /\ UNCHANGED history /\ UNCHANGED edits /\ UNCHANGED locks
    BY <1>1 DEF PreviewRevision, RequestAdjustment
  <2>2. Review(plan.version, proposal.changes) \in Proposals
    BY <1>n, ReviewType
  <2> QED
    BY <1>n, <2>1, <2>2, SyncActiveShown, SameTruth, SameStacks, SameEdits, SameLocks DEF Types
<1>2. CASE c \in Change /\ ApplyEdit(c)
  <2> DEFINE changes == Append(ExistingChanges, c)
  <2>1. changes \in Seq(Change)
    BY <1>n, <1>2 DEF ExistingChanges
  <2>2. Review(plan.version, changes) \in Proposals
    BY <1>n, <2>1, ReviewType
  <2>3. /\ SyncActive(Review(plan.version, changes)) /\ UNCHANGED accepted
        /\ UNCHANGED history /\ UNCHANGED locks
        /\ edits' = [undo |-> Append(edits.undo, c), redo |-> <<>>]
    BY <1>2 DEF ApplyEdit
  <2>4. EditTypes'
    BY <1>n, <1>2, <2>3, EditParts DEF EditTypes
  <2> QED
    BY <1>n, <2>2, <2>3, <2>4, SyncActiveShown, SameTruth, SameStacks, SameLocks DEF Types
<1>3. CASE c \in Change /\ RevertChange(c)
  <2> DEFINE q == [proposal EXCEPT !.changes = Without(@, c)]
  <2>1. /\ SyncActive(q) /\ UNCHANGED accepted /\ UNCHANGED history /\ UNCHANGED locks
        /\ edits' = [edits EXCEPT !.undo = Without(@, c)]
    BY <1>3 DEF RevertChange
  <2>2. q \in Proposals
    BY <1>n, WithoutType DEF Proposals
  <2>3. EditTypes'
    BY <1>n, <2>1, WithoutType, EditParts DEF EditTypes
  <2> QED
    BY <1>n, <2>1, <2>2, <2>3, SyncActiveShown, SameTruth, SameStacks, SameLocks DEF Types
<1>4. CASE br \in Brief /\ UpdateEventBrief(br)
  <2>1. /\ SyncActive(proposal) /\ UNCHANGED history /\ UNCHANGED edits /\ UNCHANGED locks
        /\ UNCHANGED plan /\ brief' = br
        /\ ledger' = Append(ledger, [type |-> "brief", plan |-> None, brief |-> br])
    BY <1>4 DEF UpdateEventBrief
  <2>2. [type |-> "brief", plan |-> None, brief |-> br] \in EntryType
    BY <1>4 DEF EntryType
  <2>3. Truth'
    BY <1>n, <1>4, <2>1, <2>2 DEF Truth
  <2> QED
    BY <1>n, <2>1, <2>3, SyncActiveShown, SameStacks, SameEdits, SameLocks DEF Types
<1> QED
  BY <1>1, <1>2, <1>3, <1>4

LEMMA NewBranchTypes ==
  ASSUME Types, NEW c, NEW b, NEW base, NEW selection,
         \/ selection \in Selections(proposal.changes) /\ CreateBranch(selection)
         \/ c \in Change /\ PreviewTemplateUpdate(c)
         \/ b \in DOMAIN branches /\ DuplicateBranch(b)
         \/ base \in 0 .. plan.version /\ c \in Change /\ RecoverBranch(base, c)
  PROVE  Types'
<1>n. /\ Shown /\ Truth /\ Stacks /\ EditTypes /\ LockTypes /\ plan.version \in 0 .. MaxVersion
      /\ proposal.changes \in Seq(Change) /\ MaxVersion \in Nat
      /\ (c \in Change => <<c>> \in Seq(Change))
  BY PlanVersion, ShownParts, PlannerConstants DEF Types
<1>a. ASSUME NEW q \in Proposals, AddBranch(q), UNCHANGED <<accepted, history, edits, locks>>
      PROVE  Types'
  <2>1. UNCHANGED accepted /\ UNCHANGED history /\ UNCHANGED edits /\ UNCHANGED locks
    BY <1>a
  <2> QED
    BY <1>n, <1>a, <2>1, AddBranchShown, SameTruth, SameStacks, SameEdits, SameLocks DEF Types
<1>1. CASE selection \in Selections(proposal.changes) /\ CreateBranch(selection)
  <2>1. Review(plan.version, selection) \in Proposals
    BY <1>1, <1>n, SelectionsType, ReviewType
  <2> QED
    BY <1>1, <1>a, <2>1 DEF CreateBranch
<1>2. CASE c \in Change /\ PreviewTemplateUpdate(c)
  <2>1. Review(plan.version, <<c>>) \in Proposals
    BY <1>2, <1>n, ReviewType
  <2> QED
    BY <1>2, <1>a, <2>1 DEF PreviewTemplateUpdate
<1>3. CASE b \in DOMAIN branches /\ DuplicateBranch(b)
  <2>1. Review(branches[b].proposal.base, branches[b].proposal.changes) \in Proposals
    BY <1>3, <1>n, ShownParts, ReviewType
  <2> QED
    BY <1>3, <1>a, <2>1 DEF DuplicateBranch
<1>4. CASE base \in 0 .. plan.version /\ c \in Change /\ RecoverBranch(base, c)
  <2>1. base \in 0 .. MaxVersion
    BY <1>4, <1>n
  <2>2. Branch(Review(base, <<c>>)) \in BranchType
    <3>1. Review(base, <<c>>) \in Proposals
      BY <1>4, <1>n, <2>1, ReviewType
    <3> QED
      BY <3>1 DEF Branch, BranchType
  <2>3. /\ branches' = Append(branches, Branch(Review(base, <<c>>)))
        /\ UNCHANGED accepted /\ UNCHANGED history /\ UNCHANGED proposal /\ UNCHANGED active
        /\ UNCHANGED edits /\ UNCHANGED locks
    BY <1>4 DEF RecoverBranch
  <2>4. /\ branches' \in Seq(BranchType) /\ Len(branches') = Len(branches) + 1
        /\ branches'[active] = branches[active]
    BY <1>n, <2>2, <2>3, ShownParts DEF Shown
  <2>5. Shown'
    BY <1>n, <2>3, <2>4, ShownParts DEF Shown, ActiveIsCurrent
  <2> QED
    BY <1>n, <2>3, <2>5, SameTruth, SameStacks, SameEdits, SameLocks DEF Types
<1> QED
  BY <1>1, <1>2, <1>3, <1>4

LEMMA BranchCommandTypes ==
  ASSUME Types, NEW b \in DOMAIN branches,
         \/ ArchiveBranch(b) \/ RestoreBranch(b) \/ RecordBranchDecision(b) \/ SwitchBranch(b)
         \/ Rebase(b) \/ \E c \in Change : ResolveConflict(b, c)
  PROVE  Types'
<1>n. /\ Shown /\ Truth /\ Stacks /\ EditTypes /\ LockTypes /\ plan.version \in 0 .. MaxVersion
      /\ branches[b].proposal.changes \in Seq(Change) /\ branches \in Seq(BranchType)
      /\ active \in DOMAIN branches
  BY PlanVersion, ShownParts DEF Types, Shown
<1>o. /\ UNCHANGED accepted /\ UNCHANGED history /\ UNCHANGED edits /\ UNCHANGED locks
  BY DEF ArchiveBranch, RestoreBranch, RecordBranchDecision, SwitchBranch, Rebase, ResolveConflict
<1>1. CASE ArchiveBranch(b)
  <2>1. branches' = [branches EXCEPT ![b].archived = TRUE]
    BY <1>1 DEF ArchiveBranch
  <2>2. /\ branches' \in Seq(BranchType) /\ Len(branches') = Len(branches)
        /\ \A a \in DOMAIN branches : branches'[a].proposal = branches[a].proposal
    BY <1>n, <2>1, ArchivedShown
  <2>3. CASE b = active
    <3> DEFINE f == First(Fallbacks(b))
    <3>1. Fallbacks(b) # {} /\ Show(f)
      BY <1>1, <2>3 DEF ArchiveBranch
    <3>2. Fallbacks(b) \subseteq Nat /\ Fallbacks(b) \subseteq DOMAIN branches
      BY <1>n DEF Fallbacks
    <3>3. f \in DOMAIN branches
      BY <3>1, <3>2, FirstIsIn
    <3> HIDE DEF f
    <3>4. Shown'
      BY <1>n, <2>2, <3>1, <3>3, ShowShown
    <3> QED
      BY <1>n, <1>o, <3>4, SameTruth, SameStacks, SameEdits, SameLocks DEF Types
  <2>4. CASE b # active
    <3>1. UNCHANGED <<active, proposal>>
      BY <1>1, <2>4 DEF ArchiveBranch
    <3>2. Shown'
      BY <1>n, <2>2, <3>1 DEF Shown, ActiveIsCurrent
    <3> QED
      BY <1>n, <1>o, <3>2, SameTruth, SameStacks, SameEdits, SameLocks DEF Types
  <2> QED
    BY <2>3, <2>4
<1>2. CASE RestoreBranch(b)
  <2>1. branches' = [branches EXCEPT ![b].archived = FALSE] /\ UNCHANGED <<active, proposal>>
    BY <1>2 DEF RestoreBranch
  <2>2. /\ branches' \in Seq(BranchType) /\ Len(branches') = Len(branches)
        /\ \A a \in DOMAIN branches : branches'[a].proposal = branches[a].proposal
    BY <1>n, <2>1, ArchivedShown
  <2>3. Shown'
    BY <1>n, <2>1, <2>2 DEF Shown, ActiveIsCurrent
  <2> QED
    BY <1>n, <1>o, <2>3, SameTruth, SameStacks, SameEdits, SameLocks DEF Types
<1>3. CASE RecordBranchDecision(b) \/ SwitchBranch(b)
  <2>1. Show(b) /\ branches' = branches
    BY <1>3 DEF RecordBranchDecision, SwitchBranch
  <2>2. Shown'
    BY <1>n, <2>1, ShowShown
  <2> QED
    BY <1>n, <1>o, <2>2, SameTruth, SameStacks, SameEdits, SameLocks DEF Types
<1>4. CASE Rebase(b)
  <2> DEFINE q == Review(plan.version, branches[b].proposal.changes)
  <2>1. SetProposal(b, q) /\ q \in Proposals
    BY <1>n, <1>4, ReviewType DEF Rebase
  <2>2. Shown'
    BY <1>n, <2>1, SetProposalShown
  <2> QED
    BY <1>n, <1>o, <2>2, SameTruth, SameStacks, SameEdits, SameLocks DEF Types
<1>5. CASE \E c \in Change : ResolveConflict(b, c)
  <2> DEFINE q == branches[b].proposal
  <2>0. PICK c \in Change : ResolveConflict(b, c)
    BY <1>5
  <2>1. c \in ToSet(q.changes)
    BY <2>0 DEF ResolveConflict
  <2>2. PICK changes \in KeepPlan(q, c) \cup KeepProposal(q, c) \cup ManualResolution(q, c) :
          SetProposal(b, Review(plan.version, changes))
    BY <2>0 DEF ResolveConflict
  <2>3. changes \in Seq(Change)
    <3>1. CASE changes \in KeepPlan(q, c)
      BY <1>n, <3>1, WithoutType DEF KeepPlan
    <3>2. CASE changes \in KeepProposal(q, c)
      BY <1>n, <3>2 DEF KeepProposal
    <3>3. CASE changes \in ManualResolution(q, c)
      <4>1. \E d \in Change : changes = Replaced(q.changes, c, d)
        BY <3>3 DEF ManualResolution
      <4> QED
        BY <1>n, <2>1, <4>1, ReplacedType
    <3> QED
      BY <2>2, <3>1, <3>2, <3>3
  <2>4. Review(plan.version, changes) \in Proposals
    BY <1>n, <2>3, ReviewType
  <2>5. Shown'
    BY <1>n, <2>2, <2>4, SetProposalShown
  <2> QED
    BY <1>n, <1>o, <2>5, SameTruth, SameStacks, SameEdits, SameLocks DEF Types
<1> QED
  BY <1>1, <1>2, <1>3, <1>4, <1>5

LEMMA LockCommandTypes ==
  ASSUME Types, NEW l \in Lockable, SetObjectLock(l) \/ ReleaseObjectLock(l)
  PROVE  Types'
<1>n. Shown /\ Truth /\ Stacks /\ EditTypes /\ LockTypes
  BY DEF Types
<1>1. UNCHANGED accepted /\ UNCHANGED history /\ UNCHANGED edits /\ UNCHANGED proposals
  BY DEF SetObjectLock, ReleaseObjectLock
<1>2. LockTypes'
  BY <1>n DEF SetObjectLock, ReleaseObjectLock, LockTypes
<1> QED
  BY <1>n, <1>1, <1>2, SameTruth, SameStacks, SameEdits, SameShown DEF Types

LEMMA ApproveTypes ==
  ASSUME Types, Approve
  PROVE  Types'
<1>n. /\ Shown /\ Truth /\ Stacks /\ EditTypes /\ LockTypes /\ plan.version \in 0 .. MaxVersion
      /\ proposal \in Proposals /\ brief \in Brief /\ MaxVersion \in Nat
  BY PlanVersion, PlannerConstants DEF Types, Shown, Truth
<1>1. Approved \in Plans
  <2>1. plan.version + 1 \in 0 .. MaxVersion
    BY <1>n DEF Approve, Approvable
  <2>2. Materialized(plan.objects, proposal.changes) \in Places
    BY <1>n, PlanVersion, ShownParts, MaterializedType DEF Approve, Validates, Materializes
  <2> QED
    BY <2>1, <2>2 DEF Approved, Plans
<1>2. /\ past' = Append(past, Now) /\ future' = <<>> /\ Accept("approved", Approved, brief)
      /\ SyncActive([proposal EXCEPT !.status = "approved"]) /\ ForgetEdits /\ UNCHANGED locks
  BY DEF Approve, Commit
<1>3. [proposal EXCEPT !.status = "approved"] \in Proposals
  BY <1>n DEF Proposals, Status
<1>4. Shown'
  BY <1>n, <1>2, <1>3, SyncActiveShown
<1>5. Truth'
  BY <1>n, <1>1, <1>2, AcceptTruth
<1>6. Stacks'
  BY <1>n, <1>2, NowType DEF Stacks
<1> QED
  BY <1>n, <1>2, <1>4, <1>5, <1>6, SameEdits, SameLocks DEF Types

LEMMA EditHistoryTypes ==
  ASSUME Types, UndoEdit \/ RedoEdit
  PROVE  Types'
<1>n. /\ Shown /\ Truth /\ Stacks /\ EditTypes /\ LockTypes /\ proposal \in Proposals
      /\ proposal.changes \in Seq(Change) /\ edits.undo \in Seq(Change) /\ edits.redo \in Seq(Change)
  BY ShownParts, EditParts DEF Types, Shown
<1>1. CASE UndoEdit
  <2> DEFINE q == [proposal EXCEPT !.changes = Without(@, Last(edits.undo))]
  <2>1. /\ SyncActive(q) /\ UNCHANGED accepted /\ UNCHANGED history /\ UNCHANGED locks
        /\ edits' = [undo |-> Front(edits.undo), redo |-> Append(edits.redo, Last(edits.undo))]
        /\ edits.undo # <<>>
    BY <1>1 DEF UndoEdit, EditToUndo
  <2>2. q \in Proposals
    BY <1>n, WithoutType DEF Proposals
  <2>3. Last(edits.undo) \in Change /\ Front(edits.undo) \in Seq(Change)
    BY <1>n, <2>1, LastFront
  <2>4. EditTypes'
    BY <1>n, <2>1, <2>3 DEF EditTypes
  <2> QED
    BY <1>n, <2>1, <2>2, <2>4, SyncActiveShown, SameTruth, SameStacks, SameLocks DEF Types
<1>2. CASE RedoEdit
  <2> DEFINE changes == Append(proposal.changes, Last(edits.redo))
             q == [proposal EXCEPT !.changes = changes]
  <2>1. /\ SyncActive(q) /\ UNCHANGED accepted /\ UNCHANGED history /\ UNCHANGED locks
        /\ edits' = [undo |-> Append(edits.undo, Last(edits.redo)), redo |-> Front(edits.redo)]
        /\ edits.redo # <<>>
    BY <1>2 DEF RedoEdit, EditToRedo
  <2>2. Last(edits.redo) \in Change /\ Front(edits.redo) \in Seq(Change)
    BY <1>n, <2>1, LastFront
  <2>3. changes \in Seq(Change)
    BY <1>n, <2>2
  <2>4. q \in Proposals
    BY <1>n, <2>3 DEF Proposals
  <2>5. EditTypes'
    BY <1>n, <2>1, <2>2 DEF EditTypes
  <2> QED
    BY <1>n, <2>1, <2>4, <2>5, SyncActiveShown, SameTruth, SameStacks, SameLocks DEF Types
<1> QED
  BY <1>1, <1>2

LEMMA PlanHistoryTypes ==
  ASSUME Types, UndoPlan \/ RedoPlan \/ RedoPlanThrows \/ Reopen
  PROVE  Types'
<1>n. /\ Shown /\ Truth /\ Stacks /\ EditTypes /\ LockTypes /\ proposal \in Proposals
      /\ proposal.changes \in Seq(Change) /\ Now \in Versions
      /\ past \in Seq(Versions) /\ future \in Seq(Versions)
  BY ShownParts, NowType DEF Types, Shown, Stacks
<1>1. CASE UndoPlan
  <2> DEFINE v == Last(past)
  <2>1. /\ past # <<>> /\ past' = Front(past) /\ future' = Append(future, Now)
        /\ Accept("undone", v.plan, v.brief) /\ SyncActive(Review(v.plan.version, proposal.changes))
        /\ ForgetEdits /\ UNCHANGED locks
    BY <1>1 DEF UndoPlan
  <2>2. v \in Versions /\ Front(past) \in Seq(Versions)
    BY <1>n, <2>1, LastFront
  <2> HIDE DEF v
  <2>3. Review(v.plan.version, proposal.changes) \in Proposals
    BY <1>n, <2>2, VersionParts, ReviewType
  <2>4. Truth'
    BY <1>n, <2>1, <2>2, VersionParts, AcceptTruth
  <2>5. Stacks'
    BY <1>n, <2>1, <2>2 DEF Stacks
  <2> QED
    BY <1>n, <2>1, <2>3, <2>4, <2>5, SyncActiveShown, SameEdits, SameLocks DEF Types
<1>2. CASE RedoPlan
  <2> DEFINE v == Last(future)
  <2>1. /\ future # <<>> /\ future' = Front(future) /\ past' = Append(past, Now)
        /\ Accept("redone", v.plan, v.brief) /\ SyncActive(Redone)
        /\ ForgetEdits /\ UNCHANGED locks
        /\ Redone = [proposal EXCEPT !.base = v.plan.version, !.status = "approved"]
    BY <1>2 DEF RedoPlan, Redone
  <2>2. v \in Versions /\ Front(future) \in Seq(Versions)
    BY <1>n, <2>1, LastFront
  <2> HIDE DEF v
  <2>3. Redone \in Proposals
    BY <1>n, <2>1, <2>2, VersionParts DEF Proposals, Status
  <2>4. Truth'
    BY <1>n, <2>1, <2>2, VersionParts, AcceptTruth
  <2>5. Stacks'
    BY <1>n, <2>1, <2>2 DEF Stacks
  <2> QED
    BY <1>n, <2>1, <2>3, <2>4, <2>5, SyncActiveShown, SameEdits, SameLocks DEF Types
<1>3. CASE RedoPlanThrows
  <2>1. /\ future # <<>> /\ future' = Front(future) /\ past' = Append(past, Now)
        /\ UNCHANGED accepted /\ UNCHANGED proposals /\ UNCHANGED edits /\ UNCHANGED locks
    BY <1>3 DEF RedoPlanThrows
  <2>2. Front(future) \in Seq(Versions)
    BY <1>n, <2>1, LastFront
  <2>3. Stacks'
    BY <1>n, <2>1, <2>2 DEF Stacks
  <2> QED
    BY <1>n, <2>1, <2>3, SameShown, SameTruth, SameEdits, SameLocks DEF Types
<1>4. CASE Reopen
  <2>1. /\ past' = <<>> /\ future' = <<>>
        /\ UNCHANGED accepted /\ UNCHANGED proposals /\ UNCHANGED edits /\ UNCHANGED locks
    BY <1>4 DEF Reopen
  <2>2. Stacks'
    BY <2>1 DEF Stacks
  <2> QED
    BY <1>n, <2>1, <2>2, SameShown, SameTruth, SameEdits, SameLocks DEF Types
<1> QED
  BY <1>1, <1>2, <1>3, <1>4

LEMMA NextTypes == Types /\ [Next]_vars => Types'
<1> SUFFICES ASSUME Types, [Next]_vars PROVE Types'
  OBVIOUS
<1>1. CASE PreviewRevision \/ RequestAdjustment
  BY <1>1, ProposalCommandTypes
<1>2. CASE \E c \in Change : ApplyEdit(c) \/ RevertChange(c)
  BY <1>2, ProposalCommandTypes
<1>3. CASE \E b \in Brief : UpdateEventBrief(b)
  BY <1>3, ProposalCommandTypes
<1>4. CASE \E selection \in Selections(proposal.changes) : CreateBranch(selection)
  BY <1>4, NewBranchTypes
<1>5. CASE \E c \in Change : PreviewTemplateUpdate(c)
  BY <1>5, NewBranchTypes
<1>6. CASE \E base \in 0..plan.version, c \in Change : RecoverBranch(base, c)
  BY <1>6, NewBranchTypes
<1>7. CASE \E b \in DOMAIN branches :
             \/ DuplicateBranch(b) \/ ArchiveBranch(b) \/ RestoreBranch(b)
             \/ RecordBranchDecision(b) \/ SwitchBranch(b) \/ Rebase(b)
             \/ \E c \in Change : ResolveConflict(b, c)
  <2>1. PICK b \in DOMAIN branches :
             \/ DuplicateBranch(b) \/ ArchiveBranch(b) \/ RestoreBranch(b)
             \/ RecordBranchDecision(b) \/ SwitchBranch(b) \/ Rebase(b)
             \/ \E c \in Change : ResolveConflict(b, c)
    BY <1>7
  <2>2. CASE DuplicateBranch(b)
    BY <2>2, NewBranchTypes
  <2>3. CASE \/ ArchiveBranch(b) \/ RestoreBranch(b)
             \/ RecordBranchDecision(b) \/ SwitchBranch(b) \/ Rebase(b)
    BY <2>3, BranchCommandTypes
  <2>4. CASE \E c \in Change : ResolveConflict(b, c)
    BY <2>4, BranchCommandTypes
  <2> QED
    BY <2>1, <2>2, <2>3, <2>4
<1>8. CASE \E l \in Lockable : SetObjectLock(l) \/ ReleaseObjectLock(l)
  BY <1>8, LockCommandTypes
<1>9. CASE Approve
  BY <1>9, ApproveTypes
<1>10. CASE UndoEdit \/ RedoEdit
  BY <1>10, EditHistoryTypes
<1>11. CASE UndoPlan \/ RedoPlan \/ RedoPlanThrows \/ Reopen
  BY <1>11, PlanHistoryTypes
<1>12. CASE UNCHANGED vars
  <2>1. UNCHANGED accepted /\ UNCHANGED history /\ UNCHANGED proposals /\ UNCHANGED edits /\ UNCHANGED locks
    BY <1>12 DEF vars
  <2> QED
    BY <2>1, SameShown, SameTruth, SameStacks, SameEdits, SameLocks DEF Types
<1> QED
  BY <1>1, <1>2, <1>3, <1>4, <1>5, <1>6, <1>7, <1>8, <1>9, <1>10, <1>11, <1>12 DEF Next

\* Types holds in every reachable state, whatever the commands and their order.
THEOREM TypesHold == Spec => []Types
  BY InitTypes, NextTypes, PTL DEF Spec

\* TypeOK, which the run checks: accepted Plans are Plans, Proposals consist of
\* Changes, the active branch is there, and the ledger holds Plans and briefs.
LEMMA TypesGiveTypeOK == Types => TypeOK
<1> SUFFICES ASSUME Types PROVE TypeOK
  OBVIOUS
<1>1. ASSUME NEW q \in Proposals PROVE IsProposal(q)
  BY DEF IsProposal, Proposals, Status
<1>2. \A b \in DOMAIN branches :
        IsProposal(branches[b].proposal) /\ branches[b].archived \in BOOLEAN
  <2>1. \A b \in DOMAIN branches : branches[b] \in BranchType /\ branches[b].proposal \in Proposals
    BY ShownParts DEF Types
  <2> QED
    BY <1>1, <2>1 DEF BranchType
<1>3. \A i \in DOMAIN ledger : ledger[i].plan \in Plans \cup {None} /\ ledger[i].brief \in Brief
  <2>1. \A i \in DOMAIN ledger : ledger[i] \in EntryType
    BY DEF Types, Truth
  <2> QED
    BY <2>1 DEF EntryType
<1> QED
  BY <1>1, <1>2, <1>3, ShownParts, EditParts DEF Types, Shown, Truth, Stacks, LockTypes, TypeOK

THEOREM PlannerTypeCorrect == Spec => []TypeOK
  BY TypesHold, TypesGiveTypeOK, PTL

\* The Proposal shown is the active branch's.
THEOREM ShownIsActive == Spec => []ActiveIsCurrent
<1>1. Types => ActiveIsCurrent
  BY DEF Types, Shown
<1> QED
  BY <1>1, TypesHold, PTL

-----------------------------------------------------------------------------
(* What is accepted, and what it was accepted from                         *)

\* A step accepts a Plan, takes a brief into the ledger, or leaves both alone.
Briefs == \E b \in Brief :
  /\ UNCHANGED plan /\ brief' = b
  /\ ledger' = Append(ledger, [type |-> "brief", plan |-> None, brief |-> b])
Accepts == \E type \in {"undone", "redone"}, p \in Plans, b \in Brief : Accept(type, p, b)

LEMMA TruthSteps ==
  ASSUME Types, [Next]_vars
  PROVE  UNCHANGED accepted \/ Briefs \/ Accepts \/ Approve
<1>1. CASE Approve
  BY <1>1
<1>2. CASE UndoPlan
  <2> DEFINE v == Last(past)
  <2>1. v \in Versions
    BY <1>2, LastFront DEF UndoPlan, Types, Stacks
  <2>2. Accept("undone", v.plan, v.brief)
    BY <1>2 DEF UndoPlan
  <2> HIDE DEF v
  <2> QED
    BY <2>1, <2>2, VersionParts DEF Accepts
<1>3. CASE RedoPlan
  <2> DEFINE v == Last(future)
  <2>1. v \in Versions
    BY <1>3, LastFront DEF RedoPlan, Types, Stacks
  <2>2. Accept("redone", v.plan, v.brief)
    BY <1>3 DEF RedoPlan
  <2> HIDE DEF v
  <2> QED
    BY <2>1, <2>2, VersionParts DEF Accepts
<1>4. CASE \E b \in Brief : UpdateEventBrief(b)
  BY <1>4 DEF UpdateEventBrief, Briefs
<1>5. ASSUME Next, ~Approve, ~UndoPlan, ~RedoPlan, ~(\E b \in Brief : UpdateEventBrief(b))
      PROVE  UNCHANGED accepted
  BY <1>5
     DEF Next, PreviewRevision, RequestAdjustment, ApplyEdit, RevertChange, CreateBranch,
         PreviewTemplateUpdate, DuplicateBranch, RecoverBranch, ArchiveBranch, RestoreBranch,
         RecordBranchDecision, SwitchBranch, Rebase, ResolveConflict, SetObjectLock,
         ReleaseObjectLock, UndoEdit, RedoEdit, RedoPlanThrows, Reopen
<1>6. CASE UNCHANGED vars
  BY <1>6 DEF vars
<1> QED
  BY <1>1, <1>2, <1>3, <1>4, <1>5, <1>6

\* The entry that carries the accepted Plan has only briefs after it, and the
\* last entry carries the accepted brief.
Carries(i) == ledger[i].plan = plan /\ \A j \in DOMAIN ledger : j > i => ledger[j].plan = None
Carried ==
  /\ \E i \in DOMAIN ledger : Carries(i)
  /\ ledger # <<>> /\ Last(ledger).brief = brief

LEMMA PlanIsNotNone ==
  ASSUME Truth
  PROVE  plan # None
  BY PlannerConstants DEF Truth, Plans

LEMMA CarriedReplays == Types /\ Carried => LedgerReplays
<1> SUFFICES ASSUME Types, Carried PROVE LedgerReplays
  OBVIOUS
<1>1. PICK i \in DOMAIN ledger : Carries(i)
  BY DEF Carried
<1>2. DOMAIN ledger = 1 .. Len(ledger) /\ Len(ledger) \in Nat
  BY DEF Types, Truth
<1>3. i \in PlanEntries /\ \A j \in PlanEntries : j <= i
  <2>1. ledger[i].plan # None
    BY <1>1, PlanIsNotNone DEF Carries, Types
  <2>2. ASSUME NEW j \in PlanEntries PROVE j <= i
    <3>1. j \in DOMAIN ledger /\ ledger[j].plan # None
      BY DEF PlanEntries
    <3>2. ~(j > i)
      BY <1>1, <3>1 DEF Carries
    <3> QED
      BY <1>2, <3>1, <3>2
  <2> QED
    BY <2>1, <2>2 DEF PlanEntries
<1>4. Latest(PlanEntries) = i
  <2>1. PlanEntries \subseteq Nat
    BY <1>2 DEF PlanEntries
  <2>2. ASSUME NEW k \in PlanEntries, \A j \in PlanEntries : j <= k PROVE k = i
    BY <1>3, <2>1, <2>2
  <2>3. Latest(PlanEntries) \in PlanEntries /\ \A j \in PlanEntries : j <= Latest(PlanEntries)
    BY <1>3 DEF Latest
  <2> QED
    BY <2>2, <2>3
<1> QED
  BY <1>1, <1>4 DEF Carries, Carried, LedgerReplays, ReplayedPlan, ReplayedBrief

LEMMA InitCarried == Init => Carried
<1> SUFFICES ASSUME Init PROVE Carried
  OBVIOUS
<1>1. /\ Len(ledger) = 1 /\ DOMAIN ledger = {1} /\ ledger # <<>>
      /\ ledger[1].plan = plan /\ ledger[1].brief = brief
  BY DEF Init
<1>2. Carries(1)
  BY <1>1 DEF Carries
<1> QED
  BY <1>1, <1>2 DEF Carried, Last

\* An entry more.
LEMMA Appended ==
  ASSUME Truth, NEW e, ledger' = Append(ledger, e)
  PROVE  /\ DOMAIN ledger' = 1 .. Len(ledger) + 1 /\ DOMAIN ledger = 1 .. Len(ledger)
         /\ Len(ledger) \in Nat /\ Len(ledger') = Len(ledger) + 1
         /\ ledger' # <<>> /\ Last(ledger') = e /\ ledger'[Len(ledger) + 1] = e
         /\ \A i \in DOMAIN ledger : ledger'[i] = ledger[i]
<1>1. Len(ledger) \in Nat /\ Len(ledger') = Len(ledger) + 1 /\ ledger'[Len(ledger) + 1] = e
  BY DEF Truth
<1>2. DOMAIN ledger' = 1 .. Len(ledger) + 1 /\ DOMAIN ledger = 1 .. Len(ledger)
  BY DEF Truth
<1>3. \A i \in DOMAIN ledger : ledger'[i] = ledger[i]
  BY <1>2 DEF Truth
<1>4. ledger' # <<>>
  BY <1>1
<1> QED
  BY <1>1, <1>2, <1>3, <1>4 DEF Last

LEMMA AcceptCarried ==
  ASSUME Truth, NEW type, NEW p, NEW b, Accept(type, p, b)
  PROVE  Carried'
<1> DEFINE e == [type |-> type, plan |-> p, brief |-> b]
           n == Len(ledger) + 1
<1>1. plan' = p /\ brief' = b /\ ledger' = Append(ledger, e) /\ e.plan = p /\ e.brief = b
  BY DEF Accept
<1> HIDE DEF e
<1>2. /\ DOMAIN ledger' = 1 .. n /\ n \in Nat \ {0} /\ ledger' # <<>> /\ Last(ledger') = e
      /\ ledger'[n] = e
  BY <1>1, Appended
<1> HIDE DEF n
<1>3. \A j \in DOMAIN ledger' : ~(j > n)
  BY <1>2
<1>4. ledger'[n].plan = plan' /\ n \in DOMAIN ledger'
  BY <1>1, <1>2
<1>5. \E i \in DOMAIN ledger' :
        ledger'[i].plan = plan' /\ \A j \in DOMAIN ledger' : j > i => ledger'[j].plan = None
  BY <1>3, <1>4
<1> QED
  BY <1>1, <1>2, <1>5 DEF Carried, Carries

LEMMA NextCarried == Types /\ Carried /\ [Next]_vars => Carried'
<1> SUFFICES ASSUME Types, Carried, [Next]_vars PROVE Carried'
  OBVIOUS
<1>n. Truth
  BY DEF Types
<1>1. CASE UNCHANGED accepted
  BY <1>1 DEF accepted, Carried, Carries
<1>2. CASE Briefs
  <2>1. PICK b \in Brief :
          /\ plan' = plan /\ brief' = b
          /\ ledger' = Append(ledger, [type |-> "brief", plan |-> None, brief |-> b])
    BY <1>2 DEF Briefs
  <2> DEFINE e == [type |-> "brief", plan |-> None, brief |-> b]
  <2>2. ledger' = Append(ledger, e) /\ e.plan = None /\ e.brief = b
    BY <2>1
  <2> HIDE DEF e
  <2>3. /\ DOMAIN ledger' = 1 .. Len(ledger) + 1 /\ DOMAIN ledger = 1 .. Len(ledger)
        /\ Len(ledger) \in Nat /\ ledger' # <<>> /\ Last(ledger') = e
        /\ ledger'[Len(ledger) + 1] = e /\ \A i \in DOMAIN ledger : ledger'[i] = ledger[i]
    BY <1>n, <2>2, Appended
  <2>4. PICK i \in DOMAIN ledger : Carries(i)
    BY DEF Carried
  <2>5. ASSUME NEW j \in DOMAIN ledger', j > i PROVE ledger'[j].plan = None
    <3>1. CASE j = Len(ledger) + 1
      BY <2>2, <2>3, <3>1
    <3>2. CASE j # Len(ledger) + 1
      <4>1. j \in DOMAIN ledger
        BY <2>3, <3>2
      <4> QED
        BY <2>3, <2>4, <2>5, <4>1 DEF Carries
    <3> QED
      BY <3>1, <3>2
  <2>6. i \in DOMAIN ledger' /\ ledger'[i].plan = plan'
    BY <2>1, <2>3, <2>4 DEF Carries
  <2>7. Carries(i)'
    BY <2>5, <2>6 DEF Carries
  <2> QED
    BY <2>1, <2>2, <2>3, <2>6, <2>7 DEF Carried
<1>3. CASE Accepts
  BY <1>n, <1>3, AcceptCarried DEF Accepts
<1>4. CASE Approve
  BY <1>n, <1>4, AcceptCarried DEF Approve, Commit
<1> QED
  BY <1>1, <1>2, <1>3, <1>4, TruthSteps

\* The ledger replays to the accepted Plan and brief, so that what was saved
\* can be opened.
THEOREM LedgerReplaysAlways == Spec => []LedgerReplays
<1>1. Init => Carried
  BY InitCarried
<1>2. Types /\ Carried /\ [Next]_vars => Carried'
  BY NextCarried
<1>3. Types /\ Carried => LedgerReplays
  BY CarriedReplays
<1> QED
  BY <1>1, <1>2, <1>3, TypesHold, PTL DEF Spec

-----------------------------------------------------------------------------
(* History ascends                                                         *)

\* One version is one Plan, and a later one is higher.
Ord(p, q) == p.version < q.version \/ p = q

LEMMA OrdTransitive ==
  ASSUME NEW p \in Plans, NEW q \in Plans, NEW r \in Plans, Ord(p, q), Ord(q, r)
  PROVE  Ord(p, r)
<1>1. p.version \in Nat /\ q.version \in Nat /\ r.version \in Nat
  BY PlannerConstants DEF Plans
<1> QED
  BY <1>1 DEF Ord

\* The undo stack ascends to the accepted Plan, and the redo stack descends to it.
Ascends ==
  /\ \A i \in 1 .. Len(past) - 1 : Ord(past[i].plan, past[i + 1].plan)
  /\ past # <<>> => Ord(past[Len(past)].plan, plan)
Descends ==
  /\ \A i \in 1 .. Len(future) - 1 : Ord(future[i + 1].plan, future[i].plan)
  /\ future # <<>> => Ord(plan, future[Len(future)].plan)
Ordered == Ascends /\ Descends

LEMMA StackFacts ==
  ASSUME NEW s \in Seq(Versions)
  PROVE  /\ Len(s) \in Nat /\ DOMAIN s = 1 .. Len(s) /\ (s = <<>> <=> Len(s) = 0)
         /\ \A i \in 1 .. Len(s) : s[i] \in Versions /\ s[i].plan \in Plans
<1>1. Len(s) \in Nat /\ DOMAIN s = 1 .. Len(s) /\ (s = <<>> <=> Len(s) = 0)
  OBVIOUS
<1>2. \A i \in 1 .. Len(s) : s[i] \in Versions
  OBVIOUS
<1> QED
  BY <1>1, <1>2, VersionParts

LEMMA PushFacts ==
  ASSUME NEW s \in Seq(Versions), NEW v \in Versions
  PROVE  /\ Append(s, v) \in Seq(Versions) /\ Len(Append(s, v)) = Len(s) + 1
         /\ Append(s, v)[Len(s) + 1] = v /\ Append(s, v) # <<>>
         /\ \A i \in 1 .. Len(s) : Append(s, v)[i] = s[i]
<1>1. Len(s) \in Nat
  OBVIOUS
<1>2. /\ Append(s, v) \in Seq(Versions) /\ Len(Append(s, v)) = Len(s) + 1
      /\ Append(s, v)[Len(s) + 1] = v
  BY <1>1
<1>3. \A i \in 1 .. Len(s) : Append(s, v)[i] = s[i]
  BY <1>1
<1>4. Append(s, v) # <<>>
  BY <1>1, <1>2
<1> QED
  BY <1>2, <1>3, <1>4

\* Pushing the present on the undo stack, to a present that is not before it.
LEMMA PushPast ==
  ASSUME Types, Ascends, past' = Append(past, Now), Ord(plan, plan')
  PROVE  Ascends'
<1>n. past \in Seq(Versions) /\ Now \in Versions /\ Now.plan = plan /\ Len(past) \in Nat
  BY NowType DEF Types, Stacks, Now
<1>1. /\ Len(past') = Len(past) + 1 /\ past'[Len(past) + 1] = Now
      /\ \A i \in 1 .. Len(past) : past'[i] = past[i]
  BY <1>n, PushFacts
<1>2. ASSUME NEW i \in 1 .. Len(past') - 1 PROVE Ord(past'[i].plan, past'[i + 1].plan)
  <2>1. i \in 1 .. Len(past)
    BY <1>n, <1>1
  <2>2. CASE i = Len(past)
    <3>1. past # <<>>
      BY <2>1, <2>2
    <3> QED
      BY <1>n, <1>1, <2>1, <2>2, <3>1 DEF Ascends
  <2>3. CASE i # Len(past)
    <3>1. i \in 1 .. Len(past) - 1 /\ i + 1 \in 1 .. Len(past)
      BY <1>n, <2>1, <2>3
    <3> QED
      BY <1>1, <2>1, <3>1 DEF Ascends
  <2> QED
    BY <2>2, <2>3
<1>3. Ord(past'[Len(past')].plan, plan')
  BY <1>n, <1>1
<1> QED
  BY <1>2, <1>3 DEF Ascends

\* Pushing the present on the redo stack, to a present that is not after it.
LEMMA PushFuture ==
  ASSUME Types, Descends, future' = Append(future, Now), Ord(plan', plan)
  PROVE  Descends'
<1>n. future \in Seq(Versions) /\ Now \in Versions /\ Now.plan = plan /\ Len(future) \in Nat
  BY NowType DEF Types, Stacks, Now
<1>1. /\ Len(future') = Len(future) + 1 /\ future'[Len(future) + 1] = Now
      /\ \A i \in 1 .. Len(future) : future'[i] = future[i]
  BY <1>n, PushFacts
<1>2. ASSUME NEW i \in 1 .. Len(future') - 1 PROVE Ord(future'[i + 1].plan, future'[i].plan)
  <2>1. i \in 1 .. Len(future)
    BY <1>n, <1>1
  <2>2. CASE i = Len(future)
    <3>1. future # <<>>
      BY <2>1, <2>2
    <3> QED
      BY <1>n, <1>1, <2>1, <2>2, <3>1 DEF Descends
  <2>3. CASE i # Len(future)
    <3>1. i \in 1 .. Len(future) - 1 /\ i + 1 \in 1 .. Len(future)
      BY <1>n, <2>1, <2>3
    <3> QED
      BY <1>1, <2>1, <3>1 DEF Descends
  <2> QED
    BY <2>2, <2>3
<1>3. Ord(plan', future'[Len(future')].plan)
  BY <1>n, <1>1
<1> QED
  BY <1>2, <1>3 DEF Descends

\* Taking the last off, to a present that it is or that is beyond it.
LEMMA PopPast ==
  ASSUME Types, Ascends, past # <<>>, past' = Front(past), plan' = Last(past).plan
  PROVE  Ascends' /\ Ord(plan', plan)
<1>n. past \in Seq(Versions)
  BY DEF Types, Stacks
<1>1. /\ Len(past) \in Nat \ {0} /\ Last(past) = past[Len(past)] /\ Len(past') = Len(past) - 1
      /\ \A i \in 1 .. Len(past) - 1 : past'[i] = past[i]
  BY <1>n, LastFront
<1>2. ASSUME NEW i \in 1 .. Len(past') - 1 PROVE Ord(past'[i].plan, past'[i + 1].plan)
  <2>1. i \in 1 .. Len(past) - 1 /\ i + 1 \in 1 .. Len(past) - 1
    BY <1>1
  <2> QED
    BY <1>1, <2>1 DEF Ascends
<1>3. ASSUME past' # <<>> PROVE Ord(past'[Len(past')].plan, plan')
  <2>1. Len(past') # 0
    <3>1. past' \in Seq(Versions)
      BY <1>n, LastFront
    <3> QED
      BY <1>3, <3>1
  <2>2. Len(past) - 1 \in 1 .. Len(past) - 1
    BY <1>1, <2>1
  <2> QED
    BY <1>1, <2>2 DEF Ascends
<1>4. Ord(plan', plan)
  BY <1>1 DEF Ascends
<1> QED
  BY <1>2, <1>3, <1>4 DEF Ascends

LEMMA PopFuture ==
  ASSUME Types, Descends, future # <<>>, future' = Front(future),
         plan' = Last(future).plan \/ plan' = plan
  PROVE  Descends' /\ Ord(plan, plan')
<1>n. future \in Seq(Versions) /\ plan \in Plans
  BY DEF Types, Stacks, Truth
<1>1. /\ Len(future) \in Nat \ {0} /\ Last(future) = future[Len(future)]
      /\ Len(future') = Len(future) - 1
      /\ \A i \in 1 .. Len(future) - 1 : future'[i] = future[i]
  BY <1>n, LastFront
<1>a. Ord(plan, future[Len(future)].plan)
  BY <1>1 DEF Descends
<1>2. ASSUME NEW i \in 1 .. Len(future') - 1 PROVE Ord(future'[i + 1].plan, future'[i].plan)
  <2>1. i \in 1 .. Len(future) - 1 /\ i + 1 \in 1 .. Len(future) - 1
    BY <1>1
  <2> QED
    BY <1>1, <2>1 DEF Descends
<1>3. ASSUME future' # <<>> PROVE Ord(plan', future'[Len(future')].plan)
  <2>1. Len(future') # 0
    <3>1. future' \in Seq(Versions)
      BY <1>n, LastFront
    <3> QED
      BY <1>3, <3>1
  <2>2. Len(future) - 1 \in 1 .. Len(future) - 1 /\ Len(future) \in 1 .. Len(future)
    BY <1>1, <2>1
  <2>3. future[Len(future)].plan \in Plans /\ future[Len(future) - 1].plan \in Plans
    <3>1. Len(future) - 1 \in 1 .. Len(future)
      BY <1>1, <2>2
    <3> QED
      BY <1>n, <2>2, <3>1, StackFacts
  <2>4. Ord(future[Len(future)].plan, future[Len(future) - 1].plan)
    BY <1>1, <2>2 DEF Descends
  <2>5. Ord(plan, future[Len(future) - 1].plan)
    BY <1>a, <1>n, <2>3, <2>4, OrdTransitive
  <2> QED
    BY <1>1, <2>2, <2>4, <2>5
<1>4. Ord(plan, plan')
  BY <1>1, <1>a DEF Ord
<1> QED
  BY <1>2, <1>3, <1>4 DEF Descends

\* An empty stack is in order.
LEMMA EmptyPast ==
  ASSUME past' = <<>>
  PROVE  Ascends'
  BY DEF Ascends

LEMMA EmptyFuture ==
  ASSUME future' = <<>>
  PROVE  Descends'
  BY DEF Descends

LEMMA InitOrdered == Init => Ordered
  BY DEF Init, Ordered, Ascends, Descends

LEMMA NextOrdered == Types /\ Ordered /\ [Next]_vars => Ordered'
<1> SUFFICES ASSUME Types, Ordered, [Next]_vars PROVE Ordered'
  OBVIOUS
<1>n. Ascends /\ Descends
  BY DEF Ordered
<1>1. CASE Approve
  <2>1. past' = Append(past, Now) /\ future' = <<>> /\ plan' = Approved
    BY <1>1 DEF Approve, Commit, Accept
  <2>2. Ord(plan, plan')
    <3>1. plan.version \in Nat /\ Approved.version = plan.version + 1
      BY PlanVersion, PlannerConstants DEF Types, Approved
    <3> QED
      BY <2>1, <3>1 DEF Ord
  <2> QED
    BY <1>n, <2>1, <2>2, PushPast, EmptyFuture DEF Ordered
<1>2. CASE UndoPlan
  <2>1. /\ past # <<>> /\ past' = Front(past) /\ future' = Append(future, Now)
        /\ plan' = Last(past).plan
    BY <1>2 DEF UndoPlan, Accept
  <2>2. Ascends' /\ Ord(plan', plan)
    BY <1>n, <2>1, PopPast
  <2> QED
    BY <1>n, <2>1, <2>2, PushFuture DEF Ordered
<1>3. CASE RedoPlan \/ RedoPlanThrows
  <2>1. /\ future # <<>> /\ future' = Front(future) /\ past' = Append(past, Now)
        /\ (plan' = Last(future).plan \/ plan' = plan)
    BY <1>3 DEF RedoPlan, RedoPlanThrows, Accept, accepted
  <2>2. Descends' /\ Ord(plan, plan')
    BY <1>n, <2>1, PopFuture
  <2> QED
    BY <1>n, <2>1, <2>2, PushPast DEF Ordered
<1>4. CASE Reopen
  BY <1>4, EmptyPast, EmptyFuture DEF Reopen, Ordered
<1>5. ASSUME Next, ~Approve, ~UndoPlan, ~RedoPlan, ~RedoPlanThrows, ~Reopen
      PROVE  UNCHANGED <<plan, past, future>>
  BY <1>5
     DEF Next, PreviewRevision, RequestAdjustment, ApplyEdit, RevertChange, UpdateEventBrief,
         CreateBranch, PreviewTemplateUpdate, DuplicateBranch, RecoverBranch, ArchiveBranch,
         RestoreBranch, RecordBranchDecision, SwitchBranch, Rebase, ResolveConflict,
         SetObjectLock, ReleaseObjectLock, UndoEdit, RedoEdit, accepted, history
<1>6. CASE UNCHANGED vars
  <2>1. UNCHANGED <<plan, past, future>>
    BY <1>6 DEF vars, accepted, history
  <2> QED
    BY <1>n, <2>1 DEF Ordered, Ascends, Descends
<1>7. CASE UNCHANGED <<plan, past, future>>
  BY <1>n, <1>7 DEF Ordered, Ascends, Descends
<1> QED
  BY <1>1, <1>2, <1>3, <1>4, <1>5, <1>6, <1>7

LEMMA ConcatFacts ==
  ASSUME NEW s \in Seq(Versions), NEW t \in Seq(Versions)
  PROVE  /\ Len(s \o t) = Len(s) + Len(t)
         /\ \A k \in 1 .. Len(s) : (s \o t)[k] = s[k]
         /\ \A k \in 1 .. Len(t) : (s \o t)[Len(s) + k] = t[k]
  OBVIOUS

\* The stacks and the present in one line.
LEMMA OrderedAscends == Types /\ Ordered => HistoryAscends
<1> SUFFICES ASSUME Types, Ordered, NEW i \in 1 .. Len(Timeline) - 1
             PROVE  Ord(Timeline[i].plan, Timeline[i + 1].plan)
  BY DEF HistoryAscends, Ord
<1> DEFINE m == Len(past)
           n == Len(future)
           R == Reverse(future)
<1>n. /\ past \in Seq(Versions) /\ future \in Seq(Versions) /\ Now \in Versions /\ Now.plan = plan
      /\ m \in Nat /\ n \in Nat
  BY NowType DEF Types, Stacks, Now
<1>1. R \in Seq(Versions) /\ Len(R) = n /\ \A k \in 1 .. n : R[k] = future[n - k + 1]
  <2>1. R = [k \in 1 .. n |-> future[(n - k) + 1]]
    BY DEF Reverse
  <2>2. \A k \in 1 .. n : (n - k) + 1 \in 1 .. n /\ future[(n - k) + 1] \in Versions
    BY <1>n
  <2> HIDE DEF R, n
  <2> QED
    BY <1>n, <2>1, <2>2
<1> HIDE DEF R
<1>2. /\ Len(Timeline) = m + 1 + n
      /\ \A k \in 1 .. m : Timeline[k] = past[k]
      /\ Timeline[m + 1] = Now
      /\ \A k \in 1 .. n : Timeline[m + 1 + k] = R[k]
  <2>n. m \in Nat /\ m + 1 \in 1 .. m + 1 /\ \A k \in 1 .. m : k \in 1 .. m + 1
    BY <1>n
  <2>1. /\ past \o <<Now>> \in Seq(Versions) /\ Len(past \o <<Now>>) = m + 1
        /\ (past \o <<Now>>)[m + 1] = Now
        /\ \A k \in 1 .. m : (past \o <<Now>>)[k] = past[k]
    BY <1>n
  <2>2. Timeline = (past \o <<Now>>) \o R
    BY DEF Timeline, R
  <2> DEFINE front == past \o <<Now>>
  <2>3. front \in Seq(Versions) /\ Len(front) = m + 1 /\ Timeline = front \o R
    BY <2>1, <2>2
  <2>5. front[m + 1] = Now /\ \A k \in 1 .. m : front[k] = past[k]
    BY <2>1
  <2> HIDE DEF front, m, n
  <2>4. /\ Len(Timeline) = m + 1 + n
        /\ \A k \in 1 .. m + 1 : Timeline[k] = front[k]
        /\ \A k \in 1 .. n : Timeline[m + 1 + k] = R[k]
    <3>1. /\ Len(front \o R) = Len(front) + Len(R)
          /\ \A k \in 1 .. Len(front) : (front \o R)[k] = front[k]
          /\ \A k \in 1 .. Len(R) : (front \o R)[Len(front) + k] = R[k]
      BY <1>1, <2>3, ConcatFacts, Zenon
    <3> QED
      BY <1>1, <2>3, <3>1, Zenon
  <2>6. \A k \in 1 .. m : Timeline[k] = past[k]
    BY <2>n, <2>4, <2>5, Zenon
  <2>7. Timeline[m + 1] = Now
    BY <2>n, <2>4, <2>5, Zenon
  <2> QED
    BY <2>4, <2>6, <2>7, Zenon
<1> HIDE DEF m, n
<1>3. i \in 1 .. m + n
  BY <1>n, <1>2
<1>4. CASE i < m
  <2>1. i \in 1 .. m - 1 /\ i \in 1 .. m /\ i + 1 \in 1 .. m
    BY <1>n, <1>3, <1>4
  <2> QED
    BY <1>2, <2>1 DEF Ordered, Ascends, m
<1>5. CASE i = m
  <2>1. i \in 1 .. m /\ past # <<>>
    BY <1>n, <1>3, <1>5 DEF m
  <2>2. Timeline[i] = past[m] /\ Timeline[i + 1] = Now
    BY <1>2, <1>5, <2>1
  <2> QED
    BY <1>n, <2>1, <2>2 DEF Ordered, Ascends, m
<1>6. CASE i = m + 1
  <2>1. 1 \in 1 .. n /\ i + 1 = m + 1 + 1 /\ n - 1 + 1 = n
    BY <1>n, <1>3, <1>6
  <2>2. Timeline[i] = Now /\ Timeline[i + 1] = future[n]
    BY <1>1, <1>2, <1>6, <2>1
  <2>3. future # <<>>
    BY <1>n, <2>1 DEF n
  <2> QED
    BY <1>n, <2>2, <2>3 DEF Ordered, Descends, n
<1>7. CASE i > m + 1
  <2> DEFINE k == i - (m + 1)
  <2>1. /\ k \in 1 .. n /\ k + 1 \in 1 .. n /\ i = m + 1 + k /\ i + 1 = m + 1 + (k + 1)
        /\ n - k \in 1 .. n - 1 /\ n - (k + 1) + 1 = n - k
    BY <1>n, <1>3, <1>7
  <2> HIDE DEF k
  <2>2. Timeline[i] = future[(n - k) + 1] /\ Timeline[i + 1] = future[n - k]
    BY <1>1, <1>2, <2>1
  <2> QED
    BY <2>1, <2>2 DEF Ordered, Descends, n
<1> QED
  BY <1>n, <1>3, <1>4, <1>5, <1>6, <1>7

\* Undo never goes forward and redo never goes back or to another history's
\* Plan, through approvals, redos that throw and reopening.
THEOREM HistoryAscendsAlways == Spec => []HistoryAscends
<1>1. Init => Ordered
  BY InitOrdered
<1>2. Types /\ Ordered /\ [Next]_vars => Ordered'
  BY NextOrdered
<1>3. Types /\ Ordered => HistoryAscends
  BY OrderedAscends
<1> QED
  BY <1>1, <1>2, <1>3, TypesHold, PTL DEF Spec

-----------------------------------------------------------------------------
(* Locks                                                                   *)

\* Only approve_proposal writes an entry that says so.
LEMMA ApprovesIsApprove ==
  ASSUME Types, [Next]_vars, Approves
  PROVE  Approve
<1>n. Truth
  BY DEF Types
<1>1. ASSUME UNCHANGED accepted PROVE FALSE
  BY <1>1 DEF Approves, accepted
<1>2. ASSUME Briefs PROVE FALSE
  <2>1. PICK b \in Brief : ledger' = Append(ledger, [type |-> "brief", plan |-> None, brief |-> b])
    BY <1>2 DEF Briefs
  <2> QED
    BY <1>n, <2>1, Appended DEF Approves
<1>3. ASSUME Accepts PROVE FALSE
  <2>1. PICK type \in {"undone", "redone"}, p \in Plans, b \in Brief : Accept(type, p, b)
    BY <1>3 DEF Accepts
  <2>2. ledger' = Append(ledger, [type |-> type, plan |-> p, brief |-> b])
    BY <2>1 DEF Accept
  <2> QED
    BY <1>n, <2>2, Appended DEF Approves
<1> QED
  BY <1>1, <1>2, <1>3, TruthSteps

\* The Locks of the moment hold for the Plan that is approved.
Guarded ==
  Approves =>
    \A l \in Lockable : locks[l] = "active" =>
      \/ plan'.objects[l[1]] = plan.objects[l[1]]
      \/ l[2] = "deletion" /\ plan'.objects[l[1]] # Absent
      \/ l[2] = "position" /\ plan'.objects[l[1]] = Absent

LEMMA ApproveGuarded == Types /\ [Next]_vars => Guarded
<1> SUFFICES ASSUME Types, [Next]_vars, Approves, NEW l \in Lockable, locks[l] = "active"
             PROVE  \/ plan'.objects[l[1]] = plan.objects[l[1]]
                    \/ l[2] = "deletion" /\ plan'.objects[l[1]] # Absent
                    \/ l[2] = "position" /\ plan'.objects[l[1]] = Absent
  BY DEF Guarded
<1>1. Approve
  BY ApprovesIsApprove
<1>2. plan \in Plans /\ proposal.changes \in Seq(Change)
  BY ShownParts DEF Types, Truth
<1>3. /\ plan.objects[l[1]] # Absent
      /\ \A c \in ToSet(proposal.changes) : ~LockConflict(plan, c, l)
  BY <1>1 DEF Approve, LocksAllow, LocksBelong
<1>4. Materializes(plan, proposal.changes)
  BY <1>1 DEF Approve, Validates
<1>5. plan'.objects = Materialized(plan.objects, proposal.changes)
  BY <1>1 DEF Approve, Commit, Accept, Approved
<1> QED
  BY <1>2, <1>3, <1>4, <1>5, MaterializedLocked

\* No approval moves an object whose position is locked or removes one whose
\* deletion is locked, whatever the Changes and their number.
THEOREM LocksHoldAlways == Spec => LocksHold
<1>1. Types /\ [Next]_vars => [Guarded]_vars
  BY ApproveGuarded
<1>2. LocksHold <=> [][Guarded]_vars
  BY PTL DEF LocksHold, Guarded
<1> QED
  BY <1>1, <1>2, TypesHold, PTL DEF Spec
=============================================================================
