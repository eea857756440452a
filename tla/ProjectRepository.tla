-------------------------- MODULE ProjectRepository --------------------------
(***************************************************************************)
(* The worker's storage of one Project record: concurrent PUT requests     *)
(* (src/worker/index.ts and put of src/worker/project-repository.ts) and   *)
(* the deletion, recovery and purge of the record                          *)
(* (src/worker/data-protection-repository.ts), on the D1 tables projects   *)
(* and project_states.                                                     *)
(*                                                                         *)
(* Each statement or batch the code awaits is a step; a D1 batch is one    *)
(* transaction.  A request that fails after any step stands for a D1 error *)
(* and for a worker that died: the client learns nothing.                  *)
(*                                                                         *)
(* A snapshot is named by the request that carried it.  A record is        *)
(* identified by <<gen, rev>>: its revision, and how many times the        *)
(* Project had been purged before, which the code does not keep.           *)
(*                                                                         *)
(* Left out: authorization, the shape of the payload, notifications.  A    *)
(* PUT carries deletedAt = null, as every client of the repository does.   *)
(***************************************************************************)
EXTENDS Naturals, FiniteSets

CONSTANTS Request,         \* PUT requests, each with a snapshot of its own
          NoRequest,       \* the writer of an absent record
          Lifecycle,       \* the author of deletions and recoveries
          MaxLifecycle     \* bound: deletions, recoveries and purges

ASSUME RepositoryConstants ==
  /\ NoRequest \notin Request
  /\ Lifecycle \notin Request
  /\ MaxLifecycle \in Nat

VARIABLES
  row,        \* the row of projects: gen, revision (0: no row), token, life
  state,      \* snapshot_json of project_states
  commits,    \* every version of the record there has been
  request,    \* the handlers' local state
  events,     \* project_collaboration_events: the records announced
  lifecycle   \* lifecycle operations so far (bound)

vars == <<row, state, commits, request, events, lifecycle>>

Record  == [gen : Nat, rev : Nat]
Absent  == [gen |-> 0, rev |-> 0]
Current == [gen |-> row.gen, rev |-> row.revision]
Exists  == row.revision > 0
Live    == Exists /\ row.life = "live"          \* what get finds

Idle == [pc |-> "idle", kind |-> "update", basis |-> Absent, saved |-> Absent]

Init ==
  /\ row       = [gen |-> 0, revision |-> 0, token |-> NoRequest, life |-> "live"]
  /\ state     = NoRequest
  /\ commits   = {}
  /\ request   = [q \in Request |-> Idle]
  /\ events    = {}
  /\ lifecycle = 0

Commit(by, basis) ==
  commits' = commits \cup
    {[gen |-> row.gen, rev |-> row.revision + 1, by |-> by, basis |-> basis]}

At(q, pc) == request[q].pc = pc

Goto(q, pc) == request' = [request EXCEPT ![q].pc = pc]

-----------------------------------------------------------------------------
(* PUT /api/projects/:id                                                   *)

\* A creation: refused with 409 when get finds the Project.
ArriveCreate(q) ==
  /\ At(q, "idle")
  /\ request' = [request EXCEPT ![q] =
       [Idle EXCEPT !.kind = "create", !.pc = IF Live THEN "exists" ELSE "select"]]
  /\ UNCHANGED <<row, state, commits, events, lifecycle>>

\* An update based on a record its client was served some time ago: refused
\* with 412 when get finds no Project.
ArriveUpdate(q, basis) ==
  /\ At(q, "idle")
  /\ request' = [request EXCEPT ![q] =
       [Idle EXCEPT !.basis = basis, !.pc = IF Live THEN "select" ELSE "stale"]]
  /\ UNCHANGED <<row, state, commits, events, lifecycle>>

\* put: SELECT the revision and compare.
Select(q) ==
  /\ At(q, "select")
  /\ Goto(q, IF row.revision = request[q].basis.rev THEN "batch" ELSE "stale")
  /\ UNCHANGED <<row, state, commits, events, lifecycle>>

\* put, createOnly: the two INSERTs, or the primary key they violate.
Insert(q) ==
  /\ At(q, "batch")
  /\ request[q].kind = "create"
  /\ IF Exists
     THEN /\ Goto(q, IF Live THEN "stale" ELSE "failed")
          /\ UNCHANGED <<row, state, commits>>
     ELSE /\ Goto(q, "get")
          /\ row' = [row EXCEPT !.revision = 1, !.token = q, !.life = "live"]
          /\ state' = q
          /\ Commit(q, [gen |-> row.gen, rev |-> 0])
  /\ UNCHANGED <<events, lifecycle>>

\* Mutant: the UPDATE without its revision guard.
RowMatchesAnyRevision(q) == Exists

\* UPDATE projects ... WHERE revision = ?
RowMatches(q) == Exists /\ row.revision = request[q].basis.rev

UpdatedRow(q) ==
  IF RowMatches(q)
  THEN [row EXCEPT !.revision = @ + 1, !.token = q, !.life = "live"]
  ELSE row

\* Mutant: the second UPDATE without its guard on the write token.
UpdatedStateUnguarded(q, r) == q

\* UPDATE project_states ... WHERE EXISTS (... write_token = ?)
UpdatedState(q, r) == IF r.revision > 0 /\ r.token = q THEN q ELSE state

\* put: the two UPDATEs.
Update(q) ==
  /\ At(q, "batch")
  /\ request[q].kind = "update"
  /\ row' = UpdatedRow(q)
  /\ state' = UpdatedState(q, row')
  /\ IF RowMatches(q) THEN Commit(q, request[q].basis) ELSE UNCHANGED commits
  /\ Goto(q, "receipt")
  /\ UNCHANGED <<events, lifecycle>>

\* Mutant: put answers without looking at the receipt.
ReceiptUnread(q) ==
  /\ At(q, "receipt")
  /\ Goto(q, "get")
  /\ UNCHANGED <<row, state, commits, events, lifecycle>>

\* put: SELECT revision, write_token.
Receipt(q) ==
  /\ At(q, "receipt")
  /\ Goto(q, IF Exists /\ row.token = q /\ row.revision = request[q].basis.rev + 1
             THEN "get" ELSE "stale")
  /\ UNCHANGED <<row, state, commits, events, lifecycle>>

\* put: the record to answer with is read once more.
Get(q) ==
  /\ At(q, "get")
  /\ request' = [request EXCEPT ![q].pc = IF Live THEN "announce" ELSE "failed",
                                ![q].saved = IF Live THEN Current ELSE @]
  /\ UNCHANGED <<row, state, commits, events, lifecycle>>

\* Mutant: the events carry the revision the writer started from.
AnnounceBasis(q) ==
  /\ At(q, "announce")
  /\ events' = events \cup {request[q].basis}
  /\ Goto(q, "saved")
  /\ UNCHANGED <<row, state, commits, lifecycle>>

\* The handler appends the collaboration events and answers with the record.
Announce(q) ==
  /\ At(q, "announce")
  /\ events' = events \cup {request[q].saved}
  /\ Goto(q, "saved")
  /\ UNCHANGED <<row, state, commits, lifecycle>>

Working == {"select", "batch", "receipt", "get", "announce"}
Outcome == {"exists", "stale", "failed", "saved"}

Fail(q) ==
  /\ request[q].pc \in Working
  /\ Goto(q, "failed")
  /\ UNCHANGED <<row, state, commits, events, lifecycle>>

-----------------------------------------------------------------------------
(* Data protection                                                         *)

LifecycleStep == lifecycle < MaxLifecycle /\ lifecycle' = lifecycle + 1

\* requestProjectDeletion: the UPDATE repeats every condition of the SELECT.
Delete(basis) ==
  /\ LifecycleStep
  /\ Live
  /\ row.revision = basis.rev
  /\ row' = [row EXCEPT !.revision = @ + 1, !.life = "deleted"]
  /\ Commit(Lifecycle, basis)
  /\ UNCHANGED <<state, request, events>>

\* recoverProject
Recover ==
  /\ LifecycleStep
  /\ Exists /\ row.life = "deleted"
  /\ row' = [row EXCEPT !.revision = @ + 1, !.life = "live"]
  /\ Commit(Lifecycle, Current)
  /\ UNCHANGED <<state, request, events>>

\* purgeProject and sweepRetention: the deletion cascades.
Purge ==
  /\ LifecycleStep
  /\ Exists /\ row.life = "deleted"
  /\ row' = [gen |-> row.gen + 1, revision |-> 0, token |-> NoRequest, life |-> "live"]
  /\ state' = NoRequest
  /\ events' = {}
  /\ UNCHANGED <<commits, request>>

-----------------------------------------------------------------------------
\* Records clients have been served.
Served == {[gen |-> c.gen, rev |-> c.rev] : c \in commits}

PutNext(q) ==
  \/ ArriveCreate(q)
  \/ \E basis \in Served : ArriveUpdate(q, basis)
  \/ Select(q)
  \/ Insert(q)
  \/ Update(q)
  \/ Receipt(q)
  \/ Get(q)
  \/ Announce(q)
  \/ Fail(q)

LifecycleNext ==
  \/ \E basis \in Served : Delete(basis)
  \/ Recover
  \/ Purge

Next == (\E q \in Request : PutNext(q)) \/ LifecycleNext

Spec == Init /\ [][Next]_vars
-----------------------------------------------------------------------------
(* Properties                                                              *)

Phase        == {"idle"} \cup Working \cup Outcome
RequestState == [pc : Phase, kind : {"create", "update"}, basis : Record, saved : Record]
Row          == [gen : Nat, revision : Nat, token : Request \cup {NoRequest},
                 life : {"live", "deleted"}]

CommitRecord == [gen : Nat, rev : Nat, by : Request \cup {Lifecycle}, basis : Record]

\* The values of the variables.
TypeOK ==
  /\ row \in Row
  /\ state \in Request \cup {NoRequest}
  /\ commits \in SUBSET CommitRecord
  /\ request \in [Request -> RequestState]
  /\ events \in SUBSET Record
  /\ lifecycle \in Nat

\* Compare-and-swap over the separate SELECT, batch and receipt of put: every
\* version is the successor of the one its author had seen, and no two
\* authors ever replaced the same version.
NoLostUpdate ==
  /\ \A c \in commits : c.rev = c.basis.rev + 1
  /\ \A c, d \in commits : c.gen = d.gen /\ c.rev = d.rev => c = d

\* A losing writer whose metadata UPDATE found another revision does not
\* replace project_states either: the two tables hold the same writer's data.
StateIsWinners == Exists => state = row.token

Committed(q) == {c \in commits : c.by = q}

\* Whatever happens to the record while the handler is still reading its
\* answer, a request that is answered "saved" has been announced to the
\* collaborators, by an event that leads them to its version or a later one.
SavedIsAnnounced ==
  \A q \in Request : \A c \in Committed(q) :
    At(q, "saved") /\ c.gen = row.gen =>
      \E e \in events : e.gen = c.gen /\ e.rev >= c.rev

\* The repository is the register of ProjectRegister.
Register == INSTANCE ProjectRegister WITH
  Writer       <- Request,
  NoWriter     <- NoRequest,
  version      <- row.revision,
  value        <- state,
  effective    <- {q \in Request : Committed(q) # {}},
  acknowledged <- {q \in Request : At(q, "saved")}

\* put's statements take effect at once, and only effective ones are
\* acknowledged.
ImplementsRegister == Register!RegisterSpec
=============================================================================
