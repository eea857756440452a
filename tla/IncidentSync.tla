---------------------------- MODULE IncidentSync ----------------------------
(***************************************************************************)
(* Offline operation of one Incident Register: a Studio that executes      *)
(* commands on its own copy and keeps them in an IndexedDB outbox, and the *)
(* worker that applies them to the register in D1.                         *)
(*   browser  src/src/App.tsx (handlers of Incidents and their hydration), *)
(*            src/src/persistence/incident-store.ts and incident-sync.ts,  *)
(*            src/src/domain/incident-command-bus.ts                       *)
(*   worker   src/worker/index.ts (incident-registers, commands:sync) and  *)
(*            src/worker/incident-repository.ts                            *)
(*                                                                         *)
(* A handler of the page is a call; calls run side by side, and what a     *)
(* call does between two awaits is one step.  Each IndexedDB transaction   *)
(* and each statement of the worker is a step.  Commands of other sessions *)
(* go through the same handler and meet this one at the row only: they are *)
(* one step (Elsewhere).                                                   *)
(*                                                                         *)
(* One page has the register open; its clicks pass expectedIncidentRevision *)
(* as its bus has it.  IndexedDB does not fail.                            *)
(***************************************************************************)
EXTENDS IncidentRecord, FiniteSets

CONSTANTS IncidentKey,    \* idempotency keys of the Studio's commands
          OtherKey,       \* and of those of other sessions
          IncidentOf,     \* the Incident and the operation a key stands for
          OpOf,
          Call,           \* handlers of the page that may run side by side
          NoRegister,
          MaxFailures,    \* bound: requests that fail
          MaxAsked,       \* bound: synchronizations the user asks for
          MaxPages        \* bound: times the page is opened

AnyKey   == IncidentKey \cup OtherKey
Record   == [rev : Nat, status : IncidentStatus, acked : BOOLEAN, owner : Owner \cup {NoOwner},
             level : Level]
Register == [rev : Nat, keys : SUBSET AnyKey, incident : [Incident -> Record]]

Op ==      [kind : {"report", "acknowledge", "emergency", "note"}]
      \cup [kind : {"owner"}, arg : Owner]
      \cup [kind : {"handoff"}, from : Owner, arg : Owner]
      \cup [kind : {"escalate"}, arg : Level]
      \cup [kind : {"status"}, arg : IncidentStatus \ {"none"}]

ASSUME SyncConstants ==
  /\ IncidentKey \cap OtherKey = {}
  /\ IncidentOf \in [AnyKey -> Incident] /\ OpOf \in [AnyKey -> Op]
  /\ NoRegister \notin Register
  /\ {MaxFailures, MaxAsked, MaxPages} \subseteq Nat

VARIABLES
  row,                    \* D1: the register, or NoRegister
  handling,               \* the worker's handling of commands:sync, for each call
  copy,                   \* IndexedDB: the stored register, or NoRegister
  outgoing,               \* IndexedDB: the status of each key's entry, "none" without one
  page,                   \* "closed" or "open"
  incidentBus,            \* in memory: the command bus's register, or NoRegister
  state,                  \* incidentSyncState.state
  call,                   \* where the handlers of the page are
  seen,                   \* expectedIncidentRevision of each key's command
  order,                  \* clientSequence of each key's command, 0 without one
  clicked, failures, syncs, pages,              \* bounded counters
  enqueued, discarded, versions                 \* histories

storage   == <<copy, outgoing>>
memory    == <<page, incidentBus, state>>
limits    == <<clicked, failures, syncs, pages>>
histories == <<enqueued, discarded, versions>>

incidentVars == <<row, handling, storage, memory, call, seen, order, limits, histories>>

\* What a key's entry or its answer says; "none" when there is none.
Nothing   == [k \in IncidentKey |-> "none"]

IdleCall  == [pc |-> "idle", then |-> "idle", reg |-> Created, todo |-> {}, batch |-> {},
              status |-> Nothing, outcome |-> "online"]
NoRequest == [pc |-> "none", reg |-> Created, todo |-> {}, acks |-> Nothing]

IncidentInit ==
  /\ row = NoRegister
  /\ handling = [c \in Call |-> NoRequest]
  /\ copy = NoRegister
  /\ outgoing = Nothing
  /\ page = "closed" /\ incidentBus = NoRegister /\ state = "offline"
  /\ call = [c \in Call |-> IdleCall]
  /\ seen = [k \in IncidentKey |-> 0] /\ order = [k \in IncidentKey |-> 0]
  /\ clicked = {} /\ failures = 0 /\ syncs = 0 /\ pages = 0
  /\ enqueued = {} /\ discarded = {} /\ versions = {}

At(c, pc) == call[c].pc = pc
Free(c)   == page = "open" /\ At(c, "idle") /\ handling[c] = NoRequest
Goto(c, pc) == call' = [call EXCEPT ![c].pc = pc]

\* The call saves a register and goes on at `then`.
Save(c, reg, then) ==
  call' = [call EXCEPT ![c].pc = "saveRead", ![c].reg = reg, ![c].then = then]

\* Entries are listed by their clientSequence: the next of a set of keys.
IsNext(k, keys) == k \in keys /\ \A j \in keys : order[k] <= order[j]

Present(k) == outgoing[k] # "none"

CommandAt(k, rev) == [key |-> k, incident |-> IncidentOf[k], rev |-> rev, op |-> OpOf[k]]

\* The command of a key as the outbox keeps it, and as one would give it who sees
\* the Incident as a register has it.
IncidentCommand(k) == CommandAt(k, seen[k])
Informed(k, reg)   == CommandAt(k, reg.incident[IncidentOf[k]].rev)

Stored == IF row = NoRegister THEN Created ELSE row

-----------------------------------------------------------------------------
(* The page: commands                                                      *)

\* bus.execute, with the metadata of the command.
ExecuteCommand(c, k) ==
  /\ incidentBus # NoRegister
  /\ RegisterVerdict(incidentBus, Informed(k, incidentBus)) = "ok"
  /\ incidentBus' = RegisterAfter(incidentBus, Informed(k, incidentBus))
  /\ seen' = [seen EXCEPT ![k] = incidentBus.incident[IncidentOf[k]].rev]
  /\ order' = [order EXCEPT ![k] = 1 + Cardinality({j \in IncidentKey : order[j] > 0})]
  /\ call' = [call EXCEPT ![c].pc = "enqueue", ![c].reg = incidentBus', ![c].todo = {k}]

\* handleIncidentAction, and handleIncidentCreate on a page that has a register:
\* a command the bus refuses changes nothing.
ClickAction(c, k) ==
  /\ Free(c) /\ k \notin clicked
  /\ clicked' = clicked \cup {k}
  /\ ExecuteCommand(c, k)
  /\ UNCHANGED <<row, handling, storage, page, state, failures, syncs, pages, histories>>

\* handleIncidentCreate on a page without one.
ClickFirst(c, k) ==
  /\ Free(c) /\ k \notin clicked /\ incidentBus = NoRegister /\ OpOf[k].kind = "report"
  /\ clicked' = clicked \cup {k}
  /\ call' = [call EXCEPT ![c].pc = "ensure", ![c].todo = {k}]
  /\ UNCHANGED <<row, handling, storage, memory, seen, order, failures, syncs, pages,
                 histories>>

Store(reg) == row' = reg /\ versions' = versions \cup {reg}

\* ensureIncidentRegister: created on the worker, or found there.
Ensure(c) ==
  /\ At(c, "ensure")
  /\ Store(Stored)
  /\ incidentBus' = Stored
  /\ Save(c, Stored, "execute")
  /\ UNCHANGED <<handling, storage, page, state, seen, order, limits, enqueued, discarded>>

Failure == failures < MaxFailures /\ failures' = failures + 1

\* The worker does not answer: the bus creates one, unless it has one by now.
EnsureLocal(c) ==
  LET reg == IF incidentBus = NoRegister THEN Created ELSE incidentBus
  IN  /\ At(c, "ensure") /\ Failure
      /\ incidentBus' = reg
      /\ call' = [call EXCEPT ![c].pc = "saveRead", ![c].reg = reg, ![c].then = "execute",
                              ![c].outcome = "offline"]
      /\ UNCHANGED <<row, handling, storage, page, state, seen, order, clicked, syncs, pages,
                     histories>>

\* The register is saved: the report is executed on the bus.
ExecuteFirst(c, k) ==
  /\ At(c, "execute") /\ k \in call[c].todo
  /\ ExecuteCommand(c, k)
  /\ state' = call[c].outcome
  /\ UNCHANGED <<row, handling, storage, page, limits, histories>>

\* enqueue: putOutboxIfAbsent, with a key and a client sequence that are new.
EnqueueEntry(c, k) ==
  /\ At(c, "enqueue") /\ k \in call[c].todo
  /\ outgoing' = [outgoing EXCEPT ![k] = "pending"]
  /\ enqueued' = enqueued \cup {k}
  /\ Save(c, call[c].reg, "applied")
  /\ UNCHANGED <<row, handling, copy, memory, seen, order, limits, discarded, versions>>

\* applyIncidentCommand is over: handleIncidentSync begins by itself.
Applied(c) ==
  /\ At(c, "applied")
  /\ state' = "syncing"
  /\ call' = [call EXCEPT ![c] = [IdleCall EXCEPT !.pc = "create"]]
  /\ UNCHANGED <<row, handling, storage, page, incidentBus, seen, order, limits, histories>>

\* saveState: a stored register of a higher revision is kept.
SaveRead(c) ==
  /\ At(c, "saveRead")
  /\ Goto(c, IF copy # NoRegister /\ copy.rev > call[c].reg.rev THEN call[c].then ELSE "savePut")
  /\ UNCHANGED <<row, handling, storage, memory, seen, order, limits, histories>>

SavePut(c) ==
  /\ At(c, "savePut")
  /\ copy' = call[c].reg
  /\ Goto(c, call[c].then)
  /\ UNCHANGED <<row, handling, outgoing, memory, seen, order, limits, histories>>

-----------------------------------------------------------------------------
(* The page: synchronizeIncidents                                          *)

\* The user asks for it.
BeginSync(c) ==
  /\ Free(c) /\ incidentBus # NoRegister /\ syncs < MaxAsked
  /\ syncs' = syncs + 1
  /\ state' = "syncing"
  /\ Goto(c, "create")
  /\ UNCHANGED <<row, handling, storage, page, incidentBus, seen, order, clicked, failures, pages,
                 histories>>

\* remote.create
Create(c) ==
  /\ At(c, "create")
  /\ Store(Stored)
  /\ Goto(c, "list")
  /\ UNCHANGED <<handling, storage, memory, seen, order, limits, enqueued, discarded>>

\* listOutbox
List(c) ==
  LET batch == {k \in IncidentKey : Present(k)}
  IN  /\ At(c, "list")
      /\ call' = [call EXCEPT ![c].pc = IF batch = {} THEN "get" ELSE "relist", ![c].todo = batch]
      /\ UNCHANGED <<row, handling, storage, memory, seen, order, limits, histories>>

\* remote.get, when nothing is pending.
Get(c) ==
  /\ At(c, "get") /\ row # NoRegister
  /\ Save(c, row, "finish")
  /\ UNCHANGED <<row, handling, storage, memory, seen, order, limits, histories>>

\* markAttempted reads the entries ...
Relist(c) ==
  /\ At(c, "relist")
  /\ call' = [call EXCEPT ![c].pc = "mark", ![c].batch = call[c].todo,
                          ![c].todo = {k \in @ : Present(k)}, ![c].status = outgoing]
  /\ UNCHANGED <<row, handling, storage, memory, seen, order, limits, histories>>

\* ... and puts them back, each as it was read.
Mark(c, k) ==
  /\ At(c, "mark") /\ IsNext(k, call[c].todo)
  /\ outgoing' = [outgoing EXCEPT ![k] = call[c].status[k]]
  /\ call' = [call EXCEPT ![c].todo = @ \ {k}]
  /\ UNCHANGED <<row, handling, copy, memory, seen, order, limits, histories>>

\* remote.sync, with the commands that were listed first.
Send(c) ==
  /\ At(c, "mark") /\ call[c].todo = {}
  /\ call' = [call EXCEPT ![c] = [IdleCall EXCEPT !.pc = "sent"]]
  /\ handling' = [handling EXCEPT ![c] = [NoRequest EXCEPT !.pc = "read", !.todo = call[c].batch]]
  /\ UNCHANGED <<row, storage, memory, seen, order, limits, histories>>

Removable == {"applied", "already-applied"}
Retained  == {"conflict", "rejected"}

OutcomeOf(acks) == IF \E k \in IncidentKey : acks[k] \in Retained THEN "conflict" ELSE "online"

\* The answer: its register is saved first.
Reply(c) ==
  /\ At(c, "sent") /\ handling[c].pc = "work" /\ handling[c].todo = {}
  /\ handling' = [handling EXCEPT ![c] = NoRequest]
  /\ call' = [call EXCEPT ![c].pc = "saveRead", ![c].then = "entries", ![c].reg = handling[c].reg,
                          ![c].status = handling[c].acks,
                          ![c].outcome = OutcomeOf(handling[c].acks)]
  /\ UNCHANGED <<row, storage, memory, seen, order, limits, histories>>

\* acknowledge: the entries are listed ...
Entries(c) ==
  /\ At(c, "entries")
  /\ call' = [call EXCEPT ![c].pc = "acknowledge",
                          ![c].todo = {k \in IncidentKey : call[c].status[k] # "none" /\ Present(k)}]
  /\ UNCHANGED <<row, handling, storage, memory, seen, order, limits, histories>>

\* Mutant: every acknowledged entry is removed.
AcknowledgeAll(c, k) ==
  /\ At(c, "acknowledge") /\ IsNext(k, call[c].todo)
  /\ outgoing' = [outgoing EXCEPT ![k] = "none"]
  /\ call' = [call EXCEPT ![c].todo = @ \ {k}]
  /\ UNCHANGED <<row, handling, copy, memory, seen, order, limits, histories>>

\* ... and removed, or put back with the status they were answered.
Acknowledge(c, k) ==
  LET status == call[c].status[k]
  IN  /\ At(c, "acknowledge") /\ IsNext(k, call[c].todo)
      /\ outgoing' = [outgoing EXCEPT ![k] = IF status \in Removable THEN "none" ELSE status]
      /\ call' = [call EXCEPT ![c].todo = @ \ {k}]
      /\ UNCHANGED <<row, handling, copy, memory, seen, order, limits, histories>>

\* Mutant: the answered register is kept in IndexedDB only.
FinishSavedOnly(c) ==
  /\ \/ At(c, "finish")
     \/ At(c, "acknowledge") /\ call[c].todo = {}
  /\ state' = call[c].outcome
  /\ call' = [call EXCEPT ![c] = IdleCall]
  /\ UNCHANGED <<row, handling, storage, page, incidentBus, seen, order, limits, histories>>

\* The synchronization is over: the bus takes the answered register.
Finish(c) ==
  /\ \/ At(c, "finish")
     \/ At(c, "acknowledge") /\ call[c].todo = {}
  /\ incidentBus' = call[c].reg
  /\ state' = call[c].outcome
  /\ call' = [call EXCEPT ![c] = IdleCall]
  /\ UNCHANGED <<row, handling, storage, page, seen, order, limits, histories>>

-----------------------------------------------------------------------------
(* The page: handleIncidentDiscardConflicts                                *)

\* discardConflicts lists the outbox ...
BeginDiscard(c) ==
  LET found == {k \in IncidentKey : outgoing[k] \in Retained}
  IN  /\ Free(c) /\ incidentBus # NoRegister /\ found # {}
      /\ call' = [call EXCEPT ![c].pc = "discard", ![c].todo = found]
      /\ UNCHANGED <<row, handling, storage, memory, seen, order, limits, histories>>

\* ... and deletes what was answered with conflict or rejected.
Discard(c, k) ==
  /\ At(c, "discard") /\ IsNext(k, call[c].todo)
  /\ outgoing' = [outgoing EXCEPT ![k] = "none"]
  /\ discarded' = discarded \cup {k}
  /\ call' = [call EXCEPT ![c].todo = @ \ {k}]
  /\ UNCHANGED <<row, handling, copy, memory, seen, order, limits, enqueued, versions>>

\* remote.get, and the bus takes the register before it is saved.
DiscardGet(c) ==
  /\ At(c, "discard") /\ call[c].todo = {} /\ row # NoRegister
  /\ incidentBus' = row
  /\ Save(c, row, "discarded")
  /\ UNCHANGED <<row, handling, storage, page, state, seen, order, limits, histories>>

Discarded(c) ==
  /\ At(c, "discarded")
  /\ state' = call[c].outcome
  /\ call' = [call EXCEPT ![c] = IdleCall]
  /\ UNCHANGED <<row, handling, storage, page, incidentBus, seen, order, limits, histories>>

-----------------------------------------------------------------------------
(* The worker                                                              *)

\* The handler reads the register once.
WorkerReadRow(c) ==
  /\ handling[c].pc = "read" /\ row # NoRegister
  /\ handling' = [handling EXCEPT ![c].pc = "work", ![c].reg = row]
  /\ UNCHANGED <<row, storage, memory, call, seen, order, limits, histories>>

Working(c, k) == handling[c].pc = "work" /\ IsNext(k, handling[c].todo)

\* The verdict on a command, by the register the handler has.
Judged(c, k) == RegisterVerdict(handling[c].reg, IncidentCommand(k))

Answered(c, k, reg, status) ==
  handling' = [handling EXCEPT ![c].reg = reg, ![c].todo = @ \ {k}, ![c].acks[k] = status]

\* Mutant: the UPDATE does not look at the revision.
WorkerApplyBlind(c, k) ==
  LET reg == RegisterAfter(handling[c].reg, IncidentCommand(k))
  IN  /\ Working(c, k) /\ Judged(c, k) = "ok"
      /\ Store(reg)
      /\ Answered(c, k, reg, "applied")
      /\ UNCHANGED <<storage, memory, call, seen, order, limits, enqueued, discarded>>

\* A command the bus accepts is stored when the row has the revision the handler
\* read or wrote last.
WorkerApply(c, k) ==
  LET reg == RegisterAfter(handling[c].reg, IncidentCommand(k))
  IN  /\ Working(c, k) /\ Judged(c, k) = "ok"
      /\ row.rev = handling[c].reg.rev
      /\ Store(reg)
      /\ Answered(c, k, reg, "applied")
      /\ UNCHANGED <<storage, memory, call, seen, order, limits, enqueued, discarded>>

WorkerRepeat(c, k) ==
  /\ Working(c, k) /\ Judged(c, k) = "duplicate"
  /\ Answered(c, k, handling[c].reg, "already-applied")
  /\ UNCHANGED <<row, storage, memory, call, seen, order, limits, histories>>

\* Otherwise it goes on with the register it has.
WorkerReject(c, k) ==
  /\ Working(c, k)
  /\ \/ Judged(c, k) \in Retained /\ Answered(c, k, handling[c].reg, Judged(c, k))
     \/ /\ Judged(c, k) = "ok" /\ row.rev # handling[c].reg.rev
        /\ Answered(c, k, handling[c].reg, "conflict")
  /\ UNCHANGED <<row, storage, memory, call, seen, order, limits, histories>>

\* Another session's command.
Elsewhere(k) ==
  /\ row # NoRegister
  /\ RegisterVerdict(row, Informed(k, row)) = "ok"
  /\ Store(RegisterAfter(row, Informed(k, row)))
  /\ UNCHANGED <<handling, storage, memory, call, seen, order, limits, enqueued, discarded>>

-----------------------------------------------------------------------------
(* Failures and reloads                                                    *)

Offline(c) ==
  /\ state' = "offline"
  /\ call' = [call EXCEPT ![c] = IdleCall]

AtRemote(c) ==
  \/ call[c].pc \in {"create", "get"}
  \/ At(c, "discard") /\ call[c].todo = {}

\* A request or its answer is lost, or there is no register to get.
Fail(c) ==
  /\ AtRemote(c)
  /\ \/ Failure
     \/ ~At(c, "create") /\ row = NoRegister /\ UNCHANGED failures
  /\ Offline(c)
  /\ \/ UNCHANGED <<row, versions>>
     \/ At(c, "create") /\ Store(Stored)
  /\ UNCHANGED <<handling, storage, page, incidentBus, seen, order, clicked, syncs, pages, enqueued,
                 discarded>>

\* The answer of commands:sync is lost; the worker goes on, or dies.
Lose(c) ==
  /\ At(c, "sent") /\ Failure
  /\ Offline(c)
  /\ \/ UNCHANGED handling
     \/ handling' = [handling EXCEPT ![c] = NoRequest]
  /\ UNCHANGED <<row, storage, page, incidentBus, seen, order, clicked, syncs, pages, histories>>

NotFound(c) ==
  /\ handling[c].pc = "read" /\ row = NoRegister
  /\ handling' = [handling EXCEPT ![c] = NoRequest]
  /\ IF At(c, "sent") THEN Offline(c) ELSE UNCHANGED <<state, call>>
  /\ UNCHANGED <<row, storage, page, incidentBus, seen, order, limits, histories>>

\* An answer that finds nobody.
Drop(c) ==
  /\ handling[c].pc = "work" /\ handling[c].todo = {} /\ ~At(c, "sent")
  /\ handling' = [handling EXCEPT ![c] = NoRequest]
  /\ UNCHANGED <<row, storage, memory, call, seen, order, limits, histories>>

Close ==
  /\ page = "open" /\ pages < MaxPages
  /\ page' = "closed" /\ incidentBus' = NoRegister /\ state' = "offline"
  /\ call' = [c \in Call |-> IdleCall]
  /\ UNCHANGED <<row, handling, storage, seen, order, limits, histories>>

\* hydrate, and a synchronization when there is a register.
Open(c) ==
  /\ page = "closed" /\ pages < MaxPages /\ handling[c] = NoRequest
  /\ page' = "open" /\ pages' = pages + 1
  /\ incidentBus' = copy
  /\ IF copy = NoRegister THEN UNCHANGED <<state, call>>
     ELSE /\ state' = IF \E k \in IncidentKey : Present(k) THEN "offline" ELSE "syncing"
          /\ Goto(c, "list")
  /\ UNCHANGED <<row, handling, storage, seen, order, clicked, failures, syncs, histories>>

-----------------------------------------------------------------------------
PageNext(c) ==
  \/ \E k \in IncidentKey :
       \/ ClickAction(c, k) \/ ClickFirst(c, k) \/ ExecuteFirst(c, k) \/ EnqueueEntry(c, k)
       \/ Mark(c, k) \/ Acknowledge(c, k) \/ Discard(c, k)
  \/ Ensure(c) \/ EnsureLocal(c) \/ SaveRead(c) \/ SavePut(c) \/ Applied(c)
  \/ BeginSync(c) \/ Create(c) \/ List(c) \/ Get(c) \/ Relist(c) \/ Send(c)
  \/ Reply(c) \/ Entries(c) \/ Finish(c)
  \/ BeginDiscard(c) \/ DiscardGet(c) \/ Discarded(c)
  \/ Fail(c) \/ Lose(c) \/ Open(c)

IncidentWorkerNext(c) ==
  \/ \E k \in IncidentKey : WorkerApply(c, k) \/ WorkerRepeat(c, k) \/ WorkerReject(c, k)
  \/ WorkerReadRow(c) \/ NotFound(c) \/ Drop(c)

IncidentNext ==
  \/ \E c \in Call : PageNext(c) \/ IncidentWorkerNext(c)
  \/ \E k \in OtherKey : Elsewhere(k)
  \/ Close

IncidentSpec == IncidentInit /\ [][IncidentNext]_incidentVars
-----------------------------------------------------------------------------
(* Properties                                                              *)

\* The worker's register is one that takes commands one at a time, each once and
\* on the Incident its author saw, however requests interleave and repeat.
Ledger == INSTANCE IncidentLedger WITH Key <- AnyKey, register <- Stored
ImplementsLedger == Ledger!Spec

\* docs/event-day-incidents.md: "Resolve only after acknowledgement and ownership":
\* whoever resolved it, and however often it changed hands or was reopened since.
ResolvedIsAccounted ==
  \A i \in Incident :
    LET in == Stored.incident[i]
    IN  in.status \in {"resolved", "closed"} => in.acked /\ in.owner # NoOwner

\* docs/event-day-incidents.md: "Stale Incident revisions and conflicting commands
\* remain in recovery state for human review instead of being discarded": a
\* command that reached the outbox is there, was applied, or was discarded by
\* the user.
NoEntryLost == \A k \in enqueued : Present(k) \/ k \in Stored.keys \cup discarded

\* A page that has nothing to do, says online and has nothing to send.
Settled ==
  /\ page = "open" /\ state = "online"
  /\ \A c \in Call : At(c, "idle")
  /\ \A k \in IncidentKey : ~Present(k)

\* docs/persistence-and-recovery.md: "D1 is authoritative when reachable": such a
\* page shows a register that the worker stored, whatever was refused or
\* discarded before.
OnlineWasStored == Settled => incidentBus \in versions
=============================================================================
