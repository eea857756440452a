----------------------------- MODULE RunbookSync -----------------------------
(***************************************************************************)
(* Offline operation of one Event Day Runbook: browsers ("devices") that   *)
(* queue task transitions in an IndexedDB outbox, and the worker that      *)
(* applies them to D1.                                                     *)
(*   browser  src/src/App.tsx (handleRunbookTransition, handleRunbookSync, *)
(*            hydration), src/src/persistence/runbook-store.ts and         *)
(*            runbook-sync.ts, src/src/domain/runbook-command-bus.ts       *)
(*   worker   src/worker/index.ts (transitions:sync) and                   *)
(*            src/worker/runbook-repository.ts with the triggers and       *)
(*            unique indexes of db/migrations/0008_event_day_runbooks.sql  *)
(*                                                                         *)
(* What runs between two awaits is a step here, except that the five       *)
(* SELECTs of getRunbook are one step, and so are the transactions by      *)
(* which a reply goes into the outbox and the copy.  A request that is     *)
(* never scheduled again is a worker that died; a reply that finds its     *)
(* browser gone is lost. The creation of the Runbook on the worker         *)
(* (idempotent, returns the stored Runbook) is taken as done.              *)
(***************************************************************************)
EXTENDS RunbookTasks, FiniteSets, Sequences

CONSTANTS Device,        \* browsers that have the project open
          BatchLimit,    \* the most commands the worker takes in a request
          MaxCommands,   \* bound: clicks of each device that queue a command
          MaxBlocked,    \* bound: clicks of each device the preview refuses
          MaxSyncs,      \* bound: synchronizations each device sends
          MaxReloads     \* bound: page reloads of each device

ASSUME SyncBounds ==
  /\ BatchLimit \in Nat \ {0}
  /\ MaxCommands \in [Device -> Nat] /\ MaxBlocked \in [Device -> Nat]
  /\ MaxSyncs \in [Device -> Nat] /\ MaxReloads \in [Device -> Nat]

VARIABLES
  server,    \* D1: the Runbook's tasks, receipts and sequence
  log,       \* D1: transitions and ledger, one entry per accepted command
  request,   \* the worker's invocations of transitions:sync
  outbox,    \* IndexedDB outbox of each device
  cache,     \* IndexedDB copy of the Runbook of each device
  bus,       \* in memory: the command bus's Runbook
  nextSeq,   \* in memory: runbookClientSequence
  queued,    \* in memory: commands enqueued whose execute has not run yet
  sync,      \* in memory: where handleRunbookSync is
  issued,    \* commands ever enqueued, per device (idempotency keys)
  blocked, reloads   \* bounded counters

deviceVars == <<outbox, cache, bus, nextSeq, queued, sync>>
bounds     == <<issued, blocked, reloads>>
vars       == <<server, log, request, deviceVars, bounds>>

RequestId == UNION {{d} \X (1..MaxSyncs[d]) : d \in Device}

NewRequest(pc, todo) == [pc |-> pc, todo |-> todo, view |-> Frozen, seen |-> 0, acks |-> {}]
Idle == [pc |-> "idle", n |-> 0, base |-> Frozen]

Init ==
  /\ server  = Frozen
  /\ log     = <<>>
  /\ request = [r \in RequestId |-> NewRequest("none", <<>>)]
  /\ outbox  = [d \in Device |-> {}]
  /\ cache   = [d \in Device |-> Frozen]
  /\ bus     = [d \in Device |-> Frozen]
  /\ nextSeq = [d \in Device |-> 0]
  /\ queued  = [d \in Device |-> {}]
  /\ sync    = [d \in Device |-> Idle]
  /\ issued  = [d \in Device |-> {}]
  /\ blocked = [d \in Device |-> 0]
  /\ reloads = [d \in Device |-> 0]

-----------------------------------------------------------------------------
(* The browser: one click                                                  *)

\* The command a click builds.  Its client id is `studio-${projectId}`, the
\* same on every device, so the model leaves it out and compares cseq alone.
Click(d, t, to) ==
  [key  |-> <<d, Cardinality(issued[d]) + 1>>, task |-> t,
   rev  |-> bus[d].rev[t], to |-> to, cseq |-> nextSeq[d] + 1]

\* saveRunbook: a cached Runbook with a higher revision is kept.
Saved(cached, rb) == IF cached.seq > rb.seq THEN cached ELSE rb

\* Preview passes and the command is enqueued (putOutboxIfAbsent).
Enqueue(d, t, to) ==
  LET cmd == Click(d, t, to)
  IN  /\ Cardinality(issued[d]) < MaxCommands[d]
      /\ Verdict(bus[d], cmd) = "ok"
      /\ \A e \in outbox[d] : e.cmd.cseq # cmd.cseq
      /\ nextSeq' = [nextSeq EXCEPT ![d] = @ + 1]
      /\ outbox'  = [outbox EXCEPT ![d] = @ \cup {[cmd |-> cmd, state |-> "pending"]}]
      /\ queued'  = [queued EXCEPT ![d] = @ \cup {cmd}]
      /\ issued'  = [issued EXCEPT ![d] = @ \cup {cmd}]
      /\ UNCHANGED <<server, log, request, cache, bus, sync, blocked, reloads>>

\* Preview throws: the sequence has been taken already (++ comes first).
Blocked(d, t, to) ==
  /\ blocked[d] < MaxBlocked[d]
  /\ Verdict(bus[d], Click(d, t, to)) # "ok"
  /\ nextSeq' = [nextSeq EXCEPT ![d] = @ + 1]
  /\ blocked' = [blocked EXCEPT ![d] = @ + 1]
  /\ UNCHANGED <<server, log, request, outbox, cache, bus, queued, sync,
                 issued, reloads>>

\* The enqueue resolved: execute on the bus, which may have been hydrated or
\* advanced meanwhile; a command that no longer applies is only reported.
Execute(d, cmd) ==
  /\ cmd \in queued[d]
  /\ queued' = [queued EXCEPT ![d] = @ \ {cmd}]
  /\ IF Verdict(bus[d], cmd) = "ok"
     THEN /\ bus'   = [bus EXCEPT ![d] = After(@, cmd)]
          /\ cache' = [cache EXCEPT ![d] = Saved(@, After(bus[d], cmd))]
     ELSE UNCHANGED <<bus, cache>>
  /\ UNCHANGED <<server, log, request, outbox, nextSeq, sync, bounds>>

\* The client sequence a reload resumes from: the highest one in the outbox.
Resume(d) ==
  LET used == {e.cmd.cseq : e \in outbox[d]}
  IN  {m \in used \cup {0} : \A x \in used : x <= m}

\* The page is closed at any moment and opened again (hydrateProject).
Reload(d) ==
  /\ reloads[d] < MaxReloads[d]
  /\ bus'     = [bus EXCEPT ![d] = cache[d]]
  /\ \E m \in Resume(d) : nextSeq' = [nextSeq EXCEPT ![d] = m]
  /\ queued'  = [queued EXCEPT ![d] = {}]
  /\ sync'    = [sync EXCEPT ![d] = Idle]
  /\ reloads' = [reloads EXCEPT ![d] = @ + 1]
  /\ UNCHANGED <<server, log, request, outbox, cache, issued, blocked>>

-----------------------------------------------------------------------------
(* The browser: synchronizeRunbook                                         *)

SyncsOf(d) == Cardinality({n \in 1..MaxSyncs[d] : request[<<d, n>>].pc # "none"})

\* remote.create answered with the stored Runbook.
SyncCreate(d) ==
  /\ sync[d].pc = "idle"
  /\ SyncsOf(d) < MaxSyncs[d]
  /\ sync' = [sync EXCEPT ![d] = [pc |-> "created", n |-> 0, base |-> server]]
  /\ UNCHANGED <<server, log, request, outbox, cache, bus, nextSeq, queued, bounds>>

\* What acknowledge and then hydrate do with the authoritative Runbook.
Adopt(d, rb) ==
  /\ cache' = [cache EXCEPT ![d] = Saved(@, rb)]
  /\ bus'   = [bus EXCEPT ![d] = rb]
  /\ sync'  = [sync EXCEPT ![d] = Idle]

\* Nothing to send: the created Runbook is the authoritative one.
SyncNothing(d) ==
  /\ sync[d].pc = "created"
  /\ outbox[d] = {}
  /\ Adopt(d, sync[d].base)
  /\ UNCHANGED <<server, log, request, outbox, nextSeq, queued, bounds>>

\* The outbox in client order.
InClientOrder(cmds) ==
  {s \in [1..Cardinality(cmds) -> cmds] :
    \A i, j \in 1..Cardinality(cmds) : i < j => s[i].cseq < s[j].cseq}

\* listOutbox and sync: every entry is sent, whatever its syncStatus.
SyncSend(d) ==
  LET n    == SyncsOf(d) + 1
      cmds == {e.cmd : e \in outbox[d]}
  IN  /\ sync[d].pc = "created"
      /\ cmds # {}
      /\ Cardinality(cmds) <= BatchLimit /\ n <= MaxSyncs[d]
      /\ \E todo \in InClientOrder(cmds) :
           request' = [request EXCEPT ![<<d, n>>] = NewRequest("read", todo)]
      /\ sync' = [sync EXCEPT ![d] = [pc |-> "waiting", n |-> n, base |-> Frozen]]
      /\ UNCHANGED <<server, log, outbox, cache, bus, nextSeq, queued, bounds>>

\* Any failure of the exchange, RUNBOOK_SYNC_INVALID for an outbox larger
\* than the worker takes included: the outbox stays as it is.
SyncFail(d) ==
  /\ sync[d].pc # "idle"
  /\ sync' = [sync EXCEPT ![d] = Idle]
  /\ UNCHANGED <<server, log, request, outbox, cache, bus, nextSeq, queued, bounds>>

\* Mutant: an acknowledged entry goes, whatever became of it.
AcknowledgedGoes(entries, acks) ==
  {e \in entries : \A a \in acks : a.key # e.cmd.key}

\* acknowledge: what each acknowledgement does to the entry it names.
Acknowledged(entries, acks) ==
  {e \in entries : \A a \in acks : a.key # e.cmd.key}
  \cup
  {x \in [cmd : {e.cmd : e \in entries}, state : {"conflict", "rejected"}] :
     \E a \in acks : a.key = x.cmd.key /\ a.status = x.state}

\* The reply arrives while the device still waits for it: acknowledge's
\* transactions, entry by entry, and the save of the copy, in one step.
SyncReply(d) ==
  LET r == <<d, sync[d].n>>
  IN  /\ sync[d].pc = "waiting"
      /\ request[r].pc = "reply"
      /\ outbox'  = [outbox EXCEPT ![d] = Acknowledged(@, request[r].acks)]
      /\ Adopt(d, request[r].view)
      /\ request' = [request EXCEPT ![r] = NewRequest("done", <<>>)]
      /\ UNCHANGED <<server, log, nextSeq, queued, bounds>>

-----------------------------------------------------------------------------
(* The worker: transitions:sync, one command after the other               *)

\* The command the loop is at.
Command(r) == Head(request[r].todo)

\* The command at the head is answered; the loop goes on at pc.
Answer(r, status, pc) ==
  LET q == request[r]
  IN  [request EXCEPT ![r] =
         [pc   |-> IF pc = "check" /\ Len(q.todo) = 1 THEN "reply" ELSE pc,
          todo |-> Tail(q.todo), view |-> q.view, seen |-> q.seen,
          acks |-> q.acks \cup {[key |-> Command(r).key, status |-> status]}]]

\* getRunbook, at the start and after every command that was applied: its five
\* SELECTs in one step.
WorkerRead(r) ==
  /\ request[r].pc = "read"
  /\ request' = [request EXCEPT ![r].view = server,
                                ![r].pc = IF request[r].todo = <<>> THEN "reply" ELSE "check"]
  /\ UNCHANGED <<server, log, deviceVars, bounds>>

\* The command is refused on the Runbook the handler holds.
WorkerRefuse(r) ==
  LET v == Verdict(request[r].view, Command(r))
  IN  /\ request[r].pc = "check"
      /\ v \in {"conflict", "rejected"}
      /\ request' = Answer(r, v, "check")
      /\ UNCHANGED <<server, log, deviceVars, bounds>>

\* applyTransitionBatch reads the Runbook again and finds the receipt.
WorkerReplay(r) ==
  LET v == Verdict(request[r].view, Command(r))
  IN  /\ request[r].pc = "check"
      /\ v \in {"ok", "duplicate"}
      /\ Command(r).key \in server.keys
      /\ request' = Answer(r, IF v = "ok" THEN "applied" ELSE "already-applied", "read")
      /\ UNCHANGED <<server, log, deviceVars, bounds>>

\* The task is at the revision and in the status the caller expects.
TaskUnchanged(r) ==
  /\ server.rev[Command(r).task] = Command(r).rev
  /\ server.status[Command(r).task] = request[r].view.status[Command(r).task]

\* applyTransitionBatch reads the Runbook again: either the task changed, or
\* the statements are prepared with the sequence it saw.
WorkerPrepare(r) ==
  /\ request[r].pc = "check"
  /\ Verdict(request[r].view, Command(r)) = "ok"
  /\ Command(r).key \notin server.keys
  /\ request' = IF TaskUnchanged(r)
                THEN [request EXCEPT ![r].seen = server.seq, ![r].pc = "commit"]
                ELSE Answer(r, "conflict", "check")
  /\ UNCHANGED <<server, log, deviceVars, bounds>>

\* Mutant: the unique indexes without the triggers.
CommitWithoutTriggers(r) ==
  \A i \in 1..Len(log) : /\ log[i].cmd.cseq # Command(r).cseq
                         /\ log[i].cmd.key # Command(r).key

\* What the triggers and unique indexes of the transition insert demand.
CommitAllowed(r) ==
  /\ TaskUnchanged(r)
  /\ server.seq = request[r].seen
  /\ \A i \in 1..Len(log) : /\ log[i].cmd.cseq # Command(r).cseq
                            /\ log[i].cmd.key # Command(r).key

\* Mutant: a batch that failed is answered as if it had been applied.
WorkerCommitUnchecked(r) ==
  /\ request[r].pc = "commit"
  /\ request' = Answer(r, "applied", "read")
  /\ IF CommitAllowed(r)
     THEN /\ server' = After(server, Command(r))
          /\ log'    = Append(log, [cmd  |-> Command(r),
                                    from |-> request[r].view.status[Command(r).task]])
     ELSE UNCHANGED <<server, log>>
  /\ UNCHANGED <<deviceVars, bounds>>

\* The D1 batch: transition, ledger entry, task, receipt and sequence
\* together, or the conflict the failed statement stands for.
WorkerCommit(r) ==
  /\ request[r].pc = "commit"
  /\ IF CommitAllowed(r)
     THEN /\ server'  = After(server, Command(r))
          /\ log'     = Append(log, [cmd  |-> Command(r),
                                     from |-> request[r].view.status[Command(r).task]])
          /\ request' = Answer(r, "applied", "read")
     ELSE /\ request' = Answer(r, "conflict", "check")
          /\ UNCHANGED <<server, log>>
  /\ UNCHANGED <<deviceVars, bounds>>

-----------------------------------------------------------------------------
DeviceNext(d) ==
  \/ \E t \in Task, to \in Status : Enqueue(d, t, to) \/ Blocked(d, t, to)
  \/ \E cmd \in queued[d] : Execute(d, cmd)
  \/ Reload(d)
  \/ SyncCreate(d) \/ SyncNothing(d) \/ SyncSend(d) \/ SyncFail(d) \/ SyncReply(d)

WorkerNext(r) ==
  WorkerRead(r) \/ WorkerRefuse(r) \/ WorkerReplay(r) \/ WorkerPrepare(r) \/ WorkerCommit(r)

Next == (\E d \in Device : DeviceNext(d)) \/ (\E r \in RequestId : WorkerNext(r))

Spec == Init /\ [][Next]_vars
-----------------------------------------------------------------------------
(* Properties                                                              *)

Key       == Device \X Nat
CommandOf == [key : Key, task : Task, rev : Nat, to : Status, cseq : Nat]
Runbook   == [status : [Task -> Status], rev : [Task -> Nat], seq : Nat, keys : SUBSET Key]
Ack       == [key : Key, status : {"applied", "already-applied", "conflict", "rejected"}]

IsRunbook(rb) ==
  /\ rb.status \in [Task -> Status] /\ rb.rev \in [Task -> Nat]
  /\ rb.seq \in Nat /\ rb.keys \subseteq Key

\* The values of the variables.
TypeOK ==
  /\ IsRunbook(server)
  /\ \A i \in 1..Len(log) : log[i].cmd \in CommandOf /\ log[i].from \in Status
  /\ \A r \in RequestId :
       /\ request[r].pc \in {"none", "read", "check", "commit", "reply", "done"}
       /\ \A i \in 1..Len(request[r].todo) : request[r].todo[i] \in CommandOf
       /\ IsRunbook(request[r].view) /\ request[r].seen \in Nat
       /\ request[r].acks \subseteq Ack
  /\ \A d \in Device :
       /\ \A e \in outbox[d] : /\ e.cmd \in CommandOf
                              /\ e.state \in {"pending", "conflict", "rejected"}
       /\ IsRunbook(cache[d]) /\ IsRunbook(bus[d])
       /\ nextSeq[d] \in Nat /\ queued[d] \subseteq CommandOf
       /\ sync[d].pc \in {"idle", "created", "waiting"}
       /\ issued[d] \subseteq CommandOf /\ blocked[d] \in Nat /\ reloads[d] \in Nat

\* Positions of a task's entries before the i-th entry of the ledger.
Before(i, t) == {j \in 1..(i - 1) : log[j].cmd.task = t}

LastOf(S) == CHOOSE m \in S : \A x \in S : x <= m

\* The status and the revision a task has after the entries before the i-th.
StatusBefore(i, t) ==
  IF Before(i, t) = {} THEN "pending" ELSE log[LastOf(Before(i, t))].cmd.to

\* With several requests between their reads and their batches, the ledger
\* still replays: each entry was decided on the status and the revision its
\* predecessors left, the transition graph allows it, and the stored tasks
\* are what the whole ledger leaves.
LedgerReplays ==
  /\ \A i \in 1..Len(log) :
       /\ log[i].from = StatusBefore(i, log[i].cmd.task)
       /\ log[i].cmd.rev = Cardinality(Before(i, log[i].cmd.task))
       /\ Allowed(log[i].from, log[i].cmd.to)
  /\ \A t \in Task :
       /\ server.status[t] = StatusBefore(Len(log) + 1, t)
       /\ server.rev[t] = Cardinality(Before(Len(log) + 1, t))
  /\ server.seq = Len(log)

\* A command that is sent again, by the next synchronization or after its
\* answer was lost, is applied once; a client sequence names one transition.
ExactlyOnce ==
  \A i, j \in 1..Len(log) :
    log[i].cmd.key = log[j].cmd.key \/ log[i].cmd.cseq = log[j].cmd.cseq => i = j

\* Across reloads, lost answers and conflicts, a queued transition leaves the
\* outbox only when the server has it.
NothingLost ==
  \A d \in Device : \A cmd \in issued[d] :
    \/ cmd.key \in server.keys
    \/ \E e \in outbox[d] : e.cmd = cmd

\* What a device is told was applied is in the ledger.
AppliedIsDurable ==
  \A r \in RequestId : \A a \in request[r].acks :
    a.status \in {"applied", "already-applied"} =>
      \E i \in 1..Len(log) : log[i].cmd.key = a.key
=============================================================================
