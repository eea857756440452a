--------------------------- MODULE EventDayProofs ---------------------------
(*****************************************************************************)
(* Proofs about the two synchronizations of the event day: RunbookSync, for  *)
(* any devices, tasks, dependencies and numbers of commands,                 *)
(* synchronizations and reloads (the ledger of the worker replays, a command *)
(* is applied once, a device is told the truth about what was applied, and a *)
(* queued command is never lost), and IncidentSync, in the second half.      *)
(*****************************************************************************)
EXTENDS RunbookSync, IncidentSync, TLAPS, FiniteSetTheorems, SequenceTheorems

Entry    == [cmd : CommandOf, state : {"pending", "conflict", "rejected"}]
LogEntry == [cmd : CommandOf, from : Status]

RequestType == [pc : {"none", "read", "check", "commit", "reply", "done"},
                todo : Seq(CommandOf), view : Runbook, seen : Nat, acks : SUBSET Ack]
SyncType    == [pc : {"idle", "created", "waiting"}, n : Nat, base : Runbook]

Types ==
  /\ server \in Runbook
  /\ log \in Seq(LogEntry)
  /\ request \in [RequestId -> RequestType]
  /\ outbox \in [Device -> SUBSET Entry]
  /\ cache \in [Device -> Runbook] /\ bus \in [Device -> Runbook]
  /\ nextSeq \in [Device -> Nat]
  /\ queued \in [Device -> SUBSET CommandOf]
  /\ sync \in [Device -> SyncType]
  /\ issued \in [Device -> SUBSET CommandOf]
  /\ blocked \in [Device -> Nat] /\ reloads \in [Device -> Nat]

\* A request at work on a command has one.
HasCommand == \A r \in RequestId : request[r].pc \in {"check", "commit"} => request[r].todo # <<>>

\* A device that waits, waits for a request of its own.
WaitsForOwn == \A d \in Device : sync[d].pc = "waiting" => <<d, sync[d].n>> \in RequestId

\* What was issued can be counted, and the outbox has nothing else.
OutboxIssued ==
  \A d \in Device : IsFiniteSet(issued[d]) /\ \A e \in outbox[d] : e.cmd \in issued[d]

Shape == HasCommand /\ WaitsForOwn /\ OutboxIssued

\* Receipts and ledger are written together.
KeysLogged == \A k \in server.keys : \E i \in 1..Len(log) : log[i].cmd.key = k

Done == {"applied", "already-applied"}

\* What is answered as applied has its receipt.
AnsweredStored == \A r \in RequestId : \A a \in request[r].acks : a.status \in Done => a.key \in server.keys

\* A prepared batch is about a transition that was allowed on the handler's view.
CommitDecided ==
  \A r \in RequestId : request[r].pc = "commit" =>
    Allowed(request[r].view.status[Command(r).task], Command(r).to)

TInv == Types /\ Shape

\* The ledger being finite, the entries of a task before the i-th have a last one.
LastsExist ==
  \A i \in 1..(Len(log) + 1), t \in Task :
    Before(i, t) # {} => \E m \in Before(i, t) : \A x \in Before(i, t) : x <= m

IInv == TInv /\ KeysLogged /\ AnsweredStored /\ CommitDecided
        /\ ExactlyOnce /\ NothingLost /\ LastsExist /\ LedgerReplays

-----------------------------------------------------------------------------
(* Runbooks and commands                                                   *)

LEMMA FrozenType == Frozen \in Runbook
BY DEF Frozen, Runbook, Status, Key

LEMMA SavedType ==
  ASSUME NEW a \in Runbook, NEW b \in Runbook
  PROVE  Saved(a, b) \in Runbook
BY DEF Saved

LEMMA AfterFields ==
  ASSUME NEW rb \in Runbook, NEW cmd \in CommandOf
  PROVE  /\ After(rb, cmd) \in Runbook
         /\ After(rb, cmd).status = [rb.status EXCEPT ![cmd.task] = cmd.to]
         /\ After(rb, cmd).rev = [rb.rev EXCEPT ![cmd.task] = @ + 1]
         /\ After(rb, cmd).seq = rb.seq + 1
         /\ After(rb, cmd).keys = rb.keys \cup {cmd.key}
<1>1. /\ [rb.status EXCEPT ![cmd.task] = cmd.to] \in [Task -> Status]
      /\ [rb.rev EXCEPT ![cmd.task] = @ + 1] \in [Task -> Nat]
      /\ rb.seq + 1 \in Nat /\ rb.keys \cup {cmd.key} \in SUBSET Key
  BY DEF Runbook, CommandOf
<1> QED BY <1>1 DEF After, Runbook

LEMMA VerdictOk ==
  ASSUME NEW rb, NEW cmd, Verdict(rb, cmd) = "ok"
  PROVE  Allowed(rb.status[cmd.task], cmd.to)
BY DEF Verdict

LEMMA VerdictRange ==
  ASSUME NEW rb, NEW cmd
  PROVE  Verdict(rb, cmd) \in {"duplicate", "conflict", "ok", "rejected"}
BY DEF Verdict

-----------------------------------------------------------------------------
(* The steps that change the variables of the worker                       *)

\* The batch of a request is committed.
Committed(r) ==
  /\ request[r].pc = "commit" /\ CommitAllowed(r)
  /\ server' = After(server, Command(r))
  /\ log' = Append(log, [cmd |-> Command(r), from |-> request[r].view.status[Command(r).task]])
  /\ request' = Answer(r, "applied", "read")

LEMMA ServerStep ==
  ASSUME [Next]_vars
  PROVE  UNCHANGED <<server, log>> \/ \E r \in RequestId : Committed(r)
<1>1. CASE UNCHANGED vars
  BY <1>1 DEF vars
<1>2. ASSUME NEW d \in Device, DeviceNext(d) PROVE UNCHANGED <<server, log>>
  BY <1>2 DEF DeviceNext, Enqueue, Blocked, Execute, Reload, SyncCreate, SyncNothing, SyncSend,
              SyncFail, SyncReply
<1>3. ASSUME NEW r \in RequestId, WorkerNext(r)
      PROVE  UNCHANGED <<server, log>> \/ Committed(r)
  <2>1. CASE WorkerRead(r) \/ WorkerRefuse(r) \/ WorkerReplay(r) \/ WorkerPrepare(r)
    BY <2>1 DEF WorkerRead, WorkerRefuse, WorkerReplay, WorkerPrepare
  <2>2. CASE WorkerCommit(r)
    BY <2>2 DEF WorkerCommit, Committed
  <2> QED BY <1>3, <2>1, <2>2 DEF WorkerNext
<1> QED BY <1>1, <1>2, <1>3 DEF Next

\* The request at work is answered a command.
LEMMA CommandType ==
  ASSUME TInv, NEW r \in RequestId, request[r].pc \in {"check", "commit"}
  PROVE  /\ Command(r) \in CommandOf
         /\ Tail(request[r].todo) \in Seq(CommandOf)
         /\ Len(Tail(request[r].todo)) = Len(request[r].todo) - 1
         /\ Len(request[r].todo) \in Nat \ {0}
<1>1. request[r].todo \in Seq(CommandOf) /\ request[r].todo # <<>>
  BY DEF TInv, Types, Shape, HasCommand, RequestType
<1>2. Len(request[r].todo) \in Nat \ {0}
  BY <1>1, EmptySeq
<1> QED BY <1>1, <1>2, HeadTailProperties DEF Command

LEMMA AnswerType ==
  ASSUME TInv, NEW r \in RequestId, request[r].pc \in {"check", "commit"},
         NEW status \in {"applied", "already-applied", "conflict", "rejected"},
         NEW pc \in {"check", "read"}, request' = Answer(r, status, pc)
  PROVE  /\ request' \in [RequestId -> RequestType]
         /\ HasCommand'
         /\ request'[r].pc # "commit"
         /\ request'[r].acks = request[r].acks \cup {[key |-> Command(r).key, status |-> status]}
         /\ \A q \in RequestId \ {r} : request'[q] = request[q]
<1> DEFINE ack  == [key |-> Command(r).key, status |-> status]
           next == IF pc = "check" /\ Len(request[r].todo) = 1 THEN "reply" ELSE pc
           new  == [pc |-> next, todo |-> Tail(request[r].todo), view |-> request[r].view,
                    seen |-> request[r].seen, acks |-> request[r].acks \cup {ack}]
<1>1. request[r] \in RequestType /\ request \in [RequestId -> RequestType]
  BY DEF TInv, Types
<1>2. request' = [request EXCEPT ![r] = new]
  BY DEF Answer
<1>3. ack \in Ack
  BY CommandType DEF Ack, CommandOf
<1>4. Tail(request[r].todo) \in Seq(CommandOf)
  BY CommandType
<1>5. next \in {"reply", "check", "read"}
  OBVIOUS
<1>6. next = "check" => Tail(request[r].todo) # <<>>
  <2>1. next = "check" => Len(Tail(request[r].todo)) # 0
    BY CommandType
  <2>2. Len(<<>>) = 0
    BY EmptySeq
  <2> QED BY <2>1, <2>2
<1>7. new.pc = next /\ new.todo = Tail(request[r].todo) /\ new.acks = request[r].acks \cup {ack}
  OBVIOUS
<1> HIDE DEF ack, next
<1>8. new \in RequestType
  BY <1>1, <1>3, <1>4, <1>5 DEF RequestType
<1> HIDE DEF new
<1>9. /\ request' \in [RequestId -> RequestType] /\ request'[r] = new
      /\ \A q \in RequestId \ {r} : request'[q] = request[q]
  BY <1>1, <1>2, <1>8
<1>10. ASSUME NEW q \in RequestId, request'[q].pc \in {"check", "commit"}
       PROVE  request'[q].todo # <<>>
  <2>1. CASE q = r
    BY <1>5, <1>6, <1>7, <1>9, <1>10, <2>1
  <2>2. CASE q # r
    BY <1>9, <1>10, <2>2 DEF TInv, Shape, HasCommand
  <2> QED BY <2>1, <2>2
<1> QED BY <1>5, <1>7, <1>9, <1>10 DEF HasCommand, ack

-----------------------------------------------------------------------------
(* Types                                                                   *)

LEMMA InitTyped == Init => TInv
<1> SUFFICES ASSUME Init PROVE TInv
  OBVIOUS
<1> USE FrozenType DEF Init
<1>1. <<>> \in Seq(LogEntry) /\ <<>> \in Seq(CommandOf)
  BY EmptySeq
<1>2. NewRequest("none", <<>>) \in RequestType
  BY <1>1 DEF NewRequest, RequestType
<1>3. Idle \in SyncType
  BY DEF Idle, SyncType
<1>4. Types
  BY <1>1, <1>2, <1>3 DEF Types
<1>5. HasCommand
  BY DEF NewRequest, HasCommand
<1>6. WaitsForOwn
  BY DEF Idle, WaitsForOwn
<1>7. OutboxIssued
  BY FS_EmptySet DEF OutboxIssued
<1> QED BY <1>4, <1>5, <1>6, <1>7 DEF TInv, Shape

\* The command of a click.
LEMMA ClickType ==
  ASSUME TInv, NEW d \in Device, NEW t \in Task, NEW to \in Status
  PROVE  Click(d, t, to) \in CommandOf
<1>1. Cardinality(issued[d]) \in Nat
  BY FS_CardinalityType DEF TInv, Shape, OutboxIssued
<1>2. <<d, Cardinality(issued[d]) + 1>> \in Key
  BY <1>1 DEF Key
<1>3. bus[d].rev[t] \in Nat /\ nextSeq[d] + 1 \in Nat
  BY DEF TInv, Types, Runbook
<1> QED BY <1>2, <1>3 DEF Click, CommandOf

LEMMA EnqueueTyped ==
  ASSUME TInv, NEW d \in Device, NEW t \in Task, NEW to \in Status, Enqueue(d, t, to)
  PROVE  TInv'
<1> DEFINE cmd == Click(d, t, to)
           entry == [cmd |-> cmd, state |-> "pending"]
<1>1. cmd \in CommandOf
  BY ClickType
<1> HIDE DEF cmd
<1>2. /\ outbox' = [outbox EXCEPT ![d] = @ \cup {entry}]
      /\ queued' = [queued EXCEPT ![d] = @ \cup {cmd}]
      /\ issued' = [issued EXCEPT ![d] = @ \cup {cmd}]
      /\ nextSeq' = [nextSeq EXCEPT ![d] = @ + 1]
      /\ UNCHANGED <<server, log, request, cache, bus, sync, blocked, reloads>>
  BY DEF Enqueue, cmd
<1>3. entry \in Entry
  BY <1>1 DEF Entry
<1> HIDE DEF entry
<1>4. /\ outbox' \in [Device -> SUBSET Entry] /\ queued' \in [Device -> SUBSET CommandOf]
      /\ issued' \in [Device -> SUBSET CommandOf] /\ nextSeq' \in [Device -> Nat]
  BY <1>1, <1>2, <1>3 DEF TInv, Types
<1>5. Types'
  BY <1>2, <1>4 DEF TInv, Types
<1>6. HasCommand' /\ WaitsForOwn'
  BY <1>2 DEF TInv, Shape, HasCommand, WaitsForOwn, Command
<1>7. ASSUME NEW x \in Device
      PROVE  IsFiniteSet(issued'[x]) /\ \A e \in outbox'[x] : e.cmd \in issued'[x]
  <2>1. IsFiniteSet(issued[x]) /\ \A e \in outbox[x] : e.cmd \in issued[x]
    BY DEF TInv, Shape, OutboxIssued
  <2>2. CASE x = d
    <3>1. issued'[x] = issued[x] \cup {cmd} /\ outbox'[x] = outbox[x] \cup {entry}
      BY <1>2, <2>2 DEF TInv, Types
    <3>2. IsFiniteSet(issued'[x])
      BY <2>1, <3>1, FS_AddElement
    <3> QED BY <2>1, <3>1, <3>2 DEF entry
  <2>3. CASE x # d
    BY <1>2, <2>1, <2>3 DEF TInv, Types
  <2> QED BY <2>2, <2>3
<1>8. OutboxIssued'
  BY <1>7 DEF OutboxIssued
<1> QED BY <1>5, <1>6, <1>8 DEF TInv, Shape

LEMMA BlockedTyped ==
  ASSUME TInv, NEW d \in Device, NEW t \in Task, NEW to \in Status, Blocked(d, t, to)
  PROVE  TInv'
<1>1. Types'
  BY DEF TInv, Types, Blocked
<1> QED BY <1>1 DEF TInv, Shape, HasCommand, WaitsForOwn, OutboxIssued, Blocked

LEMMA ExecuteTyped ==
  ASSUME TInv, NEW d \in Device, NEW cmd \in queued[d], Execute(d, cmd)
  PROVE  TInv'
<1>1. cmd \in CommandOf /\ bus[d] \in Runbook /\ cache[d] \in Runbook
  BY DEF TInv, Types
<1>2. After(bus[d], cmd) \in Runbook
  BY <1>1, AfterFields
<1>3. Saved(cache[d], After(bus[d], cmd)) \in Runbook
  BY <1>1, <1>2, SavedType
<1>4. bus' \in [Device -> Runbook] /\ cache' \in [Device -> Runbook]
  BY <1>2, <1>3 DEF Execute, TInv, Types
<1>5. queued' \in [Device -> SUBSET CommandOf]
  BY DEF Execute, TInv, Types
<1>6. UNCHANGED <<server, log, request, outbox, nextSeq, sync, issued, blocked, reloads>>
  BY DEF Execute, bounds
<1>7. Types'
  BY <1>4, <1>5, <1>6 DEF TInv, Types
<1> QED BY <1>6, <1>7 DEF TInv, Shape, HasCommand, WaitsForOwn, OutboxIssued

LEMMA ReloadTyped ==
  ASSUME TInv, NEW d \in Device, Reload(d)
  PROVE  TInv'
<1>1. PICK m \in Resume(d) : nextSeq' = [nextSeq EXCEPT ![d] = m]
  BY DEF Reload
<1>2. \A e \in outbox[d] : e.cmd.cseq \in Nat
  BY DEF TInv, Types, Entry, CommandOf
<1>3. m \in Nat
  BY <1>1, <1>2 DEF Resume
<1>4. Idle \in SyncType
  BY FrozenType DEF Idle, SyncType
<1>5. /\ bus' = [bus EXCEPT ![d] = cache[d]] /\ queued' = [queued EXCEPT ![d] = {}]
      /\ sync' = [sync EXCEPT ![d] = Idle] /\ reloads' = [reloads EXCEPT ![d] = @ + 1]
      /\ UNCHANGED <<server, log, request, outbox, cache, issued, blocked>>
  BY DEF Reload
<1>6. /\ bus' \in [Device -> Runbook] /\ nextSeq' \in [Device -> Nat]
      /\ queued' \in [Device -> SUBSET CommandOf] /\ sync' \in [Device -> SyncType]
      /\ reloads' \in [Device -> Nat]
  BY <1>1, <1>3, <1>4, <1>5 DEF TInv, Types
<1>7. Types'
  BY <1>5, <1>6 DEF TInv, Types
<1>8. WaitsForOwn'
  <2>1. ASSUME NEW x \in Device, sync'[x].pc = "waiting" PROVE x # d
    BY <1>5, <2>1 DEF TInv, Types, Idle
  <2> QED BY <1>5, <2>1 DEF TInv, Types, Shape, WaitsForOwn
<1> QED BY <1>5, <1>7, <1>8 DEF TInv, Shape, HasCommand, OutboxIssued

\* What Adopt leaves.
LEMMA AdoptTyped ==
  ASSUME TInv, NEW d \in Device, NEW rb \in Runbook, Adopt(d, rb)
  PROVE  /\ cache' \in [Device -> Runbook] /\ bus' \in [Device -> Runbook]
         /\ sync' \in [Device -> SyncType] /\ WaitsForOwn'
<1>1. Saved(cache[d], rb) \in Runbook
  BY SavedType DEF TInv, Types
<1>2. Idle \in SyncType /\ Idle.pc = "idle"
  BY FrozenType DEF Idle, SyncType
<1>3. cache' \in [Device -> Runbook] /\ bus' \in [Device -> Runbook] /\ sync' \in [Device -> SyncType]
  BY <1>1, <1>2 DEF Adopt, TInv, Types
<1>4. ASSUME NEW x \in Device, sync'[x].pc = "waiting" PROVE sync'[x] = sync[x]
  BY <1>2, <1>4 DEF Adopt, TInv, Types
<1> QED BY <1>3, <1>4 DEF TInv, Shape, WaitsForOwn

LEMMA SyncCreateTyped ==
  ASSUME TInv, NEW d \in Device, SyncCreate(d)
  PROVE  TInv'
<1> DEFINE new == [pc |-> "created", n |-> 0, base |-> server]
<1>1. new \in SyncType
  BY DEF SyncType, TInv, Types
<1>2. sync' = [sync EXCEPT ![d] = new]
      /\ UNCHANGED <<server, log, request, outbox, cache, bus, nextSeq, queued, issued, blocked, reloads>>
  BY DEF SyncCreate, bounds
<1>3. sync' \in [Device -> SyncType]
  BY <1>1, <1>2 DEF TInv, Types
<1>4. Types'
  BY <1>2, <1>3 DEF TInv, Types
<1>5. ASSUME NEW x \in Device, sync'[x].pc = "waiting" PROVE sync'[x] = sync[x]
  BY <1>2, <1>5 DEF TInv, Types
<1> QED BY <1>2, <1>4, <1>5 DEF TInv, Shape, HasCommand, WaitsForOwn, OutboxIssued

LEMMA SyncNothingTyped ==
  ASSUME TInv, NEW d \in Device, SyncNothing(d)
  PROVE  TInv'
<1>1. sync[d].base \in Runbook
  BY DEF TInv, Types, SyncType
<1>2. /\ cache' \in [Device -> Runbook] /\ bus' \in [Device -> Runbook]
      /\ sync' \in [Device -> SyncType] /\ WaitsForOwn'
  BY <1>1, AdoptTyped DEF SyncNothing
<1>3. UNCHANGED <<server, log, request, outbox, nextSeq, queued, issued, blocked, reloads>>
  BY DEF SyncNothing, bounds
<1>4. Types'
  BY <1>2, <1>3 DEF TInv, Types
<1> QED BY <1>2, <1>3, <1>4 DEF TInv, Shape, HasCommand, OutboxIssued

LEMMA SyncFailTyped ==
  ASSUME TInv, NEW d \in Device, SyncFail(d)
  PROVE  TInv'
<1>1. Idle \in SyncType /\ Idle.pc = "idle"
  BY FrozenType DEF Idle, SyncType
<1>2. sync' = [sync EXCEPT ![d] = Idle]
      /\ UNCHANGED <<server, log, request, outbox, cache, bus, nextSeq, queued, issued, blocked, reloads>>
  BY DEF SyncFail, bounds
<1>3. sync' \in [Device -> SyncType]
  BY <1>1, <1>2 DEF TInv, Types
<1>4. Types'
  BY <1>2, <1>3 DEF TInv, Types
<1>5. ASSUME NEW x \in Device, sync'[x].pc = "waiting" PROVE sync'[x] = sync[x]
  BY <1>1, <1>2, <1>5 DEF TInv, Types
<1> QED BY <1>2, <1>4, <1>5 DEF TInv, Shape, HasCommand, WaitsForOwn, OutboxIssued

LEMMA SyncSendTyped ==
  ASSUME TInv, NEW d \in Device, SyncSend(d)
  PROVE  TInv'
<1> DEFINE n    == SyncsOf(d) + 1
           r    == <<d, n>>
           cmds == {e.cmd : e \in outbox[d]}
           wait == [pc |-> "waiting", n |-> n, base |-> Frozen]
<1>1. n \in Nat /\ n >= 1
  <2> DEFINE started == {m \in 1..MaxSyncs[d] : request[<<d, m>>].pc # "none"}
  <2>a. IsFiniteSet(1..MaxSyncs[d]) /\ started \in SUBSET (1..MaxSyncs[d])
    BY FS_Interval, SyncBounds
  <2>1. IsFiniteSet(started)
    BY <2>a, FS_Subset
  <2>2. SyncsOf(d) \in Nat
    BY <2>1, FS_CardinalityType DEF SyncsOf
  <2> QED BY <2>2
<1>2. r \in RequestId
  BY <1>1, SyncBounds DEF SyncSend, RequestId
<1>3. cmds \in SUBSET CommandOf /\ cmds \in SUBSET issued[d] /\ IsFiniteSet(issued[d])
  BY DEF TInv, Types, Shape, OutboxIssued, Entry
<1>4. Cardinality(cmds) \in Nat
  BY <1>3, FS_Subset, FS_CardinalityType
<1>5. PICK todo \in InClientOrder(cmds) :
        request' = [request EXCEPT ![r] = NewRequest("read", todo)]
  BY DEF SyncSend
<1> DEFINE new == NewRequest("read", todo)
<1>6. request' = [request EXCEPT ![r] = new]
  BY <1>5
<1>7. todo \in Seq(CommandOf)
  <2>1. todo \in [1..Cardinality(cmds) -> CommandOf]
    BY <1>3, <1>5 DEF InClientOrder
  <2> HIDE DEF cmds
  <2> QED BY <1>4, <2>1, SeqDef
<1>8. new \in RequestType
  BY <1>7, FrozenType DEF NewRequest, RequestType
<1>9. new.pc = "read"
  BY DEF NewRequest
<1>10. wait \in SyncType
  BY <1>1, FrozenType DEF SyncType
<1>11. /\ sync' = [sync EXCEPT ![d] = wait]
       /\ UNCHANGED <<server, log, outbox, cache, bus, nextSeq, queued, issued, blocked, reloads>>
  BY DEF SyncSend, bounds
<1>12. wait.n = n
  OBVIOUS
<1> HIDE DEF n, r, new, wait
<1>13. request' \in [RequestId -> RequestType] /\ sync' \in [Device -> SyncType]
  BY <1>2, <1>6, <1>8, <1>10, <1>11 DEF TInv, Types
<1>14. Types'
  BY <1>11, <1>13 DEF TInv, Types
<1>15. HasCommand'
  <2>1. ASSUME NEW q \in RequestId, request'[q].pc \in {"check", "commit"}
        PROVE  request'[q] = request[q]
    BY <1>6, <1>9, <2>1 DEF TInv, Types
  <2> QED BY <2>1 DEF TInv, Shape, HasCommand
<1>16. WaitsForOwn'
  <2>1. ASSUME NEW x \in Device, sync'[x].pc = "waiting" PROVE <<x, sync'[x].n>> \in RequestId
    <3>1. CASE x = d
      BY <1>2, <1>11, <1>12, <3>1 DEF r, TInv, Types
    <3>2. CASE x # d
      BY <1>11, <2>1, <3>2 DEF TInv, Types, Shape, WaitsForOwn
    <3> QED BY <3>1, <3>2
  <2> QED BY <2>1 DEF WaitsForOwn
<1> QED BY <1>11, <1>14, <1>15, <1>16 DEF TInv, Shape, OutboxIssued

\* What acknowledgements leave: entries with commands that were there.
LEMMA AcknowledgedType ==
  ASSUME NEW entries \in SUBSET Entry, NEW acks
  PROVE  /\ Acknowledged(entries, acks) \in SUBSET Entry
         /\ \A x \in Acknowledged(entries, acks) : \E e \in entries : x.cmd = e.cmd
BY DEF Acknowledged, Entry

LEMMA SyncReplyTyped ==
  ASSUME TInv, NEW d \in Device, SyncReply(d)
  PROVE  TInv'
<1> DEFINE r   == <<d, sync[d].n>>
           out == Acknowledged(outbox[d], request[r].acks)
           new == NewRequest("done", <<>>)
<1>1. r \in RequestId
  BY DEF SyncReply, TInv, Shape, WaitsForOwn
<1>2. request[r] \in RequestType /\ request[r].view \in Runbook /\ outbox[d] \in SUBSET Entry
  BY <1>1 DEF TInv, Types, RequestType
<1>3. /\ outbox' = [outbox EXCEPT ![d] = out] /\ Adopt(d, request[r].view)
      /\ request' = [request EXCEPT ![r] = new]
      /\ UNCHANGED <<server, log, nextSeq, queued, issued, blocked, reloads>>
  BY DEF SyncReply, bounds
<1>4. /\ cache' \in [Device -> Runbook] /\ bus' \in [Device -> Runbook]
      /\ sync' \in [Device -> SyncType] /\ WaitsForOwn'
  BY <1>2, <1>3, AdoptTyped
<1>5. out \in SUBSET Entry /\ \A x \in out : \E e \in outbox[d] : x.cmd = e.cmd
  BY <1>2, AcknowledgedType
<1>6. <<>> \in Seq(CommandOf)
  BY EmptySeq
<1>7. new \in RequestType /\ new.pc = "done"
  BY <1>6, FrozenType DEF NewRequest, RequestType
<1> HIDE DEF r, out, new
<1>8. outbox' \in [Device -> SUBSET Entry] /\ request' \in [RequestId -> RequestType]
  BY <1>1, <1>3, <1>5, <1>7 DEF TInv, Types
<1>9. Types'
  BY <1>3, <1>4, <1>8 DEF TInv, Types
<1>10. HasCommand'
  <2>1. ASSUME NEW q \in RequestId, request'[q].pc \in {"check", "commit"}
        PROVE  request'[q] = request[q]
    BY <1>3, <1>7, <2>1 DEF TInv, Types
  <2> QED BY <2>1 DEF TInv, Shape, HasCommand
<1>11. ASSUME NEW x \in Device, NEW e \in outbox'[x] PROVE e.cmd \in issued'[x]
  <2>1. CASE x = d
    BY <1>3, <1>5, <1>11, <2>1 DEF TInv, Types, Shape, OutboxIssued
  <2>2. CASE x # d
    BY <1>3, <1>11, <2>2 DEF TInv, Types, Shape, OutboxIssued
  <2> QED BY <2>1, <2>2
<1>12. OutboxIssued'
  BY <1>3, <1>11 DEF TInv, Shape, OutboxIssued
<1> QED BY <1>4, <1>9, <1>10, <1>12 DEF TInv, Shape

LEMMA DeviceTyped ==
  ASSUME TInv, NEW d \in Device, DeviceNext(d)
  PROVE  TInv'
BY EnqueueTyped, BlockedTyped, ExecuteTyped, ReloadTyped, SyncCreateTyped, SyncNothingTyped,
   SyncSendTyped, SyncFailTyped, SyncReplyTyped DEF DeviceNext

-----------------------------------------------------------------------------
\* The steps of the worker: what becomes of a request that is not answered.
LEMMA WorkerReadFields ==
  ASSUME TInv, NEW r \in RequestId, WorkerRead(r)
  PROVE  /\ request' \in [RequestId -> RequestType]
         /\ request'[r].pc \in {"reply", "check"}
         /\ request'[r].pc = "check" => request'[r].todo # <<>>
         /\ request'[r].acks = request[r].acks
         /\ \A q \in RequestId \ {r} : request'[q] = request[q]
<1> DEFINE pc == IF request[r].todo = <<>> THEN "reply" ELSE "check"
           new == [request[r] EXCEPT !.view = server, !.pc = pc]
<1>1. request[r] \in RequestType /\ request \in [RequestId -> RequestType] /\ server \in Runbook
  BY DEF TInv, Types
<1>2. request' = [request EXCEPT ![r] = new]
  BY <1>1 DEF WorkerRead
<1>3. pc \in {"reply", "check"} /\ (pc = "check" => request[r].todo # <<>>)
  OBVIOUS
<1> HIDE DEF pc
<1>4. new.pc = pc /\ new.todo = request[r].todo /\ new.acks = request[r].acks /\ new \in RequestType
  BY <1>1, <1>3, Zenon DEF RequestType
<1> HIDE DEF new
<1> QED BY <1>1, <1>2, <1>3, <1>4

LEMMA PrepareFields ==
  ASSUME TInv, NEW r \in RequestId, request[r].pc = "check",
         request' = [request EXCEPT ![r].seen = server.seq, ![r].pc = "commit"]
  PROVE  /\ request' \in [RequestId -> RequestType]
         /\ request'[r].pc = "commit"
         /\ request'[r].todo = request[r].todo /\ request'[r].view = request[r].view
         /\ request'[r].acks = request[r].acks
         /\ \A q \in RequestId \ {r} : request'[q] = request[q]
<1> DEFINE new == [request[r] EXCEPT !.seen = server.seq, !.pc = "commit"]
<1>1. request[r] \in RequestType /\ request \in [RequestId -> RequestType] /\ server.seq \in Nat
  BY DEF TInv, Types, Runbook
<1>2. request' = [request EXCEPT ![r] = new]
  BY <1>1
<1>3. /\ new.pc = "commit" /\ new.todo = request[r].todo /\ new.view = request[r].view
      /\ new.acks = request[r].acks /\ new \in RequestType
  BY <1>1, Zenon DEF RequestType
<1> HIDE DEF new
<1> QED BY <1>1, <1>2, <1>3

\* A step of the worker on a request.
LEMMA WorkerTyped ==
  ASSUME TInv, NEW r \in RequestId, WorkerNext(r)
  PROVE  TInv'
<1>1. request' \in [RequestId -> RequestType] /\ HasCommand'
  <2>1. CASE WorkerRead(r)
    BY <2>1, WorkerReadFields DEF TInv, Shape, HasCommand
  <2>2. CASE WorkerRefuse(r)
    BY <2>2, AnswerType DEF WorkerRefuse
  <2>3. CASE WorkerReplay(r)
    BY <2>3, AnswerType DEF WorkerReplay
  <2>4. CASE WorkerPrepare(r)
    <3>1. CASE request' = Answer(r, "conflict", "check")
      BY <2>4, <3>1, AnswerType DEF WorkerPrepare
    <3>2. CASE request' = [request EXCEPT ![r].seen = server.seq, ![r].pc = "commit"]
      <4>1. request[r].pc = "check" /\ request[r].todo # <<>>
        BY <2>4 DEF WorkerPrepare, TInv, Shape, HasCommand
      <4> QED BY <3>2, <4>1, PrepareFields DEF TInv, Shape, HasCommand
    <3> QED BY <2>4, <3>1, <3>2 DEF WorkerPrepare
  <2>5. CASE WorkerCommit(r)
    BY <2>5, AnswerType DEF WorkerCommit
  <2> QED BY <2>1, <2>2, <2>3, <2>4, <2>5 DEF WorkerNext
<1>2. UNCHANGED <<deviceVars, bounds>>
  BY DEF WorkerNext, WorkerRead, WorkerRefuse, WorkerReplay, WorkerPrepare, WorkerCommit
<1>3. UNCHANGED <<outbox, cache, bus, nextSeq, queued, sync, issued, blocked, reloads>>
  BY <1>2 DEF deviceVars, bounds
<1>4. WorkerNext(r) => [Next]_vars
  BY DEF Next
<1>5. server' \in Runbook /\ log' \in Seq(LogEntry)
  <2>1. CASE UNCHANGED <<server, log>>
    BY <2>1 DEF TInv, Types
  <2>2. ASSUME NEW q \in RequestId, Committed(q)
        PROVE  server' \in Runbook /\ log' \in Seq(LogEntry)
    <3>1. Command(q) \in CommandOf /\ server \in Runbook /\ log \in Seq(LogEntry)
      BY <2>2, CommandType DEF Committed, TInv, Types
    <3>2. request[q].view.status[Command(q).task] \in Status
      BY <3>1 DEF TInv, Types, RequestType, Runbook, CommandOf
    <3>3. [cmd |-> Command(q), from |-> request[q].view.status[Command(q).task]] \in LogEntry
      BY <3>1, <3>2 DEF LogEntry
    <3> QED BY <2>2, <3>1, <3>3, AfterFields, AppendProperties DEF Committed
  <2> QED BY <1>4, <2>1, <2>2, ServerStep
<1>6. Types'
  BY <1>1, <1>3, <1>5 DEF TInv, Types
<1> QED BY <1>1, <1>3, <1>6 DEF TInv, Shape, WaitsForOwn, OutboxIssued

LEMMA StepTyped == TInv /\ [Next]_vars => TInv'
<1> SUFFICES ASSUME TInv, [Next]_vars PROVE TInv'
  OBVIOUS
<1>1. CASE UNCHANGED vars
  BY <1>1 DEF vars, deviceVars, bounds, TInv, Types, Shape, HasCommand, WaitsForOwn, OutboxIssued
<1> QED BY <1>1, DeviceTyped, WorkerTyped DEF Next

-----------------------------------------------------------------------------
(* Every command once                                                      *)

\* What a commit adds to the ledger.
LEMMA CommitFields ==
  ASSUME TInv, NEW r \in RequestId, Committed(r)
  PROVE  /\ Command(r) \in CommandOf
         /\ Len(log) \in Nat /\ Len(log') = Len(log) + 1
         /\ \A i \in 1..Len(log) : log'[i] = log[i]
         /\ log'[Len(log) + 1].cmd = Command(r)
         /\ log'[Len(log) + 1].from = request[r].view.status[Command(r).task]
         /\ server' = After(server, Command(r))
         /\ server'.keys = server.keys \cup {Command(r).key}
<1> DEFINE new == [cmd |-> Command(r), from |-> request[r].view.status[Command(r).task]]
<1>1. Command(r) \in CommandOf /\ server \in Runbook /\ log \in Seq(LogEntry)
  BY CommandType DEF Committed, TInv, Types
<1>2. request[r].view.status[Command(r).task] \in Status
  BY <1>1 DEF TInv, Types, RequestType, Runbook, CommandOf
<1>3. new \in LogEntry
  BY <1>1, <1>2 DEF LogEntry
<1>4. log' = Append(log, new) /\ server' = After(server, Command(r))
  BY DEF Committed
<1>5. new.cmd = Command(r) /\ new.from = request[r].view.status[Command(r).task]
  OBVIOUS
<1> HIDE DEF new
<1>6. /\ Len(log') = Len(log) + 1 /\ Len(log) \in Nat
      /\ \A i \in 1..Len(log) : log'[i] = log[i]
      /\ log'[Len(log) + 1] = new
  BY <1>1, <1>3, <1>4, AppendProperties, LenProperties
<1>7. server'.keys = server.keys \cup {Command(r).key}
  BY <1>1, <1>4, AfterFields
<1> QED BY <1>1, <1>4, <1>5, <1>6, <1>7

LEMMA StepExactlyOnce == TInv /\ ExactlyOnce /\ [Next]_vars => ExactlyOnce'
<1> SUFFICES ASSUME TInv, ExactlyOnce, [Next]_vars PROVE ExactlyOnce'
  OBVIOUS
<1>1. CASE UNCHANGED <<server, log>>
  BY <1>1 DEF ExactlyOnce
<1>2. ASSUME NEW r \in RequestId, Committed(r),
             NEW i \in 1..Len(log'), NEW j \in 1..Len(log'),
             log'[i].cmd.key = log'[j].cmd.key \/ log'[i].cmd.cseq = log'[j].cmd.cseq
      PROVE  i = j
  <2>1. \A k \in 1..Len(log) : /\ log[k].cmd.cseq # Command(r).cseq
                              /\ log[k].cmd.key # Command(r).key
    BY <1>2 DEF Committed, CommitAllowed
  <2>2. i \in 1..Len(log) \/ i = Len(log) + 1
    BY <1>2, CommitFields
  <2>3. j \in 1..Len(log) \/ j = Len(log) + 1
    BY <1>2, CommitFields
  <2> QED BY <1>2, <2>1, <2>2, <2>3, CommitFields DEF ExactlyOnce
<1> QED BY <1>1, <1>2, ServerStep DEF ExactlyOnce

\* Receipts stay, and each has its entry.
LEMMA StepKeys ==
  ASSUME TInv, KeysLogged, [Next]_vars
  PROVE  server.keys \subseteq server'.keys /\ KeysLogged'
<1>1. CASE UNCHANGED <<server, log>>
  BY <1>1 DEF KeysLogged
<1>2. ASSUME NEW r \in RequestId, Committed(r)
      PROVE  server.keys \subseteq server'.keys /\ KeysLogged'
  <2>1. ASSUME NEW k \in server'.keys PROVE \E i \in 1..Len(log') : log'[i].cmd.key = k
    <3>1. CASE k \in server.keys
      <4>1. PICK i \in 1..Len(log) : log[i].cmd.key = k
        BY <3>1 DEF KeysLogged
      <4>2. i \in 1..Len(log') /\ log'[i] = log[i]
        BY <1>2, CommitFields
      <4> QED BY <4>1, <4>2
    <3>2. CASE k = Command(r).key
      BY <1>2, <3>2, CommitFields
    <3> QED BY <1>2, <2>1, <3>1, <3>2, CommitFields
  <2> QED BY <1>2, <2>1, CommitFields DEF KeysLogged
<1> QED BY <1>1, <1>2, ServerStep

-----------------------------------------------------------------------------
(* What a device is told                                                   *)

\* An answer a step adds: it is not of something done, or the receipt is there.
Told(a) == a.status \in Done => a.key \in server'.keys

LEMMA AnswerTold ==
  ASSUME TInv, NEW r \in RequestId, request[r].pc \in {"check", "commit"},
         NEW status \in {"applied", "already-applied", "conflict", "rejected"},
         NEW pc \in {"check", "read"}, request' = Answer(r, status, pc),
         status \in Done => Command(r).key \in server'.keys,
         NEW q \in RequestId, NEW a \in request'[q].acks
  PROVE  a \in request[q].acks \/ Told(a)
<1>1. CASE q = r
  BY <1>1, AnswerType DEF Told
<1>2. CASE q # r
  BY <1>2, AnswerType
<1> QED BY <1>1, <1>2

LEMMA StepTold ==
  ASSUME TInv, [Next]_vars, NEW q \in RequestId, NEW a \in request'[q].acks
  PROVE  a \in request[q].acks \/ Told(a)
<1>1. CASE UNCHANGED request
  BY <1>1
<1>2. ASSUME NEW d \in Device, DeviceNext(d) PROVE a \in request[q].acks
  <2>1. CASE SyncSend(d)
    <3>1. PICK todo : request' = [request EXCEPT ![<<d, SyncsOf(d) + 1>>] = NewRequest("read", todo)]
      BY <2>1 DEF SyncSend
    <3> QED BY <3>1 DEF NewRequest, TInv, Types
  <2>2. CASE SyncReply(d)
    <3>1. request' = [request EXCEPT ![<<d, sync[d].n>>] = NewRequest("done", <<>>)]
      BY <2>2 DEF SyncReply
    <3> QED BY <3>1 DEF NewRequest, TInv, Types
  <2>3. CASE UNCHANGED request
    BY <2>3
  <2> QED BY <1>2, <2>1, <2>2, <2>3
          DEF DeviceNext, Enqueue, Blocked, Execute, Reload, SyncCreate, SyncNothing, SyncFail
<1>3. ASSUME NEW r \in RequestId, WorkerNext(r) PROVE a \in request[q].acks \/ Told(a)
  <2>1. CASE WorkerRead(r)
    BY <2>1, WorkerReadFields
  <2>2. CASE WorkerRefuse(r)
    BY <2>2, AnswerTold DEF WorkerRefuse, Done
  <2>3. CASE WorkerReplay(r)
    BY <2>3, AnswerTold DEF WorkerReplay
  <2>4. CASE WorkerPrepare(r)
    BY <2>4, AnswerTold, PrepareFields DEF WorkerPrepare, Done
  <2>5. CASE WorkerCommit(r)
    <3>1. CASE Committed(r)
      BY <3>1, AnswerTold, CommitFields DEF Committed
    <3>2. CASE request' = Answer(r, "conflict", "check")
      BY <2>5, <3>2, AnswerTold DEF WorkerCommit, Done
    <3> QED BY <2>5, <3>1, <3>2 DEF WorkerCommit, Committed
  <2> QED BY <1>3, <2>1, <2>2, <2>3, <2>4, <2>5 DEF WorkerNext
<1> QED BY <1>1, <1>2, <1>3 DEF Next, vars

LEMMA StepAnswered ==
  TInv /\ KeysLogged /\ AnsweredStored /\ [Next]_vars => AnsweredStored'
<1> SUFFICES ASSUME TInv, KeysLogged, AnsweredStored, [Next]_vars,
                    NEW q \in RequestId, NEW a \in request'[q].acks, a.status \in Done
             PROVE  a \in request[q].acks => a.key \in server.keys /\ server.keys \subseteq server'.keys
  BY StepTold DEF AnsweredStored, Told
<1> QED BY StepKeys DEF AnsweredStored

-----------------------------------------------------------------------------
(* Nothing is lost                                                         *)

LEMMA StepNothingLost ==
  TInv /\ KeysLogged /\ AnsweredStored /\ NothingLost /\ [Next]_vars => NothingLost'
<1> SUFFICES ASSUME TInv, KeysLogged, AnsweredStored, NothingLost, [Next]_vars,
                    NEW x \in Device, NEW cmd \in issued'[x]
             PROVE  cmd.key \in server'.keys \/ \E e \in outbox'[x] : e.cmd = cmd
  BY DEF NothingLost
<1>k. server.keys \subseteq server'.keys
  BY StepKeys
<1>1. CASE UNCHANGED <<issued, outbox>>
  BY <1>k, <1>1 DEF NothingLost
<1>2. ASSUME NEW d \in Device, NEW t \in Task, NEW to \in Status, Enqueue(d, t, to)
      PROVE  \/ cmd.key \in server'.keys
             \/ \E e \in outbox'[x] : e.cmd = cmd
  <2> DEFINE new == Click(d, t, to)
             entry == [cmd |-> new, state |-> "pending"]
  <2>1. /\ outbox' = [outbox EXCEPT ![d] = @ \cup {entry}]
        /\ issued' = [issued EXCEPT ![d] = @ \cup {new}]
    BY <1>2 DEF Enqueue
  <2>2. entry.cmd = new
    OBVIOUS
  <2> HIDE DEF new, entry
  <2>3. outbox[x] \subseteq outbox'[x]
    BY <2>1 DEF TInv, Types
  <2>4. CASE cmd \in issued[x]
    BY <1>k, <2>3, <2>4 DEF NothingLost
  <2>5. CASE cmd \notin issued[x]
    <3>1. x = d /\ cmd = new /\ entry \in outbox'[x]
      BY <2>1, <2>5 DEF TInv, Types
    <3> QED BY <2>2, <3>1
  <2> QED BY <2>4, <2>5
<1>3. ASSUME NEW d \in Device, SyncReply(d)
      PROVE  \/ cmd.key \in server'.keys
             \/ \E e \in outbox'[x] : e.cmd = cmd
  <2> DEFINE r == <<d, sync[d].n>>
  <2>1. r \in RequestId
    BY <1>3 DEF SyncReply, TInv, Shape, WaitsForOwn
  <2>2. /\ outbox' = [outbox EXCEPT ![d] = Acknowledged(@, request[r].acks)]
        /\ UNCHANGED issued
    BY <1>3 DEF SyncReply, bounds
  <2>3. request[r].acks \in SUBSET Ack
    BY <2>1 DEF TInv, Types, RequestType
  <2> HIDE DEF r
  <2>4. CASE x # d \/ cmd.key \in server.keys
    BY <1>k, <2>2, <2>4 DEF NothingLost, TInv, Types
  <2>5. CASE x = d /\ cmd.key \notin server.keys
    <3>1. PICK e \in outbox[x] : e.cmd = cmd
      BY <2>2, <2>5 DEF NothingLost
    <3>2. outbox'[x] = Acknowledged(outbox[x], request[r].acks)
      BY <2>2, <2>5 DEF TInv, Types
    <3>3. CASE \A a \in request[r].acks : a.key # e.cmd.key
      BY <3>1, <3>2, <3>3 DEF Acknowledged
    <3>4. ASSUME NEW a \in request[r].acks, a.key = e.cmd.key
          PROVE  \E y \in outbox'[x] : y.cmd = cmd
      <4>1. a.status \notin Done
        BY <2>1, <2>5, <3>1, <3>4 DEF AnsweredStored
      <4>2. a.status \in {"conflict", "rejected"}
        BY <2>3, <4>1 DEF Ack, Done
      <4> DEFINE y == [cmd |-> cmd, state |-> a.status]
      <4>3. y \in outbox'[x]
        BY <3>1, <3>2, <3>4, <4>2 DEF Acknowledged
      <4> QED BY <4>3
    <3> QED BY <3>1, <3>3, <3>4
  <2> QED BY <2>4, <2>5
<1>4. ASSUME NEW d \in Device, DeviceNext(d)
      PROVE  \/ UNCHANGED <<issued, outbox>>
             \/ \E t \in Task, to \in Status : Enqueue(d, t, to)
             \/ SyncReply(d)
  BY <1>4 DEF DeviceNext, Blocked, Execute, Reload, SyncCreate, SyncNothing, SyncSend, SyncFail,
      bounds
<1>5. ASSUME NEW r \in RequestId, WorkerNext(r) PROVE UNCHANGED <<issued, outbox>>
  BY <1>5 DEF WorkerNext, WorkerRead, WorkerRefuse, WorkerReplay, WorkerPrepare, WorkerCommit,
              deviceVars, bounds
<1> QED BY <1>1, <1>2, <1>3, <1>4, <1>5 DEF Next, vars, deviceVars, bounds

-----------------------------------------------------------------------------
(* Decisions outlive their reads                                           *)

\* Of a request that is answered no batch is prepared.
LEMMA AnswerDecided ==
  ASSUME TInv, CommitDecided, NEW r \in RequestId, request[r].pc \in {"check", "commit"},
         NEW status \in {"applied", "already-applied", "conflict", "rejected"},
         NEW pc \in {"check", "read"}, request' = Answer(r, status, pc)
  PROVE  CommitDecided'
<1> SUFFICES ASSUME NEW q \in RequestId, request'[q].pc = "commit"
             PROVE  Allowed(request'[q].view.status[Command(q)'.task], Command(q)'.to)
  BY DEF CommitDecided
<1>1. request'[q] = request[q]
  BY AnswerType
<1>2. Command(q)' = Command(q)
  BY <1>1 DEF Command
<1> QED BY <1>1, <1>2 DEF CommitDecided

LEMMA StepDecided == TInv /\ CommitDecided /\ [Next]_vars => CommitDecided'
<1> SUFFICES ASSUME TInv, CommitDecided, [Next]_vars PROVE CommitDecided'
  OBVIOUS
<1>1. CASE UNCHANGED request
  BY <1>1 DEF CommitDecided, Command
<1>2. ASSUME NEW d \in Device, DeviceNext(d) PROVE CommitDecided'
  <2>1. ASSUME NEW r, NEW pc \in {"read", "done"}, NEW todo,
               request' = [request EXCEPT ![r] = NewRequest(pc, todo)]
        PROVE  CommitDecided'
    <3>1. ASSUME NEW q \in RequestId, request'[q].pc = "commit" PROVE request'[q] = request[q]
      BY <2>1, <3>1 DEF NewRequest, TInv, Types
    <3> QED BY <3>1 DEF CommitDecided, Command
  <2>2. CASE SyncSend(d)
    BY <2>1, <2>2 DEF SyncSend
  <2>3. CASE SyncReply(d)
    BY <2>1, <2>3 DEF SyncReply
  <2> QED BY <1>1, <1>2, <2>2, <2>3
          DEF DeviceNext, Enqueue, Blocked, Execute, Reload, SyncCreate, SyncNothing, SyncFail
<1>3. ASSUME NEW r \in RequestId, WorkerNext(r) PROVE CommitDecided'
  <2>1. CASE WorkerRead(r)
    <3>1. ASSUME NEW q \in RequestId, request'[q].pc = "commit" PROVE request'[q] = request[q]
      BY <2>1, <3>1, WorkerReadFields
    <3> QED BY <3>1 DEF CommitDecided, Command
  <2>2. CASE WorkerRefuse(r)
    BY <2>2, AnswerDecided DEF WorkerRefuse
  <2>3. CASE WorkerReplay(r)
    BY <2>3, AnswerDecided DEF WorkerReplay
  <2>4. CASE WorkerPrepare(r)
    <3>1. CASE request' = Answer(r, "conflict", "check")
      BY <2>4, <3>1, AnswerDecided DEF WorkerPrepare
    <3>2. CASE request' = [request EXCEPT ![r].seen = server.seq, ![r].pc = "commit"]
      <4> SUFFICES ASSUME NEW q \in RequestId, request'[q].pc = "commit"
                   PROVE  Allowed(request'[q].view.status[Command(q)'.task], Command(q)'.to)
        BY DEF CommitDecided
      <4>1. /\ request'[r].todo = request[r].todo /\ request'[r].view = request[r].view
            /\ \A x \in RequestId \ {r} : request'[x] = request[x]
        BY <2>4, <3>2, PrepareFields DEF WorkerPrepare
      <4>2. Command(q)' = Command(q) /\ request'[q].view = request[q].view
        BY <4>1 DEF Command
      <4>3. CASE q = r
        BY <2>4, <4>2, <4>3, VerdictOk DEF WorkerPrepare
      <4>4. CASE q # r
        BY <4>1, <4>2, <4>4 DEF CommitDecided
      <4> QED BY <4>3, <4>4
    <3> QED BY <2>4, <3>1, <3>2 DEF WorkerPrepare
  <2>5. CASE WorkerCommit(r)
    BY <2>5, AnswerDecided DEF WorkerCommit
  <2> QED BY <1>3, <2>1, <2>2, <2>3, <2>4, <2>5 DEF WorkerNext
<1> QED BY <1>1, <1>2, <1>3 DEF Next, vars

-----------------------------------------------------------------------------
(* The ledger replays                                                      *)

LEMMA LastOfIs ==
  ASSUME NEW S \in SUBSET Nat, NEW m \in S, \A x \in S : x <= m
  PROVE  LastOf(S) = m
<1>1. LastOf(S) \in S /\ \A x \in S : x <= LastOf(S)
  BY Zenon DEF LastOf
<1>2. LastOf(S) <= m /\ m <= LastOf(S) /\ m \in Nat /\ LastOf(S) \in Nat
  BY <1>1
<1> HIDE DEF LastOf
<1> QED BY <1>2

\* The entries of a task before the i-th.
LEMMA BeforeType ==
  ASSUME TInv, NEW i \in 1..(Len(log) + 1), NEW t \in Task
  PROVE  /\ Before(i, t) \in SUBSET (1..Len(log)) /\ IsFiniteSet(Before(i, t))
         /\ Cardinality(Before(i, t)) \in Nat
<1>1. Len(log) \in Nat
  BY LenProperties DEF TInv, Types
<1>2. Before(i, t) \in SUBSET (1..Len(log))
  BY <1>1 DEF Before
<1>3. IsFiniteSet(1..Len(log))
  BY <1>1, FS_Interval
<1> HIDE DEF Before
<1>4. IsFiniteSet(Before(i, t))
  BY <1>2, <1>3, FS_Subset
<1> QED BY <1>2, <1>4, FS_CardinalityType

\* A commit leaves what was before as it is.
LEMMA BeforeKept ==
  ASSUME TInv, NEW r \in RequestId, Committed(r), NEW i \in 1..(Len(log) + 1), NEW t \in Task
  PROVE  Before(i, t)' = Before(i, t)
<1>1. Len(log) \in Nat /\ \A k \in 1..Len(log) : log'[k] = log[k]
  BY CommitFields
<1>2. 1..(i - 1) \subseteq 1..Len(log)
  BY <1>1
<1> QED BY <1>1, <1>2 DEF Before

LEMMA StatusKept ==
  ASSUME TInv, LastsExist, NEW r \in RequestId, Committed(r),
         NEW i \in 1..(Len(log) + 1), NEW t \in Task
  PROVE  StatusBefore(i, t)' = StatusBefore(i, t)
<1>1. Before(i, t)' = Before(i, t)
  BY BeforeKept
<1>2. CASE Before(i, t) = {}
  BY <1>1, <1>2 DEF StatusBefore
<1>3. CASE Before(i, t) # {}
  <2>1. PICK m \in Before(i, t) : \A x \in Before(i, t) : x <= m
    BY <1>3 DEF LastsExist
  <2>2. Before(i, t) \in SUBSET Nat /\ m \in 1..Len(log)
    BY <2>1, BeforeType
  <2>3. LastOf(Before(i, t)) = m
    BY <2>1, <2>2, LastOfIs
  <2>4. log'[m] = log[m]
    BY <2>2, CommitFields
  <2>5. StatusBefore(i, t) = log[m].cmd.to
    BY <1>3, <2>3 DEF StatusBefore
  <2>6. StatusBefore(i, t)' = log'[m].cmd.to
    BY <1>1, <1>3, <2>3 DEF StatusBefore
  <2> QED BY <2>4, <2>5, <2>6
<1> QED BY <1>2, <1>3

\* What the new entry adds to what was before it.
LEMMA BeforeNew ==
  ASSUME TInv, NEW r \in RequestId, Committed(r), NEW t \in Task, NEW n, n = Len(log)
  PROVE  Before(n + 2, t)' = IF Command(r).task = t THEN Before(n + 1, t) \cup {n + 1}
                             ELSE Before(n + 1, t)
<1>1. /\ n \in Nat /\ \A k \in 1..n : log'[k] = log[k]
      /\ log'[n + 1].cmd = Command(r)
  BY CommitFields
<1>2. 1..(n + 2 - 1) = 1..n \cup {n + 1} /\ 1..(n + 1 - 1) = 1..n
  BY <1>1
<1>3. Before(n + 2, t)' = {j \in 1..n \cup {n + 1} : log'[j].cmd.task = t}
  BY <1>2 DEF Before
<1>4. Before(n + 1, t) = {j \in 1..n : log[j].cmd.task = t}
  BY <1>2 DEF Before
<1>5. {j \in 1..n : log'[j].cmd.task = t} = {j \in 1..n : log[j].cmd.task = t}
  BY <1>1
<1>6. {j \in 1..n \cup {n + 1} : log'[j].cmd.task = t}
        = {j \in 1..n : log'[j].cmd.task = t} \cup {j \in {n + 1} : log'[j].cmd.task = t}
  BY Zenon
<1>7. {j \in {n + 1} : log'[j].cmd.task = t} = IF Command(r).task = t THEN {n + 1} ELSE {}
  BY <1>1
<1> QED BY <1>3, <1>4, <1>5, <1>6, <1>7

LEMMA StepLasts == TInv /\ LastsExist /\ [Next]_vars => LastsExist'
<1> SUFFICES ASSUME TInv, LastsExist, [Next]_vars PROVE LastsExist'
  OBVIOUS
<1>1. CASE UNCHANGED <<server, log>>
  BY <1>1 DEF LastsExist, Before
<1>2. ASSUME NEW r \in RequestId, Committed(r) PROVE LastsExist'
  <2> SUFFICES ASSUME NEW i \in 1..(Len(log') + 1), NEW t \in Task, Before(i, t)' # {}
               PROVE  \E m \in Before(i, t)' : \A x \in Before(i, t)' : x <= m
    BY DEF LastsExist
  <2> DEFINE n == Len(log)
  <2>1. n \in Nat /\ Len(log') = n + 1
    BY <1>2, CommitFields
  <2>2. CASE i \in 1..(n + 1)
    BY <1>2, <2>2, BeforeKept DEF LastsExist
  <2>3. CASE i = n + 2
    <3>1. Before(n + 1, t) \in SUBSET (1..n) /\ n + 1 \in 1..(n + 1)
      BY <2>1, BeforeType
    <3>2. Before(i, t)' = IF Command(r).task = t THEN Before(n + 1, t) \cup {n + 1}
                          ELSE Before(n + 1, t)
      BY <1>2, <2>3, BeforeNew
    <3>3. CASE Command(r).task = t
      <4>1. n + 1 \in Before(i, t)' /\ \A x \in Before(i, t)' : x <= n + 1
        BY <2>1, <3>1, <3>2, <3>3
      <4> QED BY <4>1
    <3>4. CASE Command(r).task # t
      BY <3>1, <3>2, <3>4 DEF LastsExist
    <3> QED BY <3>3, <3>4
  <2> QED BY <2>1, <2>2, <2>3
<1> QED BY <1>1, <1>2, ServerStep

\* What a task is after the entry a commit adds.
LEMMA NewStatus ==
  ASSUME TInv, LastsExist, LedgerReplays, NEW r \in RequestId, Committed(r),
         NEW n, n = Len(log), NEW t \in Task
  PROVE  /\ server'.status[t] = StatusBefore(n + 2, t)'
         /\ server'.rev[t] = Cardinality(Before(n + 2, t)')
<1>1. /\ n \in Nat /\ log'[n + 1].cmd = Command(r) /\ Command(r) \in CommandOf
      /\ server' = After(server, Command(r)) /\ server \in Runbook
  BY CommitFields DEF TInv, Types
<1>2. /\ server'.status = [server.status EXCEPT ![Command(r).task] = Command(r).to]
      /\ server'.rev = [server.rev EXCEPT ![Command(r).task] = @ + 1]
  BY <1>1, AfterFields
<1>3. /\ server.status \in [Task -> Status] /\ server.rev \in [Task -> Nat]
      /\ Command(r).task \in Task
  BY <1>1 DEF Runbook, CommandOf
<1>4. server.status[t] = StatusBefore(n + 1, t) /\ server.rev[t] = Cardinality(Before(n + 1, t))
  BY DEF LedgerReplays
<1>5. Before(n + 2, t)' = IF Command(r).task = t THEN Before(n + 1, t) \cup {n + 1}
                          ELSE Before(n + 1, t)
  BY BeforeNew
<1>6. n + 1 \in 1..(Len(log) + 1)
  BY <1>1
<1>7. Before(n + 1, t) \in SUBSET (1..n) /\ IsFiniteSet(Before(n + 1, t))
  BY <1>6, BeforeType
<1>8. CASE Command(r).task = t
  <2>1. n + 1 \notin Before(n + 1, t)
    BY <1>1, <1>7
  <2>2. Cardinality(Before(n + 2, t)') = Cardinality(Before(n + 1, t)) + 1
    BY <1>5, <1>7, <1>8, <2>1, FS_AddElement
  <2>3. LastOf(Before(n + 2, t)') = n + 1
    <3>1. /\ Before(n + 2, t)' \in SUBSET Nat /\ n + 1 \in Before(n + 2, t)'
          /\ \A x \in Before(n + 2, t)' : x <= n + 1
      BY <1>1, <1>5, <1>7, <1>8
    <3> QED BY <3>1, LastOfIs
  <2>4. StatusBefore(n + 2, t)' = Command(r).to
    BY <1>1, <1>5, <1>8, <2>3 DEF StatusBefore
  <2> QED BY <1>2, <1>3, <1>4, <1>8, <2>2, <2>4
<1>9. CASE Command(r).task # t
  <2>1. Before(n + 2, t)' = Before(n + 1, t)'
    BY <1>5, <1>6, <1>9, BeforeKept
  <2>2. StatusBefore(n + 2, t)' = StatusBefore(n + 1, t)'
    BY <2>1 DEF StatusBefore
  <2>3. StatusBefore(n + 1, t)' = StatusBefore(n + 1, t)
    BY <1>6, StatusKept
  <2> QED BY <1>2, <1>3, <1>4, <1>5, <1>9, <2>2, <2>3
<1> QED BY <1>8, <1>9

\* The i-th entry was decided on what was before it.
EntryReplays(i) ==
  /\ log[i].from = StatusBefore(i, log[i].cmd.task)
  /\ log[i].cmd.rev = Cardinality(Before(i, log[i].cmd.task))
  /\ Allowed(log[i].from, log[i].cmd.to)

\* The tasks are what the first n - 1 entries leave.
TasksReplay(n) ==
  \A t \in Task : /\ server.status[t] = StatusBefore(n, t)
                  /\ server.rev[t] = Cardinality(Before(n, t))

LEMMA ReplayParts ==
  LedgerReplays <=> /\ \A i \in 1..Len(log) : EntryReplays(i)
                    /\ TasksReplay(Len(log) + 1)
                    /\ server.seq = Len(log)
BY DEF LedgerReplays, EntryReplays, TasksReplay

\* The same of the next state, of an entry whose task is known.
LEMMA EntryReplaysNext ==
  ASSUME NEW i, NEW t, log'[i].cmd.task = t,
         log'[i].from = StatusBefore(i, t)', log'[i].cmd.rev = Cardinality(Before(i, t)'),
         Allowed(log'[i].from, log'[i].cmd.to)
  PROVE  EntryReplays(i)'
<1>1. Before(i, log[i].cmd.task)' = Before(i, t)'
  BY DEF Before
<1>2. StatusBefore(i, log[i].cmd.task)' = StatusBefore(i, t)'
  BY <1>1 DEF StatusBefore
<1> QED BY <1>1, <1>2 DEF EntryReplays

LEMMA TasksReplayNext ==
  ASSUME NEW n, Len(log') + 1 = n, TasksReplay(n)'
  PROVE  TasksReplay(Len(log) + 1)'
<1> SUFFICES ASSUME NEW t \in Task
             PROVE  /\ server'.status[t] = StatusBefore(Len(log) + 1, t)'
                    /\ server'.rev[t] = Cardinality(Before(Len(log) + 1, t)')
  BY DEF TasksReplay
<1>1. Before(Len(log) + 1, t)' = Before(n, t)'
  BY DEF Before
<1>2. StatusBefore(Len(log) + 1, t)' = StatusBefore(n, t)'
  BY <1>1 DEF StatusBefore
<1> QED BY <1>1, <1>2 DEF TasksReplay

LEMMA StepReplays ==
  TInv /\ CommitDecided /\ LastsExist /\ LedgerReplays /\ [Next]_vars => LedgerReplays'
<1> SUFFICES ASSUME TInv, CommitDecided, LastsExist, LedgerReplays, [Next]_vars
             PROVE  LedgerReplays'
  OBVIOUS
<1>1. CASE UNCHANGED <<server, log>>
  BY <1>1 DEF LedgerReplays, StatusBefore, Before
<1>2. ASSUME NEW r \in RequestId, Committed(r) PROVE LedgerReplays'
  <2>1. PICK n \in Nat : n = Len(log)
    BY <1>2, CommitFields
  <2>2. PICK c \in CommandOf : c = Command(r)
    BY <1>2, CommitFields
  <2>3. /\ Len(log') = n + 1 /\ \A k \in 1..n : log'[k] = log[k]
        /\ log'[n + 1].cmd = c /\ log'[n + 1].from = request[r].view.status[c.task]
        /\ server' = After(server, c) /\ c.task \in Task
    BY <1>2, <2>1, <2>2, CommitFields DEF CommandOf
  <2>4. /\ server.rev[c.task] = c.rev
        /\ server.status[c.task] = request[r].view.status[c.task]
        /\ Allowed(request[r].view.status[c.task], c.to)
    BY <1>2, <2>2 DEF Committed, CommitAllowed, TaskUnchanged, CommitDecided
  <2>5. ASSUME NEW i \in 1..(n + 1) PROVE EntryReplays(i)'
    <3>1. CASE i \in 1..n
      <4>0. log[i] \in LogEntry
        BY <2>1, <3>1, ElementOfSeq DEF TInv, Types
      <4>1. PICK t \in Task : t = log[i].cmd.task
        BY <4>0 DEF LogEntry, CommandOf
      <4>2. log'[i] = log[i] /\ i \in 1..(Len(log) + 1)
        BY <2>1, <2>3, <3>1
      <4>3. /\ log[i].from = StatusBefore(i, t)
            /\ log[i].cmd.rev = Cardinality(Before(i, t))
            /\ Allowed(log[i].from, log[i].cmd.to)
        BY <2>1, <3>1, <4>1 DEF LedgerReplays
      <4>4. StatusBefore(i, t)' = StatusBefore(i, t) /\ Before(i, t)' = Before(i, t)
        BY <1>2, <4>2, BeforeKept, StatusKept
      <4> QED BY <4>1, <4>2, <4>3, <4>4, EntryReplaysNext
    <3>2. CASE i = n + 1
      <4>1. PICK t \in Task : t = c.task
        BY <2>3
      <4>2. n + 1 \in 1..(Len(log) + 1)
        BY <2>1
      <4>3. StatusBefore(i, t)' = StatusBefore(i, t) /\ Before(i, t)' = Before(i, t)
        BY <1>2, <3>2, <4>2, BeforeKept, StatusKept
      <4>4. server.status[t] = StatusBefore(i, t) /\ server.rev[t] = Cardinality(Before(i, t))
        BY <2>1, <3>2 DEF LedgerReplays
      <4>5. log'[i].cmd = c /\ log'[i].from = request[r].view.status[t]
        BY <2>3, <3>2, <4>1
      <4> QED BY <2>4, <4>1, <4>3, <4>4, <4>5, EntryReplaysNext
    <3> QED BY <3>1, <3>2
  <2>6. TasksReplay(n + 2)'
    BY <1>2, <2>1, NewStatus DEF TasksReplay
  <2>7. TasksReplay(Len(log) + 1)'
    <3>1. Len(log') + 1 = n + 2
      BY <2>1, <2>3
    <3> QED BY <2>6, <3>1, TasksReplayNext
  <2>8. server'.seq = Len(log')
    <3>1. server.seq = n /\ server \in Runbook
      BY <2>1 DEF LedgerReplays, TInv, Types
    <3>2. server'.seq = n + 1
      BY <2>3, <3>1, AfterFields
    <3> QED BY <2>3, <3>2
  <2>9. (\A i \in 1..Len(log) : EntryReplays(i))'
    BY <2>3, <2>5
  <2>10. (LedgerReplays <=> /\ \A i \in 1..Len(log) : EntryReplays(i)
                            /\ TasksReplay(Len(log) + 1)
                            /\ server.seq = Len(log))'
    BY ReplayParts, PTL
  <2> QED BY <2>7, <2>8, <2>9, <2>10
<1> QED BY <1>1, <1>2, ServerStep

-----------------------------------------------------------------------------
(* The theorems                                                            *)

LEMMA InitInvariant == Init => IInv
<1> SUFFICES ASSUME Init PROVE IInv
  OBVIOUS
<1>1. TInv
  BY InitTyped
<1>2. server = Frozen /\ log = <<>> /\ Len(log) = 0
  BY EmptySeq DEF Init
<1>3. KeysLogged /\ ExactlyOnce
  BY <1>2 DEF Frozen, KeysLogged, ExactlyOnce
<1>4. AnsweredStored /\ CommitDecided
  BY DEF Init, NewRequest, AnsweredStored, CommitDecided
<1>5. NothingLost
  BY DEF Init, NothingLost
<1>6. \A i \in 1..(Len(log) + 1), t \in Task : Before(i, t) = {}
  BY <1>2 DEF Before
<1>7. LastsExist
  BY <1>6 DEF LastsExist
<1>8. LedgerReplays
  <2>1. ASSUME NEW t \in Task
        PROVE  /\ server.status[t] = StatusBefore(Len(log) + 1, t)
               /\ server.rev[t] = Cardinality(Before(Len(log) + 1, t))
    <3>1. Before(Len(log) + 1, t) = {}
      BY <1>2, <1>6
    <3>2. StatusBefore(Len(log) + 1, t) = "pending" /\ Cardinality(Before(Len(log) + 1, t)) = 0
      BY <3>1, FS_EmptySet DEF StatusBefore
    <3> QED BY <1>2, <3>2 DEF Frozen
  <2> QED BY <1>2, <2>1 DEF LedgerReplays, Frozen
<1> QED BY <1>1, <1>3, <1>4, <1>5, <1>7, <1>8 DEF IInv

LEMMA StepInvariant == IInv /\ [Next]_vars => IInv'
<1> SUFFICES ASSUME IInv, [Next]_vars PROVE IInv'
  OBVIOUS
<1>1. TInv'
  BY StepTyped DEF IInv
<1>2. KeysLogged' /\ AnsweredStored'
  BY StepKeys, StepAnswered DEF IInv
<1>3. CommitDecided' /\ ExactlyOnce' /\ NothingLost'
  BY StepDecided, StepExactlyOnce, StepNothingLost DEF IInv
<1>4. LastsExist' /\ LedgerReplays'
  BY StepLasts, StepReplays DEF IInv
<1> QED BY <1>1, <1>2, <1>3, <1>4 DEF IInv

\* In every reachable state the strengthened invariant holds.
THEOREM Invariance == Spec => []IInv
BY InitInvariant, StepInvariant, PTL DEF Spec

\* The variables have their types.
THEOREM TypeCorrect == Spec => []TypeOK
<1>1. IInv => TypeOK
  <2> SUFFICES ASSUME IInv PROVE TypeOK
    OBVIOUS
  <2>1. IsRunbook(server)
    BY DEF IInv, TInv, Types, Runbook, IsRunbook
  <2>2. \A i \in 1..Len(log) : log[i].cmd \in CommandOf /\ log[i].from \in Status
    <3>1. \A i \in 1..Len(log) : log[i] \in LogEntry
      BY ElementOfSeq DEF IInv, TInv, Types
    <3> QED BY <3>1 DEF LogEntry
  <2>3. ASSUME NEW r \in RequestId
        PROVE  /\ request[r].pc \in {"none", "read", "check", "commit", "reply", "done"}
               /\ \A i \in 1..Len(request[r].todo) : request[r].todo[i] \in CommandOf
               /\ IsRunbook(request[r].view) /\ request[r].seen \in Nat
               /\ request[r].acks \subseteq Ack
    <3>1. request[r] \in RequestType
      BY DEF IInv, TInv, Types
    <3>2. request[r].todo \in Seq(CommandOf) /\ request[r].view \in Runbook
      BY <3>1 DEF RequestType
    <3>3. \A i \in 1..Len(request[r].todo) : request[r].todo[i] \in CommandOf
      BY <3>2, ElementOfSeq
    <3>4. IsRunbook(request[r].view)
      BY <3>2 DEF Runbook, IsRunbook
    <3> QED BY <3>1, <3>3, <3>4 DEF RequestType
  <2>4. ASSUME NEW d \in Device
        PROVE  /\ \A e \in outbox[d] : /\ e.cmd \in CommandOf
                                       /\ e.state \in {"pending", "conflict", "rejected"}
               /\ IsRunbook(cache[d]) /\ IsRunbook(bus[d])
               /\ nextSeq[d] \in Nat /\ queued[d] \subseteq CommandOf
               /\ sync[d].pc \in {"idle", "created", "waiting"}
               /\ issued[d] \subseteq CommandOf /\ blocked[d] \in Nat /\ reloads[d] \in Nat
    <3>1. outbox[d] \in SUBSET Entry /\ cache[d] \in Runbook /\ bus[d] \in Runbook
          /\ sync[d] \in SyncType
      BY DEF IInv, TInv, Types
    <3>2. nextSeq[d] \in Nat /\ queued[d] \subseteq CommandOf /\ issued[d] \subseteq CommandOf
          /\ blocked[d] \in Nat /\ reloads[d] \in Nat
      BY DEF IInv, TInv, Types
    <3> QED BY <3>1, <3>2 DEF Entry, Runbook, IsRunbook, SyncType
  <2> QED BY <2>1, <2>2, <2>3, <2>4 DEF TypeOK
<1> QED BY <1>1, Invariance, PTL

\* However requests interleave, the ledger of the worker replays into its tasks.
THEOREM Replay == Spec => []LedgerReplays
<1>1. IInv => LedgerReplays
  BY DEF IInv
<1> QED BY <1>1, Invariance, PTL

\* However often a command is sent, it is applied once.
THEOREM OnceOnly == Spec => []ExactlyOnce
<1>1. IInv => ExactlyOnce
  BY DEF IInv
<1> QED BY <1>1, Invariance, PTL

\* A queued transition leaves the outbox only when the worker has it.
THEOREM NothingIsLost == Spec => []NothingLost
<1>1. IInv => NothingLost
  BY DEF IInv
<1> QED BY <1>1, Invariance, PTL

\* What a device is told was applied is in the ledger.
THEOREM AppliedStays == Spec => []AppliedIsDurable
<1>1. IInv => AppliedIsDurable
  <2> SUFFICES ASSUME IInv, NEW r \in RequestId, NEW a \in request[r].acks,
                      a.status \in {"applied", "already-applied"}
               PROVE  \E i \in 1..Len(log) : log[i].cmd.key = a.key
    BY DEF AppliedIsDurable
  <2>1. a.key \in server.keys
    BY DEF IInv, AnsweredStored, Done
  <2> QED BY <2>1 DEF IInv, KeysLogged
<1> QED BY <1>1, Invariance, PTL

-----------------------------------------------------------------------------
(*****************************************************************************)
(* The Incidents of the event day: IncidentSync, for any Incidents,          *)
(* commands, sessions and number of failures: the worker's register          *)
(* implements the ledger, no command is lost, only an Incident that was      *)
(* acknowledged and has an owner is resolved or closed, and a page that says *)
(* it is online shows a register the worker stored.                          *)
(*****************************************************************************)

IncEntry  == {"none", "pending", "conflict", "rejected"}
IncAnswer == {"none", "applied", "already-applied", "conflict", "rejected"}

Phase == {"idle", "ensure", "execute", "enqueue", "saveRead", "savePut", "applied", "create",
          "list", "get", "relist", "mark", "sent", "entries", "acknowledge", "finish",
          "discard", "discarded"}

\* Where a call goes on when its register is saved.
Sequel == {"idle", "execute", "applied", "finish", "entries", "discarded"}

CallType    == [pc : Phase, then : Sequel, reg : Register, todo : SUBSET IncidentKey, batch : SUBSET IncidentKey,
                status : [IncidentKey -> IncEntry \cup IncAnswer], outcome : {"online", "offline", "conflict"}]
IncRequestType == [pc : {"none", "read", "work"}, reg : Register, todo : SUBSET IncidentKey,
                acks : [IncidentKey -> IncAnswer]]

IncTypes ==
  /\ row \in Register \cup {NoRegister}
  /\ {copy, incidentBus} \subseteq Register \cup {NoRegister}
  /\ handling \in [Call -> IncRequestType]
  /\ call \in [Call -> CallType]
  /\ outgoing \in [IncidentKey -> IncEntry]

\* The register a handler has was the row: it is, unless the row has moved on.
HandlerSees(c) ==
  /\ row # NoRegister
  /\ handling[c].reg.rev <= row.rev
  /\ handling[c].reg.rev = row.rev => handling[c].reg = row
  /\ handling[c].reg.keys \subseteq row.keys

Handlers == \A c \in Call : handling[c].pc = "work" => HandlerSees(c)

\* What is answered as applied, or was, is in the row.
AnswersHold ==
  \A c \in Call : \A k \in IncidentKey :
    handling[c].acks[k] \in Removable \/ call[c].status[k] \in Removable => k \in Stored.keys

\* What a call puts back is an entry.
PutsEntries(c) ==
  \A k \in call[c].todo :
    /\ At(c, "mark") => call[c].status[k] \in IncEntry \ {"none"}
    /\ At(c, "acknowledge") => call[c].status[k] # "none"

AllPutEntries == \A c \in Call : PutsEntries(c)

IncIInv == IncTypes /\ Handlers /\ AnswersHold /\ AllPutEntries /\ NoEntryLost

-----------------------------------------------------------------------------
LEMMA CreatedType == Created \in Register /\ Created.keys = {} /\ Created.rev = 0
BY SyncConstants, IncidentConstants DEF Created, Register, Record, Unreported, IncidentStatus,
   Level

LEMMA StoredType == ASSUME IncTypes PROVE Stored \in Register
BY CreatedType DEF IncTypes, Stored

LEMMA StoredAfterStore ==
  ASSUME NEW reg \in Register, row' = reg
  PROVE  Stored' = reg
BY SyncConstants, IncidentConstants DEF Stored

LEMMA CommandFields ==
  ASSUME NEW k \in AnyKey, NEW rev
  PROVE  /\ CommandAt(k, rev).key = k
         /\ CommandAt(k, rev).incident = IncidentOf[k] /\ IncidentOf[k] \in Incident
         /\ CommandAt(k, rev).rev = rev
         /\ CommandAt(k, rev).op = OpOf[k] /\ OpOf[k] \in Op
BY SyncConstants, IncidentConstants DEF CommandAt

LEMMA OperationArgument ==
  ASSUME NEW op \in Op
  PROVE  /\ op.kind \in {"report", "acknowledge", "emergency", "note", "owner", "handoff",
                         "escalate", "status"}
         /\ op.kind \in {"owner", "handoff"} => op.arg \in Owner
         /\ op.kind = "escalate" => op.arg \in Level
         /\ op.kind = "status" => op.arg \in IncidentStatus
<1>1. CASE op \in [kind : {"report", "acknowledge", "emergency", "note"}]
  BY <1>1
<1>2. CASE op \in [kind : {"owner"}, arg : Owner] \cup [kind : {"handoff"}, from : Owner, arg : Owner]
  BY <1>2
<1>3. CASE op \in [kind : {"escalate"}, arg : Level]
  BY <1>3
<1>4. CASE op \in [kind : {"status"}, arg : IncidentStatus \ {"none"}]
  BY <1>4
<1> QED BY <1>1, <1>2, <1>3, <1>4 DEF Op

\* A command keeps an Incident an Incident.
LEMMA MutatedType ==
  ASSUME NEW in \in Record, NEW op \in Op, op.kind # "report"
  PROVE  Mutated(in, op) \in Record
<1> DEFINE rev == in.rev + 1
<1>r. rev \in Nat
  BY DEF Record
<1>a. /\ op.kind \in {"owner", "handoff"} => op.arg \in Owner
      /\ op.kind = "escalate" => op.arg \in Level
      /\ op.kind = "status" => op.arg \in IncidentStatus
  BY OperationArgument
<1>0. /\ op.kind = "status" => Mutated(in, op) = [in EXCEPT !.rev = rev, !.status = op.arg]
      /\ op.kind \in {"owner", "handoff"}
           => Mutated(in, op) = [in EXCEPT !.rev = rev, !.owner = op.arg]
      /\ op.kind = "acknowledge" => Mutated(in, op) = [in EXCEPT !.rev = rev, !.acked = TRUE]
      /\ op.kind = "escalate" => Mutated(in, op) = [in EXCEPT !.rev = rev, !.level = op.arg]
      /\ op.kind \in {"emergency", "note"} => Mutated(in, op) = [in EXCEPT !.rev = rev]
  BY DEF Mutated
<1> HIDE DEF rev
<1>1. CASE op.kind = "status"
  BY <1>r, <1>a, <1>0, <1>1, Zenon DEF Record
<1>2. CASE op.kind \in {"owner", "handoff"}
  BY <1>r, <1>a, <1>0, <1>2, Zenon DEF Record
<1>3. CASE op.kind = "acknowledge"
  BY <1>r, <1>0, <1>3, Zenon DEF Record
<1>4. CASE op.kind = "escalate"
  BY <1>r, <1>a, <1>0, <1>4, Zenon DEF Record
<1>5. CASE op.kind \in {"emergency", "note"}
  BY <1>r, <1>0, <1>5, Zenon DEF Record
<1> QED BY <1>1, <1>2, <1>3, <1>4, <1>5, OperationArgument

\* An accepted command gives a register, of the next revision, with its receipt.
LEMMA AfterType ==
  ASSUME NEW reg \in Register, NEW k \in AnyKey, NEW rev
  PROVE  /\ RegisterAfter(reg, CommandAt(k, rev)) \in Register
         /\ RegisterAfter(reg, CommandAt(k, rev)).rev = reg.rev + 1
         /\ RegisterAfter(reg, CommandAt(k, rev)).keys = reg.keys \cup {k}
<1> DEFINE cmd == CommandAt(k, rev)
           inc == IncidentOf[k]
           new == IF OpOf[k].kind = "report" THEN Reported
                  ELSE Mutated(reg.incident[inc], OpOf[k])
<1>1. /\ cmd.key = k /\ cmd.incident = inc /\ inc \in Incident
      /\ cmd.op = OpOf[k] /\ OpOf[k] \in Op
  BY CommandFields
<1>2. new \in Record
  <2>1. Reported \in Record
    BY DEF Reported, Record, IncidentStatus, Level
  <2>2. reg.incident[inc] \in Record
    BY <1>1 DEF Register
  <2> QED BY <1>1, <2>1, <2>2, MutatedType
<1>3. RegisterAfter(reg, cmd) = [rev |-> reg.rev + 1, keys |-> reg.keys \cup {k},
                         incident |-> [reg.incident EXCEPT ![inc] = new]]
  BY <1>1 DEF RegisterAfter
<1>4. [reg.incident EXCEPT ![inc] = new] \in [Incident -> Record]
  BY <1>1, <1>2 DEF Register
<1> HIDE DEF new, cmd
<1>5. reg.rev + 1 \in Nat /\ reg.keys \cup {k} \in SUBSET AnyKey
  BY DEF Register
<1>6. /\ RegisterAfter(reg, cmd) \in Register
      /\ RegisterAfter(reg, cmd).rev = reg.rev + 1
      /\ RegisterAfter(reg, cmd).keys = reg.keys \cup {k}
  BY <1>3, <1>4, <1>5 DEF Register
<1> QED BY <1>6 DEF cmd
-----------------------------------------------------------------------------
LEMMA StatusFacts ==
  /\ Retained \cap Removable = {} /\ "none" \notin Removable \cup Retained
  /\ Removable = IncAnswer \ IncEntry /\ Retained \subseteq IncEntry
BY DEF Retained, Removable, IncAnswer, IncEntry

LEMMA Constants ==
  /\ IdleCall \in CallType /\ NoRequest \in IncRequestType
  /\ IdleCall.status = Nothing /\ IdleCall.pc = "idle" /\ IdleCall.outcome = "online"
  /\ NoRequest.acks = Nothing /\ NoRequest.pc = "none"
  /\ Nothing \in [IncidentKey -> IncEntry] /\ Nothing \in [IncidentKey -> IncAnswer]
  /\ \A k \in IncidentKey : Nothing[k] = "none"
<1>1. /\ Nothing \in [IncidentKey -> IncEntry] /\ Nothing \in [IncidentKey -> IncAnswer]
      /\ Nothing \in [IncidentKey -> IncEntry \cup IncAnswer]
      /\ \A k \in IncidentKey : Nothing[k] = "none"
  BY DEF Nothing, IncEntry, IncAnswer
<1> QED BY <1>1, CreatedType DEF IdleCall, NoRequest, CallType, IncRequestType, Phase, Sequel

LEMMA InitIInv == IncidentInit => IncIInv
<1> SUFFICES ASSUME IncidentInit PROVE IncIInv
  OBVIOUS
<1>1. IncTypes
  BY Constants DEF IncidentInit, IncTypes
<1>2. Handlers /\ AnswersHold /\ AllPutEntries /\ NoEntryLost
  BY Constants, StatusFacts
     DEF IncidentInit, Handlers, AnswersHold, AllPutEntries, PutsEntries, NoEntryLost, At
<1> QED BY <1>1, <1>2 DEF IncIInv

-----------------------------------------------------------------------------
(* A step of the page changes one call and its request; the register it may   *)
(* create is the one that is there already.                                   *)

CallMoves(c, next) ==
  /\ call' = [call EXCEPT ![c] = next]
  /\ next \in CallType
  /\ \A k \in IncidentKey : next.status[k] \in Removable => k \in Stored.keys
  /\ \A k \in next.todo :
       /\ next.pc = "mark" => next.status[k] \in IncEntry \ {"none"}
       /\ next.pc = "acknowledge" => next.status[k] # "none"

RequestMoves(c) ==
  \/ handling' = handling
  \/ \E next \in IncRequestType :
       /\ handling' = [handling EXCEPT ![c] = next]
       /\ next.pc # "work" /\ next.acks = Nothing

PageStep(c) ==
  /\ row' \in {row, Stored}
  /\ {copy, incidentBus}' \subseteq Register \cup {NoRegister}
  /\ UNCHANGED call \/ \E next : CallMoves(c, next)
  /\ RequestMoves(c)
  /\ \/ UNCHANGED <<outgoing, enqueued, discarded>>
     \/ outgoing' \in [IncidentKey -> IncEntry] /\ NoEntryLost'

LEMMA PageStepKeeps ==
  ASSUME IncIInv, NEW c \in Call, PageStep(c)
  PROVE  IncIInv'
<1>s. /\ Stored' = Stored /\ row' \in Register \cup {NoRegister} /\ Stored \in Register
      /\ row # NoRegister => row' = row
  BY StoredType, SyncConstants, IncidentConstants DEF IncIInv, IncTypes, PageStep, Stored
<1>c. /\ call' \in [Call -> CallType]
      /\ \A d \in Call : call'[d] = call[d] \/ (d = c /\ CallMoves(c, call'[d]))
  BY DEF IncIInv, IncTypes, PageStep, CallMoves
<1>r. /\ handling' \in [Call -> IncRequestType]
      /\ \A d \in Call : \/ handling'[d] = handling[d]
                         \/ handling'[d].pc # "work" /\ handling'[d].acks = Nothing
  BY DEF IncIInv, IncTypes, PageStep, RequestMoves
<1>1. IncTypes'
  BY <1>s, <1>c, <1>r DEF IncIInv, IncTypes, PageStep
<1>2. Handlers'
  BY <1>s, <1>r DEF IncIInv, Handlers, HandlerSees
<1>3. AnswersHold'
  <2> SUFFICES ASSUME NEW d \in Call, NEW k \in IncidentKey,
                      handling'[d].acks[k] \in Removable \/ call'[d].status[k] \in Removable
               PROVE  k \in Stored.keys
    BY <1>s DEF AnswersHold
  <2>1. CASE handling'[d].acks[k] \in Removable
    BY <2>1, <1>r, Constants, StatusFacts DEF IncIInv, AnswersHold
  <2>2. CASE call'[d].status[k] \in Removable
    BY <2>2, <1>c DEF IncIInv, AnswersHold, CallMoves
  <2> QED BY <2>1, <2>2
<1>4. AllPutEntries'
  BY <1>c DEF IncIInv, AllPutEntries, PutsEntries, CallMoves, At
<1>5. NoEntryLost'
  BY <1>s DEF IncIInv, PageStep, NoEntryLost, Present
<1> QED BY <1>1, <1>2, <1>3, <1>4, <1>5 DEF IncIInv
-----------------------------------------------------------------------------
\* What a handler's step may rely on about the call it moves.
LEMMA CallFacts ==
  ASSUME IncIInv, NEW c \in Call
  PROVE  /\ call[c] \in CallType /\ handling[c] \in IncRequestType
         /\ \A k \in IncidentKey : call[c].status[k] \in Removable => k \in Stored.keys
         /\ \A k \in IncidentKey : handling[c].acks[k] \in Removable => k \in Stored.keys
         /\ PutsEntries(c)
         /\ \A k \in IncidentKey : outgoing[k] \notin Removable
BY StatusFacts DEF IncIInv, IncTypes, AnswersHold, AllPutEntries

\* A call that moves on without putting anything back.
LEMMA MovesOn ==
  ASSUME IncIInv, NEW c \in Call, NEW next \in CallType,
         call' = [call EXCEPT ![c] = next],
         next.status \in {call[c].status, handling[c].acks, outgoing, Nothing},
         next.pc \notin {"mark", "acknowledge"}
  PROVE  CallMoves(c, next)
BY CallFacts, Constants, StatusFacts DEF CallMoves

\* A step that leaves the worker and the outbox alone.
LEMMA LocalStep ==
  ASSUME IncIInv, NEW c \in Call, NEW next, CallMoves(c, next),
         UNCHANGED <<row, handling, outgoing, enqueued, discarded>>,
         {copy, incidentBus}' \subseteq Register \cup {NoRegister}
  PROVE  PageStep(c)
BY DEF PageStep, RequestMoves

LEMMA LocalSteps ==
  ASSUME IncIInv, NEW c \in Call,
         SaveRead(c) \/ SavePut(c) \/ Applied(c) \/ BeginSync(c) \/ List(c)
         \/ Get(c) \/ Finish(c) \/ BeginDiscard(c) \/ DiscardGet(c) \/ Discarded(c)
  PROVE  PageStep(c)
<1>f. /\ call[c] \in CallType
      /\ IdleCall \in CallType /\ IdleCall.status = Nothing /\ IdleCall.pc = "idle"
      /\ {copy, incidentBus, row} \subseteq Register \cup {NoRegister}
  BY CallFacts, Constants DEF IncIInv, IncTypes
<1>1. CASE SaveRead(c)
  <2> DEFINE next == [call[c] EXCEPT !.pc = IF copy # NoRegister /\ copy.rev > call[c].reg.rev
                                           THEN call[c].then ELSE "savePut"]
  <2>1. /\ next \in CallType /\ next.status \in {call[c].status, Nothing}
        /\ next.pc \notin {"mark", "acknowledge"}
    BY <1>f, <1>1 DEF SaveRead, CallType, Phase, Sequel
  <2>2. call' = [call EXCEPT ![c] = next]
    BY <1>1 DEF SaveRead, Goto, IncIInv, IncTypes, CallType
  <2>3. CallMoves(c, next)
    BY <2>1, <2>2, MovesOn
  <2> QED BY <1>1, <1>f, <2>3, LocalStep DEF SaveRead, CallType, memory, storage,
      histories
<1>2. CASE SavePut(c)
  <2> DEFINE next == [call[c] EXCEPT !.pc = call[c].then]
  <2>1. /\ next \in CallType /\ next.status \in {call[c].status, Nothing}
        /\ next.pc \notin {"mark", "acknowledge"}
    BY <1>f, <1>2 DEF SavePut, CallType, Phase, Sequel
  <2>2. call' = [call EXCEPT ![c] = next]
    BY <1>2 DEF SavePut, Goto, IncIInv, IncTypes, CallType
  <2>3. CallMoves(c, next)
    BY <2>1, <2>2, MovesOn
  <2> QED BY <1>2, <1>f, <2>3, LocalStep DEF SavePut, CallType, memory, storage,
      histories
<1>3. CASE Applied(c)
  <2> DEFINE next == [IdleCall EXCEPT !.pc = "create"]
  <2>1. /\ next \in CallType /\ next.status \in {call[c].status, Nothing}
        /\ next.pc \notin {"mark", "acknowledge"}
    BY <1>f, <1>3 DEF Applied, CallType, Phase, Sequel
  <2>2. call' = [call EXCEPT ![c] = next]
    BY <1>3 DEF Applied, IncIInv, IncTypes, CallType
  <2>3. CallMoves(c, next)
    BY <2>1, <2>2, MovesOn
  <2> QED BY <1>3, <1>f, <2>3, LocalStep DEF Applied, CallType, memory, storage,
      histories
<1>4. CASE BeginSync(c)
  <2> DEFINE next == [call[c] EXCEPT !.pc = "create"]
  <2>1. /\ next \in CallType /\ next.status \in {call[c].status, Nothing}
        /\ next.pc \notin {"mark", "acknowledge"}
    BY <1>f, <1>4 DEF BeginSync, CallType, Phase, Sequel
  <2>2. call' = [call EXCEPT ![c] = next]
    BY <1>4 DEF BeginSync, Goto, IncIInv, IncTypes, CallType
  <2>3. CallMoves(c, next)
    BY <2>1, <2>2, MovesOn
  <2> QED BY <1>4, <1>f, <2>3, LocalStep DEF BeginSync, CallType, memory, storage,
      histories
<1>5. CASE List(c)
  <2> DEFINE batch == {k \in IncidentKey : Present(k)}
             next == [call[c] EXCEPT !.pc = IF batch = {} THEN "get" ELSE "relist",
                                     !.todo = batch]
  <2>1. /\ next \in CallType /\ next.status \in {call[c].status, Nothing}
        /\ next.pc \notin {"mark", "acknowledge"}
    BY <1>f, <1>5 DEF List, CallType, Phase, Sequel
  <2>2. call' = [call EXCEPT ![c] = next]
    BY <1>5 DEF List, IncIInv, IncTypes, CallType
  <2>3. CallMoves(c, next)
    BY <2>1, <2>2, MovesOn
  <2> QED BY <1>5, <1>f, <2>3, LocalStep DEF List, CallType, memory, storage,
      histories
<1>6. CASE Get(c)
  <2> DEFINE next == [call[c] EXCEPT !.pc = "saveRead", !.reg = row, !.then = "finish"]
  <2>1. /\ next \in CallType /\ next.status \in {call[c].status, Nothing}
        /\ next.pc \notin {"mark", "acknowledge"}
    BY <1>f, <1>6 DEF Get, CallType, Phase, Sequel
  <2>2. call' = [call EXCEPT ![c] = next]
    BY <1>6 DEF Get, Save, IncIInv, IncTypes, CallType
  <2>3. CallMoves(c, next)
    BY <2>1, <2>2, MovesOn
  <2> QED BY <1>6, <1>f, <2>3, LocalStep DEF Get, CallType, memory, storage,
      histories
<1>7. CASE Finish(c)
  <2> DEFINE next == IdleCall
  <2>1. /\ next \in CallType /\ next.status \in {call[c].status, Nothing}
        /\ next.pc \notin {"mark", "acknowledge"}
    BY <1>f
  <2>2. call' = [call EXCEPT ![c] = next]
    BY <1>7 DEF Finish, IncIInv, IncTypes, CallType
  <2>3. CallMoves(c, next)
    BY <2>1, <2>2, MovesOn
  <2> QED BY <1>7, <1>f, <2>3, LocalStep DEF Finish, CallType, memory, storage,
      histories
<1>8. CASE BeginDiscard(c)
  <2> DEFINE next == [call[c] EXCEPT !.pc = "discard",
                                     !.todo = {k \in IncidentKey : outgoing[k] \in Retained}]
  <2>1. /\ next \in CallType /\ next.status \in {call[c].status, Nothing}
        /\ next.pc \notin {"mark", "acknowledge"}
    BY <1>f, <1>8 DEF BeginDiscard, CallType, Phase, Sequel
  <2>2. call' = [call EXCEPT ![c] = next]
    BY <1>8 DEF BeginDiscard, IncIInv, IncTypes, CallType
  <2>3. CallMoves(c, next)
    BY <2>1, <2>2, MovesOn
  <2> QED BY <1>8, <1>f, <2>3, LocalStep DEF BeginDiscard, CallType, memory, storage,
      histories
<1>9. CASE DiscardGet(c)
  <2> DEFINE next == [call[c] EXCEPT !.pc = "saveRead", !.reg = row, !.then = "discarded"]
  <2>1. /\ next \in CallType /\ next.status \in {call[c].status, Nothing}
        /\ next.pc \notin {"mark", "acknowledge"}
    BY <1>f, <1>9 DEF DiscardGet, CallType, Phase, Sequel
  <2>2. call' = [call EXCEPT ![c] = next]
    BY <1>9 DEF DiscardGet, Save, IncIInv, IncTypes, CallType
  <2>3. CallMoves(c, next)
    BY <2>1, <2>2, MovesOn
  <2> QED BY <1>9, <1>f, <2>3, LocalStep DEF DiscardGet, CallType, memory, storage,
      histories
<1>10. CASE Discarded(c)
  <2> DEFINE next == IdleCall
  <2>1. /\ next \in CallType /\ next.status \in {call[c].status, Nothing}
        /\ next.pc \notin {"mark", "acknowledge"}
    BY <1>f
  <2>2. call' = [call EXCEPT ![c] = next]
    BY <1>10 DEF Discarded, IncIInv, IncTypes, CallType
  <2>3. CallMoves(c, next)
    BY <2>1, <2>2, MovesOn
  <2> QED BY <1>10, <1>f, <2>3, LocalStep DEF Discarded, CallType, memory, storage,
      histories
<1> QED BY <1>1, <1>2, <1>3, <1>4, <1>5, <1>6, <1>7, <1>8, <1>9, <1>10

\* A command is executed on the bus.
LEMMA ExecuteStep ==
  ASSUME IncIInv, NEW c \in Call, NEW k \in IncidentKey, ExecuteCommand(c, k),
         UNCHANGED <<row, handling, copy, outgoing, enqueued, discarded>>
  PROVE  PageStep(c)
<1>1. incidentBus' \in Register
  BY AfterType DEF IncIInv, IncTypes, ExecuteCommand, Informed, AnyKey
<1> DEFINE next == [call[c] EXCEPT !.pc = "enqueue", !.reg = incidentBus', !.todo = {k}]
<1>2. /\ next \in CallType /\ next.status = call[c].status
      /\ next.pc \notin {"mark", "acknowledge"}
  BY <1>1, CallFacts DEF CallType, Phase
<1>3. call' = [call EXCEPT ![c] = next]
  BY DEF ExecuteCommand, IncIInv, IncTypes, CallType
<1>4. CallMoves(c, next)
  BY <1>2, <1>3, MovesOn
<1> QED BY <1>1, <1>4, LocalStep DEF IncIInv, IncTypes

LEMMA ClickSteps ==
  ASSUME IncIInv, NEW c \in Call, NEW k \in IncidentKey,
         ClickAction(c, k) \/ ClickFirst(c, k) \/ ExecuteFirst(c, k)
  PROVE  PageStep(c)
<1>1. CASE ClickAction(c, k)
  BY <1>1, ExecuteStep DEF ClickAction, storage, histories
<1>2. CASE ClickFirst(c, k)
  <2> DEFINE next == [call[c] EXCEPT !.pc = "ensure", !.todo = {k}]
  <2>1. /\ next \in CallType /\ next.status = call[c].status
        /\ next.pc \notin {"mark", "acknowledge"}
    BY CallFacts DEF CallType, Phase
  <2>2. call' = [call EXCEPT ![c] = next]
    BY <1>2 DEF ClickFirst, IncIInv, IncTypes, CallType
  <2>3. CallMoves(c, next)
    BY <2>1, <2>2, MovesOn
  <2> QED BY <1>2, <2>3, LocalStep DEF ClickFirst, storage, memory, histories,
      IncIInv, IncTypes
<1>3. CASE ExecuteFirst(c, k)
  BY <1>3, ExecuteStep DEF ExecuteFirst, storage, histories
<1> QED BY <1>1, <1>2, <1>3

\* The register is created on the worker, or found there, or the worker fails.
LEMMA CreateSteps ==
  ASSUME IncIInv, NEW c \in Call, Ensure(c) \/ EnsureLocal(c) \/ Create(c) \/ Fail(c)
  PROVE  PageStep(c)
<1>f. /\ call[c] \in CallType /\ Stored \in Register /\ Created \in Register
      /\ IdleCall \in CallType /\ IdleCall.status = Nothing /\ IdleCall.pc = "idle"
      /\ {copy, incidentBus} \subseteq Register \cup {NoRegister}
  BY CallFacts, Constants, CreatedType, StoredType DEF IncIInv, IncTypes
<1>1. CASE Ensure(c)
  <2> DEFINE next == [call[c] EXCEPT !.pc = "saveRead", !.reg = Stored, !.then = "execute"]
  <2>1. /\ next \in CallType /\ next.status = call[c].status
        /\ next.pc \notin {"mark", "acknowledge"}
    BY <1>f DEF CallType, Phase, Sequel
  <2>2. call' = [call EXCEPT ![c] = next]
    BY <1>1 DEF Ensure, Save, IncIInv, IncTypes, CallType
  <2>3. CallMoves(c, next)
    BY <2>1, <2>2, MovesOn
  <2> QED BY <1>1, <1>f, <2>3 DEF Ensure, Store, PageStep, RequestMoves, storage
<1>2. CASE EnsureLocal(c)
  <2> DEFINE reg == IF incidentBus = NoRegister THEN Created ELSE incidentBus
             next == [call[c] EXCEPT !.pc = "saveRead", !.reg = reg, !.then = "execute",
                                     !.outcome = "offline"]
  <2>1. /\ next \in CallType /\ next.status = call[c].status
        /\ next.pc \notin {"mark", "acknowledge"}
    BY <1>f DEF CallType, Phase, Sequel
  <2>2. call' = [call EXCEPT ![c] = next]
    BY <1>2 DEF EnsureLocal, IncIInv, IncTypes, CallType
  <2>3. CallMoves(c, next)
    BY <2>1, <2>2, MovesOn
  <2>4. incidentBus' = reg /\ UNCHANGED <<row, handling, copy, outgoing, enqueued, discarded>>
    BY <1>2 DEF EnsureLocal, storage, histories
  <2> QED BY <1>f, <2>3, <2>4, LocalStep
<1>3. CASE Create(c)
  <2> DEFINE next == [call[c] EXCEPT !.pc = "list"]
  <2>1. /\ next \in CallType /\ next.status = call[c].status
        /\ next.pc \notin {"mark", "acknowledge"}
    BY <1>f DEF CallType, Phase
  <2>2. call' = [call EXCEPT ![c] = next]
    BY <1>3 DEF Create, Goto, IncIInv, IncTypes, CallType
  <2>3. CallMoves(c, next)
    BY <2>1, <2>2, MovesOn
  <2> QED BY <1>3, <1>f, <2>3 DEF Create, Store, PageStep, RequestMoves, storage,
      memory
<1>4. CASE Fail(c)
  <2>1. call' = [call EXCEPT ![c] = IdleCall]
    BY <1>4 DEF Fail, Offline
  <2>2. CallMoves(c, IdleCall)
    BY <1>f, <2>1, MovesOn
  <2>3. /\ row' \in {row, Stored}
        /\ UNCHANGED <<handling, copy, incidentBus, outgoing, enqueued, discarded>>
    BY <1>4 DEF Fail, Store, storage
  <2> QED BY <1>f, <2>2, <2>3 DEF PageStep, RequestMoves
<1> QED BY <1>1, <1>2, <1>3, <1>4

\* A request is sent, answered, or forgotten.
LEMMA RequestSteps ==
  ASSUME IncIInv, NEW c \in Call, Send(c) \/ Reply(c) \/ Lose(c) \/ NotFound(c) \/ Drop(c)
  PROVE  PageStep(c)
<1>f. /\ call[c] \in CallType /\ handling[c] \in IncRequestType
      /\ IdleCall \in CallType /\ IdleCall.status = Nothing /\ IdleCall.pc = "idle"
      /\ NoRequest \in IncRequestType /\ NoRequest.acks = Nothing /\ NoRequest.pc = "none"
      /\ {copy, incidentBus} \subseteq Register \cup {NoRegister}
  BY CallFacts, Constants DEF IncIInv, IncTypes
<1>l. CallMoves(c, IdleCall) \/ call' # [call EXCEPT ![c] = IdleCall]
  BY <1>f, MovesOn
<1>1. CASE Send(c)
  <2> DEFINE next == [IdleCall EXCEPT !.pc = "sent"]
             sent == [NoRequest EXCEPT !.pc = "read", !.todo = call[c].batch]
  <2>1. /\ next \in CallType /\ next.status = Nothing
        /\ next.pc \notin {"mark", "acknowledge"}
    BY <1>f DEF CallType, Phase
  <2>2. call' = [call EXCEPT ![c] = next]
    BY <1>1 DEF Send
  <2>3. CallMoves(c, next)
    BY <2>1, <2>2, MovesOn
  <2>4. sent \in IncRequestType /\ sent.pc # "work" /\ sent.acks = Nothing
    BY <1>f DEF IncRequestType, CallType
  <2>5. handling' = [handling EXCEPT ![c] = sent]
    BY <1>1 DEF Send
  <2>6. RequestMoves(c)
    BY <2>4, <2>5 DEF RequestMoves
  <2> QED BY <1>1, <1>f, <2>3, <2>6 DEF Send, PageStep, storage, memory, histories
<1>2. CASE Reply(c)
  <2> DEFINE next == [call[c] EXCEPT !.pc = "saveRead", !.then = "entries",
                        !.reg = handling[c].reg, !.status = handling[c].acks,
                        !.outcome = OutcomeOf(handling[c].acks)]
  <2>1. /\ next \in CallType /\ next.status = handling[c].acks
        /\ next.pc \notin {"mark", "acknowledge"}
    <3>1. handling[c].acks \in [IncidentKey -> IncEntry \cup IncAnswer]
      BY <1>f DEF IncRequestType
    <3>2. OutcomeOf(handling[c].acks) \in {"online", "offline", "conflict"}
      BY DEF OutcomeOf
    <3>3. {"saveRead"} \subseteq Phase /\ {"entries"} \subseteq Sequel
          /\ handling[c].reg \in Register
      BY <1>f DEF IncRequestType, Phase, Sequel
    <3>4. next \in CallType
      BY <1>f, <3>1, <3>2, <3>3 DEF CallType
    <3> QED BY <1>f, <3>4 DEF CallType
  <2>2. call' = [call EXCEPT ![c] = next]
    BY <1>2 DEF Reply, IncIInv, IncTypes, CallType
  <2>3. CallMoves(c, next)
    BY <2>1, <2>2, MovesOn
  <2>4. RequestMoves(c)
    BY <1>2, <1>f DEF Reply, RequestMoves
  <2> QED BY <1>2, <1>f, <2>3, <2>4 DEF Reply, PageStep, storage, memory,
      histories
<1>3. CASE Lose(c)
  <2>1. CallMoves(c, IdleCall) /\ RequestMoves(c)
    BY <1>3, <1>f, <1>l DEF Lose, Offline, RequestMoves
  <2> QED BY <1>3, <1>f, <2>1 DEF Lose, PageStep, storage, histories
<1>4. CASE NotFound(c)
  <2>1. CallMoves(c, IdleCall) \/ UNCHANGED call
    BY <1>4, <1>l DEF NotFound, Offline
  <2>2. RequestMoves(c)
    BY <1>4, <1>f DEF NotFound, RequestMoves
  <2> QED BY <1>4, <1>f, <2>1, <2>2 DEF NotFound, PageStep, storage, histories
<1>5. CASE Drop(c)
  <2>1. RequestMoves(c)
    BY <1>5, <1>f DEF Drop, RequestMoves
  <2> QED BY <1>5, <1>f, <2>1 DEF Drop, PageStep, storage, memory, histories
<1> QED BY <1>1, <1>2, <1>3, <1>4, <1>5

\* The steps that read entries, or the stored register.
LEMMA ReadSteps ==
  ASSUME IncIInv, NEW c \in Call, Relist(c) \/ Entries(c) \/ Open(c)
  PROVE  PageStep(c)
<1>f. /\ call[c] \in CallType /\ {copy, incidentBus} \subseteq Register \cup {NoRegister}
      /\ outgoing \in [IncidentKey -> IncEntry] /\ outgoing \in [IncidentKey -> IncEntry \cup IncAnswer]
  BY CallFacts DEF IncIInv, IncTypes
<1>1. CASE Relist(c)
  <2> DEFINE next == [call[c] EXCEPT !.pc = "mark", !.batch = call[c].todo,
                                     !.todo = {j \in call[c].todo : Present(j)},
                                     !.status = outgoing]
  <2>1. /\ next \in CallType /\ next.pc = "mark" /\ next.status = outgoing
        /\ next.todo = {j \in call[c].todo : Present(j)}
    BY <1>f DEF CallType, Phase
  <2>2. call' = [call EXCEPT ![c] = next]
    BY <1>1 DEF Relist, IncIInv, IncTypes, CallType
  <2>3. \A j \in next.todo : next.status[j] \in IncEntry \ {"none"}
    BY <1>f, <2>1 DEF Present, CallType
  <2>4. CallMoves(c, next)
    BY <2>1, <2>2, <2>3, CallFacts DEF CallMoves
  <2> QED BY <1>1, <1>f, <2>4, LocalStep DEF Relist, storage, memory, histories
<1>2. CASE Entries(c)
  <2> DEFINE todo == {j \in IncidentKey : call[c].status[j] # "none" /\ Present(j)}
             next == [call[c] EXCEPT !.pc = "acknowledge", !.todo = todo]
  <2>1. /\ next \in CallType /\ next.pc = "acknowledge" /\ next.status = call[c].status
        /\ next.todo = todo
    BY <1>f DEF CallType, Phase
  <2>2. call' = [call EXCEPT ![c] = next]
    BY <1>2 DEF Entries, IncIInv, IncTypes, CallType
  <2>3. CallMoves(c, next)
    BY <2>1, <2>2, CallFacts DEF CallMoves
  <2> QED BY <1>2, <1>f, <2>3, LocalStep DEF Entries, storage, memory, histories
<1>3. CASE Open(c)
  <2> DEFINE next == [call[c] EXCEPT !.pc = "list"]
  <2>1. /\ next \in CallType /\ next.status = call[c].status
        /\ next.pc \notin {"mark", "acknowledge"}
    BY <1>f DEF CallType, Phase
  <2>2. call' = [call EXCEPT ![c] = next] \/ UNCHANGED call
    BY <1>3 DEF Open, Goto, IncIInv, IncTypes, CallType
  <2>3. CallMoves(c, next) \/ UNCHANGED call
    BY <2>1, <2>2, MovesOn
  <2> QED BY <1>3, <1>f, <2>3 DEF Open, PageStep, RequestMoves, storage, histories
<1> QED BY <1>1, <1>2, <1>3

\* The steps that write or delete an entry.
LEMMA EntrySteps ==
  ASSUME IncIInv, NEW c \in Call, NEW k \in IncidentKey,
         EnqueueEntry(c, k) \/ Mark(c, k) \/ Acknowledge(c, k) \/ Discard(c, k)
  PROVE  PageStep(c)
<1>f. /\ call[c] \in CallType /\ {copy, incidentBus} \subseteq Register \cup {NoRegister}
      /\ outgoing \in [IncidentKey -> IncEntry] /\ NoEntryLost
  BY CallFacts DEF IncIInv, IncTypes
<1>s. row' = row => Stored' = Stored
  BY DEF Stored
<1>p. \A j \in call[c].todo :
        /\ At(c, "mark") => call[c].status[j] \in IncEntry \ {"none"}
        /\ At(c, "acknowledge") => call[c].status[j] # "none"
  BY CallFacts DEF PutsEntries
<1>1. CASE EnqueueEntry(c, k)
  <2> DEFINE next == [call[c] EXCEPT !.pc = "saveRead", !.reg = call[c].reg, !.then = "applied"]
  <2>1. /\ next \in CallType /\ next.status = call[c].status
        /\ next.pc \notin {"mark", "acknowledge"}
    BY <1>f DEF CallType, Phase, Sequel
  <2>2. call' = [call EXCEPT ![c] = next]
    BY <1>1 DEF EnqueueEntry, Save, IncIInv, IncTypes, CallType
  <2>3. CallMoves(c, next)
    BY <2>1, <2>2, MovesOn
  <2>4. outgoing' \in [IncidentKey -> IncEntry] /\ NoEntryLost'
    BY <1>1, <1>f, <1>s DEF EnqueueEntry, NoEntryLost, Present, IncEntry
  <2> QED BY <1>1, <1>f, <2>3, <2>4 DEF EnqueueEntry, PageStep, RequestMoves, memory
<1> DEFINE rest == [call[c] EXCEPT !.todo = @ \ {k}]
<1>r. /\ rest \in CallType /\ rest.pc = call[c].pc /\ rest.status = call[c].status
      /\ rest.todo = call[c].todo \ {k}
  BY <1>f DEF CallType
<1>m. call' = [call EXCEPT ![c] = rest] => CallMoves(c, rest)
  BY <1>r, <1>p, CallFacts DEF CallMoves, At
<1>e. (call' = [call EXCEPT ![c].todo = @ \ {k}]) => call' = [call EXCEPT ![c] = rest]
  BY DEF IncIInv, IncTypes, CallType
<1> HIDE DEF rest
<1>2. CASE Mark(c, k)
  <2>1. call[c].status[k] \in IncEntry \ {"none"}
    BY <1>2, <1>p DEF Mark, IsNext
  <2>2. outgoing' \in [IncidentKey -> IncEntry] /\ NoEntryLost'
    BY <1>2, <1>f, <1>s, <2>1 DEF Mark, NoEntryLost, Present, histories
  <2> QED BY <1>2, <1>f, <1>m, <1>e, <2>2 DEF Mark, PageStep, RequestMoves, memory
<1>3. CASE Acknowledge(c, k)
  <2>1. call[c].status[k] # "none"
    BY <1>3, <1>p DEF Acknowledge, IsNext
  <2>2. call[c].status[k] \notin Removable => call[c].status[k] \in IncEntry \ {"none"}
    BY <1>f, <2>1, StatusFacts DEF CallType
  <2>3. call[c].status[k] \in Removable => k \in Stored.keys
    BY CallFacts
  <2>4. outgoing' \in [IncidentKey -> IncEntry] /\ NoEntryLost'
    BY <1>3, <1>f, <1>s, <2>2, <2>3 DEF Acknowledge, NoEntryLost, Present, IncEntry,
        histories
  <2> QED BY <1>3, <1>f, <1>m, <1>e, <2>4 DEF Acknowledge, PageStep, RequestMoves, memory
<1>4. CASE Discard(c, k)
  <2>1. outgoing' \in [IncidentKey -> IncEntry] /\ NoEntryLost'
    BY <1>4, <1>f, <1>s DEF Discard, NoEntryLost, Present, IncEntry
  <2> QED BY <1>4, <1>f, <1>m, <1>e, <2>1 DEF Discard, PageStep, RequestMoves, memory
<1> QED BY <1>1, <1>2, <1>3, <1>4

\* Every call ends when the page is closed.
LEMMA CloseStep == ASSUME IncIInv, Close PROVE IncIInv'
<1>1. /\ call' = [c \in Call |-> IdleCall] /\ incidentBus' = NoRegister
      /\ UNCHANGED <<row, handling, copy, outgoing, enqueued, discarded>>
  BY DEF Close, storage, histories
<1>2. IncTypes'
  BY <1>1, Constants DEF IncIInv, IncTypes
<1>3. Handlers'
  BY <1>1 DEF IncIInv, Handlers, HandlerSees
<1>4. AnswersHold' /\ AllPutEntries'
  BY <1>1, Constants, StatusFacts
     DEF IncIInv, AnswersHold, AllPutEntries, PutsEntries, At, Stored
<1>5. NoEntryLost'
  BY <1>1 DEF IncIInv, NoEntryLost, Present, Stored
<1> QED BY <1>2, <1>3, <1>4, <1>5 DEF IncIInv

-----------------------------------------------------------------------------
(* The worker                                                                 *)

\* The row never loses a receipt, and a handler that has another register than
\* the row has one of a lower revision.
LEMMA RowMoves ==
  ASSUME IncIInv, NEW k \in AnyKey, NEW rev, row # NoRegister,
         row' = RegisterAfter(row, CommandAt(k, rev)),
         call' = call, UNCHANGED <<copy, incidentBus, outgoing, enqueued, discarded>>,
         handling' \in [Call -> IncRequestType],
         \A c \in Call : \/ handling'[c] = handling[c]
                        \/ /\ handling'[c].reg = row'
                           /\ \A j \in IncidentKey : handling'[c].acks[j] \in Removable
                                => j = k \/ handling[c].acks[j] \in Removable
  PROVE  IncIInv'
<1>1. /\ row \in Register /\ row' \in Register /\ row' # NoRegister
      /\ row'.rev = row.rev + 1 /\ row'.keys = row.keys \cup {k}
  BY AfterType, SyncConstants, IncidentConstants DEF IncIInv, IncTypes
<1>2. Stored = row /\ Stored' = row'
  BY <1>1 DEF Stored
<1>3. IncTypes'
  BY <1>1 DEF IncIInv, IncTypes
<1>4. Handlers'
  <2> SUFFICES ASSUME NEW c \in Call, handling'[c].pc = "work"
               PROVE  HandlerSees(c)'
    BY DEF Handlers
  <2>1. CASE handling'[c] = handling[c]
    <3>1. HandlerSees(c)
      BY <2>1 DEF IncIInv, Handlers
    <3>2. handling[c].reg.rev \in Nat /\ row.rev \in Nat
      BY <1>1 DEF IncIInv, IncTypes, IncRequestType, Register
    <3> QED BY <1>1, <2>1, <3>1, <3>2 DEF HandlerSees
  <2>2. CASE handling'[c].reg = row'
    <3>1. row'.rev \in Nat
      BY <1>1 DEF Register
    <3> QED BY <1>1, <2>2, <3>1 DEF HandlerSees
  <2> QED BY <2>1, <2>2
<1>5. AnswersHold'
  BY <1>1, <1>2 DEF IncIInv, AnswersHold
<1>6. AllPutEntries'
  BY DEF IncIInv, AllPutEntries, PutsEntries, At
<1>7. NoEntryLost'
  BY <1>1, <1>2 DEF IncIInv, NoEntryLost, Present
<1> QED BY <1>3, <1>4, <1>5, <1>6, <1>7 DEF IncIInv

\* A handler that leaves the row alone and answers with what it has read.
LEMMA HandlerMoves ==
  ASSUME IncIInv, NEW c \in Call, NEW next \in IncRequestType,
         handling' = [handling EXCEPT ![c] = next],
         UNCHANGED <<row, copy, incidentBus, call, outgoing, enqueued, discarded>>,
         row # NoRegister, next.reg \in {row, handling[c].reg},
         next.reg = row \/ handling[c].pc = "work",
         \A k \in IncidentKey : next.acks[k] \in Removable => k \in row.keys
  PROVE  IncIInv'
<1>1. row \in Register /\ row.rev \in Nat /\ Stored = row /\ Stored' = row'
  BY DEF IncIInv, IncTypes, Stored, Register
<1>2. /\ handling' \in [Call -> IncRequestType]
      /\ \A d \in Call : handling'[d] = IF d = c THEN next ELSE handling[d]
  BY DEF IncIInv, IncTypes
<1>3. IncTypes'
  BY <1>2 DEF IncIInv, IncTypes
<1>4. Handlers'
  <2> SUFFICES ASSUME NEW d \in Call, handling'[d].pc = "work"
               PROVE  HandlerSees(d)'
    BY DEF Handlers
  <2>1. CASE d # c
    <3>1. handling'[d] = handling[d]
      BY <1>2, <2>1
    <3>2. HandlerSees(d)
      BY <3>1 DEF IncIInv, Handlers
    <3> QED BY <3>1, <3>2 DEF HandlerSees
  <2>2. CASE d = c /\ next.reg = row
    BY <1>1, <1>2, <2>2 DEF HandlerSees
  <2>3. CASE d = c /\ next.reg = handling[c].reg /\ handling[c].pc = "work"
    <3>1. handling'[d].reg = handling[d].reg
      BY <1>2, <2>3
    <3>2. HandlerSees(d)
      BY <2>3 DEF IncIInv, Handlers
    <3> QED BY <3>1, <3>2 DEF HandlerSees
  <2> QED BY <2>1, <2>2, <2>3
<1>5. AnswersHold'
  BY <1>1, <1>2 DEF IncIInv, AnswersHold
<1>6. AllPutEntries' /\ NoEntryLost'
  BY <1>1 DEF IncIInv, AllPutEntries, PutsEntries, At, NoEntryLost, Present
<1> QED BY <1>3, <1>4, <1>5, <1>6 DEF IncIInv

LEMMA ReadStep == ASSUME IncIInv, NEW c \in Call, WorkerReadRow(c) PROVE IncIInv'
<1>f. /\ handling[c] \in IncRequestType /\ row \in Register \cup {NoRegister}
      /\ \A j \in IncidentKey : handling[c].acks[j] \in Removable => j \in Stored.keys
  BY CallFacts DEF IncIInv, IncTypes
<1>s. row # NoRegister => Stored = row
  BY DEF Stored
<1> DEFINE next == [handling[c] EXCEPT !.pc = "work", !.reg = row]
<1>1. next \in IncRequestType /\ next.reg = row /\ next.acks = handling[c].acks
  BY <1>f DEF WorkerReadRow, IncRequestType
<1>2. handling' = [handling EXCEPT ![c] = next]
  BY DEF WorkerReadRow, IncIInv, IncTypes, IncRequestType
<1>3. row # NoRegister /\ UNCHANGED <<row, copy, incidentBus, call, outgoing, enqueued, discarded>>
  BY DEF WorkerReadRow, storage, memory, histories
<1> HIDE DEF next
<1> QED BY <1>f, <1>s, <1>1, <1>2, <1>3, HandlerMoves

LEMMA WorkerSteps ==
  ASSUME IncIInv, NEW c \in Call, NEW k \in IncidentKey,
         WorkerApply(c, k) \/ WorkerRepeat(c, k) \/ WorkerReject(c, k)
  PROVE  IncIInv'
<1>f. /\ handling[c] \in IncRequestType /\ row \in Register \cup {NoRegister}
      /\ \A j \in IncidentKey : handling[c].acks[j] \in Removable => j \in Stored.keys
      /\ k \in AnyKey
  BY CallFacts DEF IncIInv, IncTypes, AnyKey
<1>s. row # NoRegister => Stored = row
  BY DEF Stored
<1>w. handling[c].pc = "work" => HandlerSees(c)
  BY DEF IncIInv, Handlers
<1> DEFINE answer(reg, status) ==
             [handling[c] EXCEPT !.reg = reg, !.todo = @ \ {k}, !.acks[k] = status]
<1>a. ASSUME NEW reg \in Register, NEW status \in IncAnswer, Answered(c, k, reg, status)
      PROVE  /\ handling' = [handling EXCEPT ![c] = answer(reg, status)]
             /\ answer(reg, status) \in IncRequestType
             /\ answer(reg, status).reg = reg
             /\ answer(reg, status).acks = [handling[c].acks EXCEPT ![k] = status]
  <2>1. handling' = [handling EXCEPT ![c] = answer(reg, status)]
    BY <1>a DEF Answered, IncIInv, IncTypes, IncRequestType
  <2>2. [handling[c].acks EXCEPT ![k] = status] \in [IncidentKey -> IncAnswer]
    BY <1>f DEF IncRequestType
  <2> QED BY <1>f, <2>1, <2>2 DEF IncRequestType
<1>1. CASE WorkerApply(c, k)
  <2> DEFINE reg == RegisterAfter(handling[c].reg, IncidentCommand(k))
  <2>1. /\ handling[c].pc = "work" /\ row.rev = handling[c].reg.rev
        /\ row' = reg /\ Answered(c, k, reg, "applied")
        /\ UNCHANGED <<copy, incidentBus, call, outgoing, enqueued, discarded>>
    BY <1>1 DEF WorkerApply, Working, Store, storage, memory
  <2>2. row # NoRegister /\ reg = RegisterAfter(row, CommandAt(k, seen[k]))
    BY <1>w, <2>1 DEF HandlerSees, IncidentCommand
  <2>3. reg \in Register
    BY <1>f, <2>2, AfterType
  <2> HIDE DEF reg
  <2>4. /\ handling' = [handling EXCEPT ![c] = answer(reg, "applied")]
        /\ answer(reg, "applied") \in IncRequestType
        /\ answer(reg, "applied").reg = reg
        /\ answer(reg, "applied").acks = [handling[c].acks EXCEPT ![k] = "applied"]
    BY <1>a, <2>1, <2>3 DEF IncAnswer
  <2> HIDE DEF answer
  <2>5. handling' \in [Call -> IncRequestType]
    BY <2>4 DEF IncIInv, IncTypes
  <2>6. \A d \in Call : \/ handling'[d] = handling[d]
                       \/ /\ handling'[d].reg = row'
                          /\ \A j \in IncidentKey : handling'[d].acks[j] \in Removable
                               => j = k \/ handling[d].acks[j] \in Removable
    BY <1>f, <2>1, <2>4 DEF IncIInv, IncTypes, IncRequestType
  <2> QED BY <1>f, <2>1, <2>2, <2>5, <2>6, RowMoves
<1>2. CASE WorkerRepeat(c, k)
  <2>1. /\ handling[c].pc = "work" /\ Judged(c, k) = "duplicate"
        /\ Answered(c, k, handling[c].reg, "already-applied")
        /\ UNCHANGED <<row, copy, incidentBus, call, outgoing, enqueued, discarded>>
    BY <1>2 DEF WorkerRepeat, Working, storage, memory, histories
  <2>2. k \in handling[c].reg.keys
    BY <1>f, <2>1, CommandFields DEF Judged, RegisterVerdict, IncidentCommand
  <2>3. row # NoRegister /\ k \in row.keys
    BY <1>w, <2>1, <2>2 DEF HandlerSees
  <2>4. /\ handling' = [handling EXCEPT ![c] = answer(handling[c].reg, "already-applied")]
        /\ answer(handling[c].reg, "already-applied") \in IncRequestType
        /\ answer(handling[c].reg, "already-applied").reg = handling[c].reg
        /\ answer(handling[c].reg, "already-applied").acks
             = [handling[c].acks EXCEPT ![k] = "already-applied"]
    BY <1>a, <1>f, <2>1 DEF IncAnswer, IncRequestType
  <2> DEFINE next == answer(handling[c].reg, "already-applied")
  <2>5. \A j \in IncidentKey : next.acks[j] \in Removable => j \in row.keys
    BY <1>f, <1>s, <2>3, <2>4 DEF IncRequestType
  <2> HIDE DEF next, answer
  <2> QED BY <2>1, <2>3, <2>4, <2>5, HandlerMoves DEF next
<1>3. CASE WorkerReject(c, k)
  <2>1. PICK status \in Retained : Answered(c, k, handling[c].reg, status)
    BY <1>3 DEF WorkerReject, Retained
  <2>2. /\ handling[c].pc = "work"
        /\ UNCHANGED <<row, copy, incidentBus, call, outgoing, enqueued, discarded>>
    BY <1>3 DEF WorkerReject, Working, storage, memory, histories
  <2>3. row # NoRegister
    BY <1>w, <2>2 DEF HandlerSees
  <2> HIDE DEF answer
  <2> DEFINE next == answer(handling[c].reg, status)
  <2>4. /\ handling' = [handling EXCEPT ![c] = next] /\ next \in IncRequestType
        /\ next.reg = handling[c].reg /\ next.acks = [handling[c].acks EXCEPT ![k] = status]
    <3>1. status \in IncAnswer /\ handling[c].reg \in Register
      BY <1>f DEF Retained, IncAnswer, IncRequestType
    <3> QED BY <1>a, <2>1, <3>1
  <2> HIDE DEF next
  <2>5. \A j \in IncidentKey : next.acks[j] \in Removable => j \in row.keys
    BY <1>f, <1>s, <2>3, <2>4, StatusFacts DEF IncRequestType
  <2> QED BY <2>2, <2>3, <2>4, <2>5, HandlerMoves
<1> QED BY <1>1, <1>2, <1>3

LEMMA ElsewhereStep == ASSUME IncIInv, NEW k \in OtherKey, Elsewhere(k) PROVE IncIInv'
<1>1. /\ row # NoRegister
      /\ row' = RegisterAfter(row, CommandAt(k, row.incident[IncidentOf[k]].rev))
      /\ UNCHANGED <<handling, copy, incidentBus, call, outgoing, enqueued, discarded>>
  BY DEF Elsewhere, Store, Informed, storage, memory
<1>2. handling' \in [Call -> IncRequestType] /\ k \in AnyKey
  BY <1>1 DEF IncIInv, IncTypes, AnyKey
<1> QED BY <1>1, <1>2, RowMoves

-----------------------------------------------------------------------------
LEMMA Stutters == ASSUME IncIInv, UNCHANGED incidentVars PROVE IncIInv'
<1>1. UNCHANGED <<row, copy, incidentBus, handling, call, outgoing, enqueued, discarded>>
  BY DEF incidentVars, storage, memory, histories
<1> QED BY <1>1 DEF IncIInv, IncTypes, Handlers, HandlerSees, AnswersHold, AllPutEntries,
    PutsEntries,
                    At, NoEntryLost, Present, Stored

LEMMA NextIInv == IncIInv /\ [IncidentNext]_incidentVars => IncIInv'
<1> SUFFICES ASSUME IncIInv, [IncidentNext]_incidentVars PROVE IncIInv'
  OBVIOUS
<1>k. ASSUME NEW c \in Call, PageStep(c) PROVE IncIInv'
  BY <1>k, PageStepKeeps
<1>1. ASSUME NEW c \in Call, NEW k \in IncidentKey,
             \/ ClickAction(c, k) \/ ClickFirst(c, k) \/ ExecuteFirst(c, k) \/ EnqueueEntry(c, k)
             \/ Mark(c, k) \/ Acknowledge(c, k) \/ Discard(c, k)
      PROVE  IncIInv'
  BY <1>1, <1>k, ClickSteps, EntrySteps
<1>2. ASSUME NEW c \in Call,
             \/ SaveRead(c) \/ SavePut(c) \/ Applied(c) \/ BeginSync(c) \/ List(c) \/ Get(c)
             \/ Finish(c) \/ BeginDiscard(c) \/ DiscardGet(c) \/ Discarded(c)
             \/ Ensure(c) \/ EnsureLocal(c) \/ Create(c) \/ Fail(c)
             \/ Send(c) \/ Reply(c) \/ Lose(c) \/ NotFound(c) \/ Drop(c)
      PROVE  IncIInv'
  BY <1>2, <1>k, LocalSteps, CreateSteps, RequestSteps
<1>3. ASSUME NEW c \in Call, Relist(c) \/ Entries(c) \/ Open(c)
      PROVE  IncIInv'
  BY <1>3, <1>k, ReadSteps
<1>4. /\ \A c \in Call : WorkerReadRow(c) => IncIInv'
      /\ \A c \in Call, k \in IncidentKey :
           WorkerApply(c, k) \/ WorkerRepeat(c, k) \/ WorkerReject(c, k) => IncIInv'
  BY ReadStep, WorkerSteps
<1>5. ASSUME NEW k \in OtherKey, Elsewhere(k) PROVE IncIInv'
  BY <1>5, ElsewhereStep
<1>6. CASE Close
  BY <1>6, CloseStep
<1>7. CASE UNCHANGED incidentVars
  BY <1>7, Stutters
<1> QED BY <1>1, <1>2, <1>3, <1>4, <1>5, <1>6, <1>7 DEF IncidentNext, PageNext, IncidentWorkerNext

THEOREM IncInvariance == IncidentSpec => []IncIInv
BY InitIInv, NextIInv, PTL DEF IncidentSpec

\* The variables of the worker, the outbox and the handlers have their types.
THEOREM IncTypeCorrect == IncidentSpec => []IncTypes
BY IncInvariance, PTL DEF IncIInv

\* A command that reached the outbox is there, was applied, or was discarded.
THEOREM Lossless == IncidentSpec => []NoEntryLost
BY IncInvariance, PTL DEF IncIInv

-----------------------------------------------------------------------------
(* The ledger                                                                 *)

LEMMA SameOperators ==
  ASSUME NEW reg, NEW cmd
  PROVE  /\ Ledger!Created = Created
         /\ Ledger!RegisterVerdict(reg, cmd) = RegisterVerdict(reg, cmd)
         /\ Ledger!RegisterAfter(reg, cmd) = RegisterAfter(reg, cmd)
BY DEF Ledger!Created, Created, Ledger!Unreported, Unreported,
    Ledger!RegisterVerdict, RegisterVerdict,
       Ledger!Accepts, Accepts, Ledger!Active, Active, Ledger!Transitions,
       Transitions,
       Ledger!IncidentStatus, IncidentStatus, Ledger!RegisterAfter, RegisterAfter, Ledger!Reported,
       Reported,
       Ledger!Mutated, Mutated

LEMMA AfterIgnoresRevision ==
  ASSUME NEW reg, NEW k, NEW seen1, NEW seen2
  PROVE  RegisterAfter(reg, CommandAt(k, seen1)) = RegisterAfter(reg, CommandAt(k, seen2))
BY DEF RegisterAfter, CommandAt

\* What a handler may apply, an informed author could have sent.
LEMMA Executes ==
  ASSUME IncIInv, row # NoRegister, NEW k \in AnyKey, NEW rev,
         RegisterVerdict(row, CommandAt(k, rev)) = "ok",
         row' = RegisterAfter(row, CommandAt(k, rev))
  PROVE  Ledger!Execute(k)
<1>1. Stored = row /\ Stored' = row'
  BY AfterType, StoredAfterStore DEF IncIInv, IncTypes, Stored
<1> DEFINE informed == CommandAt(k, row.incident[IncidentOf[k]].rev)
           command == CommandAt(k, rev)
<1>2. RegisterVerdict(row, informed) = "ok"
  <2>1. /\ informed.key = command.key /\ informed.incident = command.incident
        /\ informed.op = command.op
        /\ informed.rev = row.incident[informed.incident].rev
    BY CommandFields
  <2>2. RegisterVerdict(row, command) = "ok"
    OBVIOUS
  <2> HIDE DEF informed, command
  <2> QED BY <2>1, <2>2 DEF RegisterVerdict
<1>3. RegisterAfter(row, informed) = RegisterAfter(row, CommandAt(k, rev))
  BY AfterIgnoresRevision
<1>4. Ledger!Informed(k) = informed
  BY <1>1 DEF Ledger!Informed, CommandAt
<1> QED BY <1>1, <1>2, <1>3, <1>4, SameOperators DEF Ledger!Execute

LEMMA LedgerStep == IncIInv /\ [IncidentNext]_incidentVars => [Ledger!Next]_Stored
<1> SUFFICES ASSUME IncIInv, [IncidentNext]_incidentVars
             PROVE  Stored' = Stored \/ \E k \in AnyKey : Ledger!Execute(k)
  BY DEF Ledger!Next
<1>p. ASSUME NEW c \in Call, PageStep(c) PROVE Stored' = Stored
  BY <1>p, StoredType, SyncConstants, IncidentConstants DEF PageStep, Stored, IncIInv
<1>1. ASSUME NEW c \in Call, NEW k \in IncidentKey,
             \/ ClickAction(c, k) \/ ClickFirst(c, k) \/ ExecuteFirst(c, k) \/ EnqueueEntry(c, k)
             \/ Mark(c, k) \/ Acknowledge(c, k) \/ Discard(c, k)
      PROVE  Stored' = Stored
  BY <1>1, <1>p, ClickSteps, EntrySteps
<1>2. ASSUME NEW c \in Call,
             \/ SaveRead(c) \/ SavePut(c) \/ Applied(c) \/ BeginSync(c) \/ List(c) \/ Get(c)
             \/ Finish(c) \/ BeginDiscard(c) \/ DiscardGet(c) \/ Discarded(c)
             \/ Ensure(c) \/ EnsureLocal(c) \/ Create(c) \/ Fail(c)
             \/ Send(c) \/ Reply(c) \/ Lose(c) \/ NotFound(c) \/ Drop(c)
             \/ Relist(c) \/ Entries(c) \/ Open(c)
      PROVE  Stored' = Stored
  BY <1>2, <1>p, LocalSteps, CreateSteps, RequestSteps, ReadSteps
<1>3. ASSUME NEW c \in Call, NEW k \in IncidentKey, WorkerApply(c, k)
      PROVE  \E j \in AnyKey : Ledger!Execute(j)
  <2>1. /\ handling[c].pc = "work" /\ row.rev = handling[c].reg.rev
        /\ RegisterVerdict(handling[c].reg, IncidentCommand(k)) = "ok"
        /\ row' = RegisterAfter(handling[c].reg, IncidentCommand(k))
    BY <1>3 DEF WorkerApply, Working, Judged, Store
  <2>2. row # NoRegister /\ handling[c].reg = row
    BY <2>1 DEF IncIInv, Handlers, HandlerSees
  <2>3. Ledger!Execute(k)
    BY <2>1, <2>2, Executes DEF IncidentCommand, AnyKey
  <2> QED BY <2>3 DEF AnyKey
<1>4. ASSUME NEW c \in Call, NEW k \in IncidentKey,
             WorkerRepeat(c, k) \/ WorkerReject(c, k)
      PROVE  Stored' = Stored
  BY <1>4 DEF WorkerRepeat, WorkerReject, Stored
<1>5. ASSUME NEW c \in Call, WorkerReadRow(c) PROVE Stored' = Stored
  BY <1>5 DEF WorkerReadRow, Stored
<1>6. ASSUME NEW k \in OtherKey, Elsewhere(k) PROVE \E j \in AnyKey : Ledger!Execute(j)
  <2>1. Ledger!Execute(k)
    BY <1>6, Executes DEF Elsewhere, Store, Informed, AnyKey
  <2> QED BY <2>1 DEF AnyKey
<1>7. CASE Close \/ UNCHANGED incidentVars
  BY <1>7 DEF Close, incidentVars, Stored
<1> QED BY <1>1, <1>2, <1>3, <1>4, <1>5, <1>6, <1>7 DEF IncidentNext, PageNext, IncidentWorkerNext

\* The worker's handlers, however they interleave, implement the ledger.
THEOREM Refinement == IncidentSpec => ImplementsLedger
<1>1. IncidentInit => Ledger!Init
  BY SameOperators DEF IncidentInit, Ledger!Init, Stored
<1> QED BY <1>1, LedgerStep, IncInvariance, PTL DEF IncidentSpec, ImplementsLedger,
    Ledger!Spec

-----------------------------------------------------------------------------
(* Resolution                                                                 *)

Accounted(in) == in.status \in {"resolved", "closed"} => in.acked /\ in.owner # NoOwner

LEMMA MutatedAccounted ==
  ASSUME NEW in \in Record, NEW op \in Op, op.kind # "report",
         Accounted(in), Accepts(in, op)
  PROVE  Accounted(Mutated(in, op))
<1>a. op.kind \in {"owner", "handoff"} => op.arg \in Owner
  BY OperationArgument
<1>1. CASE op.kind = "status"
  <2>1. /\ Mutated(in, op).status = op.arg /\ Mutated(in, op).acked = in.acked
        /\ Mutated(in, op).owner = in.owner
    BY <1>1 DEF Mutated, Record
  <2>2. /\ op.arg \in Transitions[in.status]
        /\ op.arg = "resolved" => in.acked /\ in.owner # NoOwner
    BY <1>1 DEF Accepts
  <2>3. in.status \in IncidentStatus
    BY DEF Record
  <2>4. op.arg = "closed" => in.status = "resolved"
    BY <2>2, <2>3 DEF Transitions, IncidentStatus
  <2> QED BY <2>1, <2>2, <2>4 DEF Accounted
<1>2. CASE op.kind \in {"owner", "handoff"}
  <2>1. /\ Mutated(in, op).status = in.status /\ Mutated(in, op).acked = in.acked
        /\ Mutated(in, op).owner = op.arg
    BY <1>2 DEF Mutated, Record
  <2> QED BY <1>a, <1>2, <2>1, SyncConstants, IncidentConstants DEF Accounted
<1>3. CASE op.kind = "acknowledge"
  <2>1. /\ Mutated(in, op).status = in.status /\ Mutated(in, op).acked
        /\ Mutated(in, op).owner = in.owner
    BY <1>3 DEF Mutated, Record
  <2> QED BY <2>1 DEF Accounted
<1>4. CASE op.kind \in {"escalate", "emergency", "note"}
  <2>1. /\ Mutated(in, op).status = in.status /\ Mutated(in, op).acked = in.acked
        /\ Mutated(in, op).owner = in.owner
    BY <1>4 DEF Mutated, Record
  <2> QED BY <2>1 DEF Accounted
<1> QED BY <1>1, <1>2, <1>3, <1>4, OperationArgument

LEMMA ExecuteAccounted ==
  ASSUME NEW k \in AnyKey, Stored \in Register, ResolvedIsAccounted, Ledger!Execute(k)
  PROVE  ResolvedIsAccounted'
<1> DEFINE inc == IncidentOf[k]
           old == Stored.incident[inc]
           cmd == CommandAt(k, old.rev)
           new == IF OpOf[k].kind = "report" THEN Reported ELSE Mutated(old, OpOf[k])
<1>1. /\ cmd.key = k /\ cmd.incident = inc /\ inc \in Incident
      /\ cmd.op = OpOf[k] /\ OpOf[k] \in Op
  BY CommandFields
<1>2. RegisterVerdict(Stored, cmd) = "ok" /\ Stored' = RegisterAfter(Stored, cmd)
  BY SameOperators DEF Ledger!Execute, Ledger!Informed, CommandAt
<1>3. Stored'.incident = [Stored.incident EXCEPT ![inc] = new]
  BY <1>1, <1>2 DEF RegisterAfter
<1>4. Accounted(new)
  <2>1. CASE OpOf[k].kind = "report"
    BY <2>1 DEF Accounted, Reported
  <2>2. CASE OpOf[k].kind # "report"
    <3>1. Accepts(old, OpOf[k])
      BY <1>1, <1>2, <2>2 DEF RegisterVerdict
    <3>2. old \in Record /\ Accounted(old)
      BY <1>1 DEF Register, ResolvedIsAccounted, Accounted
    <3> QED BY <1>1, <2>2, <3>1, <3>2, MutatedAccounted
  <2> QED BY <2>1, <2>2
<1> HIDE DEF new, cmd
<1>5. ASSUME NEW i \in Incident PROVE Accounted(Stored'.incident[i])
  BY <1>1, <1>3, <1>4 DEF Register, ResolvedIsAccounted, Accounted
<1> QED BY <1>5 DEF ResolvedIsAccounted, Accounted

\* Only an Incident that was acknowledged and has an owner is resolved or closed.
THEOREM Resolution == IncidentSpec => []ResolvedIsAccounted
<1>1. IncidentInit => ResolvedIsAccounted
  BY DEF IncidentInit, Stored, Created, Unreported, ResolvedIsAccounted
<1>2. IncIInv /\ ResolvedIsAccounted /\ [Ledger!Next]_Stored => ResolvedIsAccounted'
  <2> SUFFICES ASSUME IncIInv, ResolvedIsAccounted, [Ledger!Next]_Stored
               PROVE  ResolvedIsAccounted'
    OBVIOUS
  <2>1. CASE Stored' = Stored
    BY <2>1 DEF ResolvedIsAccounted
  <2>2. ASSUME NEW k \in AnyKey, Ledger!Execute(k) PROVE ResolvedIsAccounted'
    BY <2>2, ExecuteAccounted, StoredType DEF IncIInv
  <2> QED BY <2>1, <2>2 DEF Ledger!Next
<1> QED BY <1>1, <1>2, LedgerStep, IncInvariance, PTL DEF IncidentSpec
-----------------------------------------------------------------------------
(* What a page shows that says online.  A bus that differs from every stored   *)
(* register owes it to a command of the page; the handler of that command, its *)
(* pending entry, or the handler that answered for it is still there, and each *)
(* of them either shows the worker's register in the end or says offline.      *)

Saving(h, then) == h.pc \in {"saveRead", "savePut"} /\ h.then = then

\* The handler's command is executed, or will be, and is not in the outbox yet.
Executing(h) == h.pc \in {"execute", "enqueue"} \/ Saving(h, "execute")
Early(h)     == h.pc = "ensure" \/ Executing(h)

\* The handler has the worker's register and will show it.
Shows(h) == h.pc \in {"entries", "acknowledge", "finish"} \/ Saving(h, "entries")
            \/ Saving(h, "finish")

\* The handler has shown the worker's register already, and will say online.
Says(h) == h.pc = "discarded" \/ Saving(h, "discarded")

\* A key is one click; it is enqueued once, and only then is it handled further.
KeysOnce ==
  /\ enqueued \subseteq clicked
  /\ \A k \in IncidentKey : Present(k) => k \in enqueued
  /\ \A c \in Call :
       /\ Early(call[c]) => call[c].todo \cap enqueued = {} /\ call[c].todo \subseteq clicked
       /\ ~Early(call[c]) => call[c].todo \subseteq enqueued
       /\ At(c, "enqueue") => \E k \in IncidentKey : call[c].todo = {k}
  /\ \A c, d \in Call : c # d /\ Early(call[c]) /\ Early(call[d])
                          => call[c].todo \cap call[d].todo = {}

\* What is read of the worker's register was stored by it.
ReadsStored ==
  /\ row \in versions \cup {NoRegister}
  /\ \A c \in Call : /\ handling[c].pc = "work" => handling[c].reg \in versions
                     /\ Shows(call[c]) => call[c].reg \in versions

\* A handler that would neither discard the key nor put back another answer.
Spares(h, k) ==
  k \in h.todo => h.pc # "discard" /\ (h.pc = "mark" => h.status[k] = "pending")

Untouched(k) == outgoing[k] = "pending" /\ \A c \in Call : Spares(call[c], k)

Covered == \/ incidentBus \in versions
           \/ \E c \in Call : Executing(call[c]) \/ Shows(call[c])
           \/ \E k \in IncidentKey : Untouched(k)

Claims == state = "online" \/ \E c \in Call : Says(call[c])

ClosedRests == page = "closed" => state = "offline" /\ \A c \in Call : call[c] = IdleCall

OnlineInv == KeysOnce /\ ReadsStored /\ ClosedRests /\ (Claims => Covered)

LEMMA IdleRests ==
  /\ IdleCall.todo = {} /\ IdleCall.pc = "idle"
  /\ ~Early(IdleCall) /\ ~Executing(IdleCall) /\ ~Shows(IdleCall) /\ ~Says(IdleCall)
BY DEF IdleCall, Early, Executing, Shows, Says, Saving

LEMMA InitOnline == IncidentInit => OnlineInv
<1> SUFFICES ASSUME IncidentInit PROVE OnlineInv
  OBVIOUS
<1>1. \A c \in Call : call[c] = IdleCall
  BY DEF IncidentInit
<1>2. KeysOnce
  BY <1>1, IdleRests, Constants DEF IncidentInit, KeysOnce, Present, At
<1>3. ReadsStored
  BY <1>1, IdleRests, Constants DEF IncidentInit, ReadsStored
<1>4. ClosedRests /\ ~Claims
  BY <1>1, IdleRests DEF IncidentInit, ClosedRests, Claims
<1> QED BY <1>2, <1>3, <1>4 DEF OnlineInv

\* A handler moves and leaves the bus and the keys' order alone.
LEMMA Quiet ==
  ASSUME IncIInv, OnlineInv, NEW c \in Call, NEW next,
         call' = [call EXCEPT ![c] = next], page' # "closed",
         UNCHANGED <<incidentBus, clicked, enqueued>>,
         versions \subseteq versions', row' \in versions' \cup {NoRegister},
         \A d \in Call : handling'[d].pc = "work" => handling'[d].reg \in versions',
         Shows(next) => next.reg \in versions',
         Early(next) <=> Early(call[c]), next.pc # "enqueue",
         Early(next) => next.todo \subseteq call[c].todo,
         ~Early(next) => next.todo \subseteq enqueued,
         \A k \in IncidentKey : outgoing'[k] # "none" => k \in enqueued,
         state' = "online" => Claims, Says(next) => Says(call[c]),
         Executing(call[c]) \/ Shows(call[c]) => Executing(next) \/ Shows(next),
         \/ Shows(next)
         \/ \A k \in IncidentKey : Untouched(k) => outgoing'[k] = "pending" /\ Spares(next, k)
  PROVE  OnlineInv'
<1>1. \A d \in Call : call'[d] = IF d = c THEN next ELSE call[d]
  BY DEF IncIInv, IncTypes
<1>2. KeysOnce'
  <2>1. \A d \in Call : /\ Early(call'[d]) <=> Early(call[d])
                        /\ Early(call[d]) => call'[d].todo \subseteq call[d].todo
                        /\ ~Early(call[d]) => call'[d].todo \subseteq enqueued
                        /\ call'[d].pc = "enqueue" => call'[d] = call[d]
    BY <1>1 DEF OnlineInv, KeysOnce
  <2> QED BY <2>1 DEF OnlineInv, KeysOnce, Present, At
<1>3. ReadsStored'
  BY <1>1 DEF OnlineInv, ReadsStored
<1>4. Claims' => Covered'
  <2> SUFFICES ASSUME Claims' PROVE Covered'
    OBVIOUS
  <2>1. Claims
    BY <1>1 DEF Claims
  <2>2. CASE incidentBus \in versions
    BY <2>2 DEF Covered
  <2>3. ASSUME NEW d \in Call, Executing(call[d]) \/ Shows(call[d]) PROVE Covered'
    BY <1>1, <2>3 DEF Covered
  <2>4. ASSUME NEW k \in IncidentKey, Untouched(k) PROVE Covered'
    <3>1. CASE Shows(next)
      BY <1>1, <3>1 DEF Covered
    <3>2. CASE ~Shows(next)
      <4>1. outgoing'[k] = "pending" /\ Spares(next, k)
        BY <2>4, <3>2
      <4>2. \A d \in Call : Spares(call'[d], k)
        BY <1>1, <2>4, <4>1 DEF Untouched
      <4>3. Untouched(k)'
        BY <4>1, <4>2 DEF Untouched
      <4> QED BY <4>3 DEF Covered
    <3> QED BY <3>1, <3>2
  <2> QED BY <2>1, <2>2, <2>3, <2>4 DEF OnlineInv, Covered
<1>5. ClosedRests'
  BY DEF ClosedRests
<1> QED BY <1>2, <1>3, <1>4, <1>5 DEF OnlineInv

\* What a step of a call relies on.
LEMMA OpenCall ==
  ASSUME IncIInv, OnlineInv, NEW c \in Call
  PROVE  /\ call[c] \in CallType
         /\ call[c] # IdleCall => page # "closed"
         /\ Early(call[c]) => call[c].todo \cap enqueued = {} /\ call[c].todo \subseteq clicked
         /\ ~Early(call[c]) => call[c].todo \subseteq enqueued
         /\ Shows(call[c]) => call[c].reg \in versions
         /\ row \in versions \cup {NoRegister}
         /\ \A d \in Call : handling[d].pc = "work" => handling[d].reg \in versions
         /\ \A k \in IncidentKey : outgoing[k] # "none" => k \in enqueued
         /\ \A k \in IncidentKey : Untouched(k) => outgoing[k] = "pending" /\ Spares(call[c], k)
         /\ Claims => Covered
         /\ Says(call[c]) => Claims
BY CallFacts
   DEF OnlineInv, ClosedRests, KeysOnce, ReadsStored, Present, Untouched, Claims

LEMMA SaveSteps ==
  ASSUME IncIInv, OnlineInv, NEW c \in Call, SaveRead(c) \/ SavePut(c)
  PROVE  OnlineInv'
<1>1. PICK pc \in {"savePut", call[c].then} : call' = [call EXCEPT ![c].pc = pc]
  BY DEF SaveRead, SavePut, Goto
<1>2. /\ call[c].pc \in {"saveRead", "savePut"}
      /\ UNCHANGED <<row, handling, outgoing, page, incidentBus, state, clicked, enqueued, versions>>
  BY DEF SaveRead, SavePut, At, storage, memory, limits, histories
<1> DEFINE next == [call[c] EXCEPT !.pc = pc]
<1>3. call' = [call EXCEPT ![c] = next]
  BY <1>1 DEF IncIInv, IncTypes, CallType
<1>4. /\ next.pc = pc /\ next.then = call[c].then /\ next.reg = call[c].reg
      /\ next.todo = call[c].todo /\ next.status = call[c].status
      /\ call[c].then \in Sequel
  BY CallFacts DEF CallType
<1> HIDE DEF next
<1>5. /\ Executing(next) <=> Executing(call[c])
      /\ Early(next) <=> Early(call[c])
      /\ Shows(next) <=> Shows(call[c])
      /\ Says(next) <=> Says(call[c])
      /\ next.pc \notin {"enqueue", "mark", "discard"}
  BY <1>1, <1>2, <1>4 DEF Executing, Early, Shows, Says, Saving, Sequel
<1>6. page' # "closed"
  BY <1>2, OpenCall, IdleRests
<1>7. \A k : Spares(next, k)
  BY <1>5 DEF Spares
<1> QED BY <1>2, <1>3, <1>4, <1>5, <1>6, <1>7, OpenCall, Quiet DEF Claims

\* The steps of a handler that has nothing in hand, and those that take it there.
LEMMA PlainSteps ==
  ASSUME IncIInv, OnlineInv, NEW c \in Call,
         \/ Applied(c) \/ BeginSync(c) \/ Create(c) \/ List(c) \/ Relist(c) \/ Send(c)
         \/ Discarded(c) \/ Fail(c) \/ Lose(c) \/ BeginDiscard(c)
  PROVE  OnlineInv'
<1>f. /\ call[c] \in CallType /\ call \in [Call -> CallType]
      /\ IdleCall \in CallType /\ IdleCall.todo = {} /\ IdleCall.pc = "idle"
  BY OpenCall, IdleRests, Constants DEF IncIInv, IncTypes
<1>p. /\ call[c].pc \in {"applied", "idle", "create", "list", "relist", "mark", "sent", "get",
                         "discard", "discarded"}
      /\ page # "closed"
  BY OpenCall, IdleRests
     DEF Applied, BeginSync, Create, List, Relist, Send, Discarded,
     Fail, AtRemote, Lose,
         BeginDiscard, Free, At
<1>e. ~Early(call[c]) /\ ~Executing(call[c]) /\ ~Shows(call[c])
  BY <1>p DEF Early, Executing, Shows, Saving
<1>s. /\ UNCHANGED <<page, incidentBus, clicked, enqueued, outgoing>>
      /\ versions \subseteq versions' /\ row' \in versions' \cup {NoRegister}
      /\ state' = "online" => Claims
      /\ \A d \in Call : handling'[d].pc = "work" => handling'[d].reg \in versions'
  <2>1. /\ UNCHANGED <<page, incidentBus, clicked, enqueued, outgoing>>
        /\ state' = "online" => Claims
    BY DEF Applied, BeginSync, Create, List, Relist, Send, Discarded,
        Fail, AtRemote, Lose,
           BeginDiscard, Offline, At, storage, memory, limits,
           histories, Claims, Says
  <2>2. \/ UNCHANGED <<row, versions>>
        \/ row' = Stored /\ versions' = versions \cup {Stored}
    BY DEF Applied, BeginSync, Create, List, Relist, Send, Discarded,
        Fail, Lose, BeginDiscard,
           Store, histories
  <2>3. handling' = handling \/ \E r : handling' = [handling EXCEPT ![c] = r] /\ r.pc # "work"
    <3>1. [NoRequest EXCEPT !.pc = "read", !.todo = call[c].batch].pc # "work"
      BY DEF NoRequest
    <3> QED
      BY <3>1, Constants
         DEF Applied, BeginSync, Create, List, Relist, Send,
         Discarded, Fail, Lose, BeginDiscard,
             storage
  <2> QED BY <2>1, <2>2, <2>3, OpenCall DEF IncIInv, IncTypes
<1>n. \E next : /\ call' = [call EXCEPT ![c] = next]
                /\ next.pc \in {"create", "list", "get", "relist", "mark", "sent", "idle", "discard"}
                /\ next.todo \subseteq enqueued
                /\ \A k \in IncidentKey : Untouched(k) => Spares(next, k)
  <2>1. CASE Applied(c)
    <3> DEFINE next == [IdleCall EXCEPT !.pc = "create"]
    <3>1. call' = [call EXCEPT ![c] = next] /\ next.pc = "create" /\ next.todo = {}
      BY <1>f, <2>1 DEF Applied, CallType
    <3> QED BY <3>1 DEF Spares
  <2>2. CASE BeginSync(c) \/ Create(c)
    <3>1. PICK pc \in {"create", "list"} : call' = [call EXCEPT ![c].pc = pc]
      BY <2>2 DEF BeginSync, Create, Goto
    <3> DEFINE next == [call[c] EXCEPT !.pc = pc]
    <3>2. call' = [call EXCEPT ![c] = next] /\ next.pc = pc /\ next.todo = call[c].todo
      BY <1>f, <3>1 DEF CallType
    <3> HIDE DEF next
    <3> QED BY <1>e, <3>2, OpenCall DEF Spares
  <2>3. CASE List(c)
    <3> DEFINE batch == {k \in IncidentKey : Present(k)}
               next  == [call[c] EXCEPT !.pc = IF batch = {} THEN "get" ELSE "relist",
                                        !.todo = batch]
    <3>1. /\ call' = [call EXCEPT ![c] = next] /\ next.pc \in {"get", "relist"}
          /\ next.todo = batch
      BY <1>f, <2>3 DEF List, CallType
    <3>2. batch \subseteq enqueued
      BY OpenCall DEF Present
    <3> HIDE DEF next, batch
    <3> QED BY <3>1, <3>2 DEF Spares
  <2>4. CASE Relist(c)
    <3> DEFINE next == [call[c] EXCEPT !.pc = "mark", !.batch = call[c].todo,
                                       !.todo = {k \in call[c].todo : Present(k)},
                                       !.status = outgoing]
    <3>1. /\ call' = [call EXCEPT ![c] = next] /\ next.pc = "mark"
          /\ next.todo \subseteq call[c].todo /\ next.status = outgoing
      BY <1>f, <2>4 DEF Relist, CallType
    <3> HIDE DEF next
    <3> QED BY <1>e, <3>1, OpenCall DEF Spares
  <2>5. CASE Send(c)
    <3> DEFINE next == [IdleCall EXCEPT !.pc = "sent"]
    <3>1. call' = [call EXCEPT ![c] = next] /\ next.pc = "sent" /\ next.todo = {}
      BY <1>f, <2>5 DEF Send, CallType
    <3> QED BY <3>1 DEF Spares
  <2>6. CASE Discarded(c) \/ Fail(c) \/ Lose(c)
    <3>1. call' = [call EXCEPT ![c] = IdleCall]
      BY <2>6 DEF Discarded, Fail, Lose, Offline
    <3> QED BY <1>f, <3>1 DEF Spares
  <2>7. CASE BeginDiscard(c)
    <3> DEFINE found == {k \in IncidentKey : outgoing[k] \in Retained}
               next  == [call[c] EXCEPT !.pc = "discard", !.todo = found]
    <3>1. /\ call' = [call EXCEPT ![c] = next] /\ next.pc = "discard" /\ next.todo = found
      BY <1>f, <2>7 DEF BeginDiscard, CallType
    <3>2. /\ found \subseteq enqueued
          /\ \A k \in IncidentKey : Untouched(k) => k \notin found
      BY OpenCall DEF Retained
    <3> HIDE DEF next, found
    <3> QED BY <3>1, <3>2 DEF Spares
  <2> QED BY <2>1, <2>2, <2>3, <2>4, <2>5, <2>6, <2>7
<1>9. PICK next : /\ call' = [call EXCEPT ![c] = next]
                  /\ next.pc \in {"create", "list", "get", "relist", "mark", "sent", "idle",
                                  "discard"}
                  /\ next.todo \subseteq enqueued
                  /\ \A k \in IncidentKey : Untouched(k) => Spares(next, k)
  BY <1>n
<1>10. ~Early(next) /\ ~Executing(next) /\ ~Shows(next) /\ ~Says(next) /\ next.pc # "enqueue"
  BY <1>9 DEF Early, Executing, Shows, Says, Saving
<1> QED BY <1>p, <1>e, <1>s, <1>9, <1>10, OpenCall, Quiet

\* The steps that take what the worker stored, or the entries it answered.
LEMMA AnswerSteps ==
  ASSUME IncIInv, OnlineInv, NEW c \in Call, Get(c) \/ Reply(c) \/ Entries(c)
  PROVE  OnlineInv'
<1>f. call[c] \in CallType /\ call \in [Call -> CallType] /\ page # "closed"
  BY OpenCall, IdleRests DEF Get, Reply, Entries, At, IncIInv, IncTypes
<1>s. /\ UNCHANGED <<page, incidentBus, state, clicked, enqueued, outgoing, row, versions>>
      /\ handling' = handling \/ handling' = [handling EXCEPT ![c] = NoRequest]
  BY DEF Get, Reply, Entries, storage, memory, limits, histories
<1>r. \A d \in Call : handling'[d].pc = "work" => handling'[d].reg \in versions'
  BY <1>s, OpenCall, Constants DEF IncIInv, IncTypes
<1>1. \E next : /\ call' = [call EXCEPT ![c] = next]
                /\ Shows(next) /\ next.reg \in versions /\ next.pc \in {"saveRead", "acknowledge"}
                /\ ~Says(next) /\ ~Early(next) /\ next.todo \subseteq enqueued
  <2>1. CASE Get(c)
    <3> DEFINE next == [call[c] EXCEPT !.pc = "saveRead", !.reg = row, !.then = "finish"]
    <3>1. /\ call' = [call EXCEPT ![c] = next] /\ next.pc = "saveRead" /\ next.reg = row
          /\ next.then = "finish" /\ next.todo = call[c].todo
      BY <1>f, <2>1 DEF Get, Save, CallType
    <3>2. call[c].todo \subseteq enqueued
      BY <2>1, OpenCall DEF Get, At, Early, Executing, Saving
    <3> HIDE DEF next
    <3> QED BY <2>1, <3>1, <3>2, OpenCall DEF Get, Shows, Says, Early, Executing, Saving
  <2>2. CASE Reply(c)
    <3> DEFINE next == [call[c] EXCEPT !.pc = "saveRead", !.then = "entries",
                          !.reg = handling[c].reg, !.status = handling[c].acks,
                          !.outcome = OutcomeOf(handling[c].acks)]
    <3>1. /\ call' = [call EXCEPT ![c] = next] /\ next.pc = "saveRead"
          /\ next.reg = handling[c].reg
          /\ next.then = "entries" /\ next.todo = call[c].todo
      BY <1>f, <2>2 DEF Reply, CallType
    <3>2. call[c].todo \subseteq enqueued
      BY <2>2, OpenCall DEF Reply, At, Early, Executing, Saving
    <3> HIDE DEF next
    <3> QED BY <2>2, <3>1, <3>2, OpenCall DEF Reply, Shows, Says, Early, Executing, Saving
  <2>3. CASE Entries(c)
    <3> DEFINE todo == {k \in IncidentKey : call[c].status[k] # "none" /\ Present(k)}
               next == [call[c] EXCEPT !.pc = "acknowledge", !.todo = todo]
    <3>1. /\ call' = [call EXCEPT ![c] = next] /\ next.pc = "acknowledge"
          /\ next.reg = call[c].reg /\ next.todo = todo
      BY <1>f, <2>3 DEF Entries, CallType
    <3>2. todo \subseteq enqueued /\ call[c].reg \in versions
      BY <2>3, OpenCall DEF Present, Entries, At, Shows
    <3> HIDE DEF next, todo
    <3> QED BY <3>1, <3>2 DEF Shows, Says, Early, Executing, Saving
  <2> QED BY <2>1, <2>2, <2>3
<1>2. PICK next : /\ call' = [call EXCEPT ![c] = next]
                  /\ Shows(next) /\ next.reg \in versions
                  /\ next.pc \in {"saveRead", "acknowledge"}
                  /\ ~Says(next) /\ ~Early(next) /\ next.todo \subseteq enqueued
  BY <1>1
<1>3. ~Early(call[c])
  BY DEF Get, Reply, Entries, At, Early, Executing, Saving
<1> QED BY <1>f, <1>s, <1>r, <1>2, <1>3, OpenCall, Quiet DEF Claims

\* The steps that write or delete an entry.
LEMMA WriteSteps ==
  ASSUME IncIInv, OnlineInv, NEW c \in Call, NEW k \in IncidentKey,
         Mark(c, k) \/ Acknowledge(c, k) \/ Discard(c, k)
  PROVE  OnlineInv'
<1> DEFINE next == [call[c] EXCEPT !.todo = @ \ {k}]
<1>f. call[c] \in CallType /\ call \in [Call -> CallType] /\ page # "closed"
  BY OpenCall, IdleRests DEF Mark, Acknowledge, Discard, At, IncIInv, IncTypes
<1>1. /\ call' = [call EXCEPT ![c] = next] /\ next.pc = call[c].pc /\ next.reg = call[c].reg
      /\ next.todo = call[c].todo \ {k} /\ next.status = call[c].status
      /\ next.pc \in {"mark", "acknowledge", "discard"} /\ k \in call[c].todo
  BY <1>f DEF Mark, Acknowledge, Discard, CallType, At, IsNext
<1>s. /\ UNCHANGED <<page, incidentBus, state, clicked, enqueued, row, handling, versions>>
      /\ outgoing \in [IncidentKey -> IncEntry]
  BY DEF Mark, Acknowledge, Discard, memory, limits, histories, IncIInv,
      IncTypes
<1>o. /\ \A j \in IncidentKey : j # k => outgoing'[j] = outgoing[j]
      /\ Mark(c, k) => outgoing'[k] = call[c].status[k]
  BY <1>s DEF Mark, Acknowledge, Discard
<1> HIDE DEF next
<1>2. /\ ~Early(call[c]) /\ ~Early(next) /\ ~Says(next) /\ next.pc # "enqueue"
      /\ Shows(next) <=> Shows(call[c])
      /\ ~Executing(call[c]) /\ ~Executing(next)
  BY <1>1 DEF Early, Executing, Shows, Says, Saving
<1>3. \A j \in IncidentKey : outgoing'[j] # "none" => j \in enqueued
  BY <1>o, <1>1, <1>2, OpenCall
<1>4. ASSUME ~Shows(next), NEW j \in IncidentKey, Untouched(j)
      PROVE  outgoing'[j] = "pending" /\ Spares(next, j)
  <2>1. outgoing[j] = "pending" /\ Spares(call[c], j)
    BY <1>4, OpenCall
  <2>2. Spares(next, j)
    BY <1>1, <2>1 DEF Spares
  <2>3. CASE j # k
    BY <2>1, <2>2, <2>3, <1>o
  <2>4. CASE j = k
    <3>1. call[c].pc = "mark" /\ call[c].status[k] = "pending"
      BY <1>1, <1>4, <2>1, <2>4 DEF Spares, Shows
    <3>2. Mark(c, k)
      BY <3>1 DEF Acknowledge, Discard, At
    <3> QED BY <2>2, <2>4, <3>1, <3>2, <1>o
  <2> QED BY <2>3, <2>4
<1> QED BY <1>f, <1>s, <1>1, <1>2, <1>3, <1>4, OpenCall, Quiet DEF Claims

\* The steps after which the bus is as the worker stored it.
LEMMA TakeSteps ==
  ASSUME IncIInv, OnlineInv, NEW c \in Call, Finish(c) \/ DiscardGet(c) \/ Ensure(c)
  PROVE  OnlineInv'
<1>f. call[c] \in CallType /\ call \in [Call -> CallType] /\ page # "closed"
  BY OpenCall, IdleRests DEF Finish, DiscardGet, Ensure, At, IncIInv, IncTypes
<1>s. /\ UNCHANGED <<handling, page, clicked, enqueued, outgoing>>
      /\ versions \subseteq versions' /\ row' \in versions' \cup {NoRegister}
      /\ incidentBus' \in versions'
  <2>1. CASE Finish(c)
    <3>1. call[c].reg \in versions
      BY <2>1, OpenCall DEF Finish, At, Shows
    <3> QED BY <2>1, <3>1, OpenCall DEF Finish, storage, limits, histories
  <2>2. CASE DiscardGet(c)
    BY <2>2, OpenCall DEF DiscardGet, storage, limits, histories
  <2>3. CASE Ensure(c)
    BY <2>3 DEF Ensure, Store, storage, limits
  <2> QED BY <2>1, <2>2, <2>3
<1>n. \E next : /\ call' = [call EXCEPT ![c] = next]
                /\ next.todo = call[c].todo \/ next = IdleCall
                /\ Early(next) <=> Early(call[c])
                /\ next.pc # "enqueue" /\ ~Shows(next)
  <2>1. CASE Finish(c)
    <3>1. call' = [call EXCEPT ![c] = IdleCall] /\ ~Early(call[c])
      BY <2>1 DEF Finish, Early, Executing, Saving, At
    <3> QED BY <3>1, IdleRests
  <2>2. CASE DiscardGet(c)
    <3> DEFINE next == [call[c] EXCEPT !.pc = "saveRead", !.reg = row, !.then = "discarded"]
    <3>1. /\ call' = [call EXCEPT ![c] = next] /\ next.pc = "saveRead"
          /\ next.then = "discarded" /\ next.todo = call[c].todo
      BY <1>f, <2>2 DEF DiscardGet, Save, CallType
    <3> HIDE DEF next
    <3> QED BY <2>2, <3>1 DEF DiscardGet, At, Early, Executing, Shows, Saving
  <2>3. CASE Ensure(c)
    <3> DEFINE next == [call[c] EXCEPT !.pc = "saveRead", !.reg = Stored, !.then = "execute"]
    <3>1. /\ call' = [call EXCEPT ![c] = next] /\ next.pc = "saveRead"
          /\ next.then = "execute" /\ next.todo = call[c].todo
      BY <1>f, <2>3 DEF Ensure, Save, CallType
    <3> HIDE DEF next
    <3> QED BY <2>3, <3>1 DEF Ensure, At, Early, Executing, Shows, Saving
  <2> QED BY <2>1, <2>2, <2>3
<1>1. PICK next : /\ call' = [call EXCEPT ![c] = next]
                  /\ next.todo = call[c].todo \/ next = IdleCall
                  /\ Early(next) <=> Early(call[c])
                  /\ next.pc # "enqueue" /\ ~Shows(next)
  BY <1>n
<1>2. \A d \in Call : call'[d] = IF d = c THEN next ELSE call[d]
  BY <1>f, <1>1
<1>3. KeysOnce'
  <2>1. \A d \in Call : /\ Early(call'[d]) <=> Early(call[d])
                        /\ call'[d].todo \subseteq call[d].todo
                        /\ call'[d].pc = "enqueue" => call'[d] = call[d]
    BY <1>1, <1>2, IdleRests
  <2> QED BY <1>s, <2>1 DEF OnlineInv, KeysOnce, Present, At
<1>4. ReadsStored'
  BY <1>s, <1>1, <1>2 DEF OnlineInv, ReadsStored
<1> QED BY <1>f, <1>s, <1>3, <1>4 DEF OnlineInv, ClosedRests, Covered

\* The handler of a command, until the command is in the outbox.
LEMMA EarlyKeeps ==
  ASSUME IncIInv, OnlineInv, NEW c \in Call, NEW next,
         call' = [call EXCEPT ![c] = next], page' # "closed",
         UNCHANGED <<enqueued, outgoing, row, handling, versions>>, clicked \subseteq clicked',
         Early(next), ~Shows(next), ~Says(next), next.todo \subseteq clicked',
         next.pc = "enqueue" => \E k \in IncidentKey : next.todo = {k},
         \/ Early(call[c]) /\ next.todo \subseteq call[c].todo
         \/ next.todo \cap clicked = {},
         \/ Executing(next)
         \/ ~Executing(call[c]) /\ ~Shows(call[c]) /\ next.pc = "ensure"
            /\ UNCHANGED <<incidentBus, state>>
  PROVE  OnlineInv'
<1>1. \A d \in Call : call'[d] = IF d = c THEN next ELSE call[d]
  BY DEF IncIInv, IncTypes
<1>2. KeysOnce'
  <2>1. next.todo \cap enqueued = {}
    BY OpenCall DEF OnlineInv, KeysOnce
  <2>2. \A d \in Call : d # c /\ Early(call[d]) => next.todo \cap call[d].todo = {}
    BY DEF OnlineInv, KeysOnce
  <2>3. \A d \in Call :
          /\ Early(call'[d]) => call'[d].todo \cap enqueued = {} /\ call'[d].todo \subseteq clicked'
          /\ ~Early(call'[d]) => call'[d].todo \subseteq enqueued
          /\ call'[d].pc = "enqueue" => \E k \in IncidentKey : call'[d].todo = {k}
    BY <1>1, <2>1 DEF OnlineInv, KeysOnce, At
  <2>4. \A d, e \in Call : d # e /\ Early(call'[d]) /\ Early(call'[e])
                            => call'[d].todo \cap call'[e].todo = {}
    <3> SUFFICES ASSUME NEW d \in Call, NEW e \in Call, d # e,
                        Early(call'[d]), Early(call'[e])
                 PROVE  call'[d].todo \cap call'[e].todo = {}
      OBVIOUS
    <3>1. CASE d = c
      <4>1. call'[d] = next /\ call'[e] = call[e] /\ e # c
        BY <1>1, <3>1
      <4> QED BY <2>2, <4>1
    <3>2. CASE e = c
      <4>1. call'[e] = next /\ call'[d] = call[d] /\ d # c
        BY <1>1, <3>2
      <4>2. next.todo \cap call[d].todo = {}
        BY <2>2, <4>1
      <4> QED BY <4>1, <4>2
    <3>3. CASE d # c /\ e # c
      BY <1>1, <3>3 DEF OnlineInv, KeysOnce
    <3> QED BY <3>1, <3>2, <3>3
  <2> QED BY <2>3, <2>4 DEF OnlineInv, KeysOnce, Present, At
<1>3. ReadsStored'
  BY <1>1 DEF OnlineInv, ReadsStored
<1>4. Claims' => Covered'
  <2>1. CASE Executing(next)
    BY <1>1, <2>1 DEF Covered
  <2>2. CASE ~Executing(call[c]) /\ ~Shows(call[c]) /\ next.pc = "ensure"
             /\ UNCHANGED <<incidentBus, state>>
    <3> SUFFICES ASSUME Claims' PROVE Covered'
      OBVIOUS
    <3>1. Claims
      BY <1>1, <2>2 DEF Claims
    <3>2. ASSUME NEW k \in IncidentKey, Untouched(k) PROVE Untouched(k)'
      BY <1>1, <2>2, <3>2 DEF Untouched, Spares
    <3> QED BY <1>1, <2>2, <3>1, <3>2 DEF OnlineInv, Covered
  <2> QED BY <2>1, <2>2
<1> QED BY <1>2, <1>3, <1>4 DEF OnlineInv, ClosedRests

LEMMA EarlySteps ==
  ASSUME IncIInv, OnlineInv, NEW c \in Call,
         \/ \E k \in IncidentKey : ClickAction(c, k) \/ ClickFirst(c, k) \/ ExecuteFirst(c, k)
         \/ EnsureLocal(c)
  PROVE  OnlineInv'
<1>f. call[c] \in CallType /\ call \in [Call -> CallType]
  BY OpenCall DEF IncIInv, IncTypes
<1>1. ASSUME NEW k \in IncidentKey, ExecuteCommand(c, k)
      PROVE  \E next : /\ call' = [call EXCEPT ![c] = next]
                       /\ next.pc = "enqueue" /\ next.todo = {k}
  <2> DEFINE next == [call[c] EXCEPT !.pc = "enqueue", !.reg = incidentBus', !.todo = {k}]
  <2>1. call' = [call EXCEPT ![c] = next] /\ next.pc = "enqueue" /\ next.todo = {k}
    BY <1>f, <1>1 DEF ExecuteCommand, CallType
  <2> QED BY <2>1
<1>2. ASSUME NEW next, next.pc = "enqueue"
      PROVE  Early(next) /\ Executing(next) /\ ~Shows(next) /\ ~Says(next)
  BY <1>2 DEF Early, Executing, Shows, Says, Saving
<1>3. ASSUME NEW k \in IncidentKey, ClickAction(c, k) PROVE OnlineInv'
  <2>1. PICK next : /\ call' = [call EXCEPT ![c] = next]
                    /\ next.pc = "enqueue" /\ next.todo = {k}
    BY <1>1, <1>3 DEF ClickAction
  <2>2. /\ UNCHANGED <<enqueued, outgoing, row, handling, versions, page>>
        /\ page # "closed" /\ clicked' = clicked \cup {k} /\ k \notin clicked
    BY <1>3 DEF ClickAction, Free, storage, histories
  <2> QED BY <1>2, <2>1, <2>2, EarlyKeeps
<1>4. ASSUME NEW k \in IncidentKey, ClickFirst(c, k) PROVE OnlineInv'
  <2> DEFINE next == [call[c] EXCEPT !.pc = "ensure", !.todo = {k}]
  <2>1. call' = [call EXCEPT ![c] = next] /\ next.pc = "ensure" /\ next.todo = {k}
    BY <1>f, <1>4 DEF ClickFirst, CallType
  <2>2. /\ UNCHANGED <<enqueued, outgoing, row, handling, versions, page, incidentBus, state>>
        /\ page # "closed" /\ clicked' = clicked \cup {k} /\ k \notin clicked
        /\ call[c].pc = "idle"
    BY <1>4 DEF ClickFirst, Free, At, storage, memory, histories
  <2> HIDE DEF next
  <2>3. /\ Early(next) /\ ~Shows(next) /\ ~Says(next)
        /\ ~Executing(call[c]) /\ ~Shows(call[c])
    BY <2>1, <2>2 DEF Early, Executing, Shows, Says, Saving
  <2> QED BY <2>1, <2>2, <2>3, EarlyKeeps
<1>5. ASSUME NEW k \in IncidentKey, ExecuteFirst(c, k) PROVE OnlineInv'
  <2>1. PICK next : /\ call' = [call EXCEPT ![c] = next]
                    /\ next.pc = "enqueue" /\ next.todo = {k}
    BY <1>1, <1>5 DEF ExecuteFirst
  <2>2. /\ UNCHANGED <<enqueued, outgoing, row, handling, versions, page, clicked>>
        /\ page # "closed" /\ k \in call[c].todo /\ Early(call[c])
    BY <1>5, OpenCall, IdleRests DEF ExecuteFirst, At, Early, Executing, storage,
        limits, histories
  <2>3. /\ next.todo \subseteq call[c].todo /\ next.todo \subseteq clicked'
        /\ clicked \subseteq clicked'
    BY <2>1, <2>2, OpenCall
  <2> QED BY <1>2, <2>1, <2>2, <2>3, EarlyKeeps
<1>6. CASE EnsureLocal(c)
  <2> DEFINE reg == IF incidentBus = NoRegister THEN Created ELSE incidentBus
             next == [call[c] EXCEPT !.pc = "saveRead", !.reg = reg, !.then = "execute",
                                     !.outcome = "offline"]
  <2>1. /\ call' = [call EXCEPT ![c] = next] /\ next.pc = "saveRead" /\ next.then = "execute"
        /\ next.todo = call[c].todo
    BY <1>f, <1>6 DEF EnsureLocal, CallType
  <2>2. /\ UNCHANGED <<enqueued, outgoing, row, handling, versions, page, clicked>>
        /\ page # "closed" /\ Early(call[c])
    BY <1>6, OpenCall, IdleRests DEF EnsureLocal, At, Early, storage, histories
  <2> HIDE DEF next
  <2>3. Early(next) /\ Executing(next) /\ ~Shows(next) /\ ~Says(next)
    BY <2>1 DEF Early, Executing, Shows, Says, Saving
  <2> QED BY <2>1, <2>2, <2>3, OpenCall, EarlyKeeps
<1> QED BY <1>3, <1>4, <1>5, <1>6

LEMMA EnqueueStep ==
  ASSUME IncIInv, OnlineInv, NEW c \in Call, NEW k \in IncidentKey, EnqueueEntry(c, k)
  PROVE  OnlineInv'
<1> DEFINE next == [call[c] EXCEPT !.pc = "saveRead", !.reg = call[c].reg, !.then = "applied"]
<1>f. call[c] \in CallType /\ call \in [Call -> CallType] /\ page # "closed"
  BY OpenCall, IdleRests DEF EnqueueEntry, At, IncIInv, IncTypes
<1>1. /\ call' = [call EXCEPT ![c] = next] /\ next.pc = "saveRead" /\ next.then = "applied"
      /\ next.todo = call[c].todo
  BY <1>f DEF EnqueueEntry, Save, CallType
<1> HIDE DEF next
<1>2. /\ UNCHANGED <<row, handling, page, incidentBus, state, clicked, versions>>
      /\ enqueued' = enqueued \cup {k} /\ outgoing' = [outgoing EXCEPT ![k] = "pending"]
      /\ outgoing \in [IncidentKey -> IncEntry]
  BY DEF EnqueueEntry, memory, limits, IncIInv, IncTypes
<1>3. Early(call[c]) /\ ~Early(next) /\ ~Shows(next) /\ ~Says(next)
  BY <1>1 DEF EnqueueEntry, At, Early, Executing, Shows, Says, Saving
<1>4. \A d \in Call : call'[d] = IF d = c THEN next ELSE call[d]
  BY <1>f, <1>1
<1>5. call[c].todo = {k} /\ k \in clicked /\ k \notin enqueued
  BY <1>3 DEF OnlineInv, KeysOnce, EnqueueEntry
<1>6. \A d \in Call : d # c => k \notin call[d].todo
  BY <1>3, <1>5 DEF OnlineInv, KeysOnce
<1>7. KeysOnce'
  <2>1. \A d \in Call : /\ Early(call'[d]) => Early(call[d]) /\ d # c /\ call'[d] = call[d]
                        /\ ~Early(call'[d]) => call'[d].todo \subseteq enqueued'
                        /\ call'[d].pc = "enqueue" => d # c
    BY <1>1, <1>2, <1>3, <1>4, <1>5 DEF OnlineInv, KeysOnce
  <2>2. \A j \in IncidentKey : outgoing'[j] # "none" => j \in enqueued'
    BY <1>2 DEF OnlineInv, KeysOnce, Present
  <2>3. \A d \in Call : Early(call'[d]) =>
          call'[d].todo \cap enqueued' = {} /\ call'[d].todo \subseteq clicked'
    BY <1>2, <1>6, <2>1 DEF OnlineInv, KeysOnce
  <2>4. enqueued' \subseteq clicked'
    BY <1>2, <1>5 DEF OnlineInv, KeysOnce
  <2>5. \A d \in Call : call'[d].pc = "enqueue" => \E j \in IncidentKey : call'[d].todo = {j}
    BY <1>4, <2>1 DEF OnlineInv, KeysOnce, At
  <2>6. \A d, e \in Call : d # e /\ Early(call'[d]) /\ Early(call'[e])
                            => call'[d].todo \cap call'[e].todo = {}
    BY <2>1 DEF OnlineInv, KeysOnce
  <2> QED BY <2>1, <2>2, <2>3, <2>4, <2>5, <2>6 DEF KeysOnce, Present, At
<1>8. ReadsStored'
  BY <1>2, <1>3, <1>4 DEF OnlineInv, ReadsStored
<1>9. Untouched(k)'
  <2>1. \A d \in Call : Spares(call'[d], k)
    BY <1>1, <1>4, <1>6 DEF Spares
  <2> QED BY <1>2, <2>1 DEF Untouched
<1> QED BY <1>f, <1>2, <1>7, <1>8, <1>9 DEF OnlineInv, ClosedRests, Covered

\* A page that opens says nothing yet, and one that closes nothing more.
LEMMA PageSteps ==
  ASSUME IncIInv, OnlineInv, Close \/ \E c \in Call : Open(c)
  PROVE  OnlineInv'
<1>1. CASE Close
  <2>1. /\ UNCHANGED <<row, handling, outgoing, clicked, enqueued, versions>>
        /\ state' = "offline" /\ \A d \in Call : call'[d] = IdleCall
    BY <1>1 DEF Close, storage, limits, histories
  <2>2. KeysOnce'
    BY <2>1, IdleRests DEF OnlineInv, KeysOnce, Present, At
  <2>3. ReadsStored'
    BY <2>1, IdleRests DEF OnlineInv, ReadsStored
  <2> QED BY <2>1, <2>2, <2>3, IdleRests DEF OnlineInv, ClosedRests, Claims
<1>2. ASSUME NEW c \in Call, Open(c) PROVE OnlineInv'
  <2>1. /\ UNCHANGED <<row, handling, outgoing, clicked, enqueued, versions>>
        /\ page' = "open" /\ state' # "online"
        /\ \A d \in Call : call[d] = IdleCall
    BY <1>2 DEF Open, storage, histories, OnlineInv, ClosedRests
  <2>2. \A d \in Call : call'[d].todo = {} /\ call'[d].pc \in {"idle", "list"}
    <3>1. UNCHANGED call \/ call' = [call EXCEPT ![c].pc = "list"]
      BY <1>2 DEF Open, Goto
    <3> QED BY <2>1, <3>1, IdleRests DEF IncIInv, IncTypes, CallType
  <2>3. \A d \in Call : ~Early(call'[d]) /\ ~Shows(call'[d]) /\ ~Says(call'[d])
    BY <2>2 DEF Early, Executing, Shows, Says, Saving
  <2>4. KeysOnce'
    BY <2>1, <2>2, <2>3 DEF OnlineInv, KeysOnce, Present, At
  <2>5. ReadsStored'
    BY <2>1, <2>3 DEF OnlineInv, ReadsStored
  <2> QED BY <2>1, <2>3, <2>4, <2>5 DEF OnlineInv, ClosedRests, Claims
<1> QED BY <1>1, <1>2

\* What the worker does changes what is stored, and the page sees none of it.
LEMMA StoreKeeps ==
  ASSUME IncIInv, OnlineInv,
         UNCHANGED <<outgoing, page, incidentBus, state, call, clicked, enqueued>>,
         versions \subseteq versions', row' \in versions' \cup {NoRegister},
         \A d \in Call : handling'[d].pc = "work" => handling'[d].reg \in versions'
  PROVE  OnlineInv'
<1>1. KeysOnce' /\ ReadsStored' /\ ClosedRests'
  BY DEF OnlineInv, KeysOnce, ReadsStored, ClosedRests, Present, At
<1>2. Claims' => Covered'
  BY DEF OnlineInv, Claims, Covered, Untouched
<1> QED BY <1>1, <1>2 DEF OnlineInv

LEMMA StoreSteps ==
  ASSUME IncIInv, OnlineInv,
         \/ \E c \in Call : IncidentWorkerNext(c)
         \/ \E k \in OtherKey : Elsewhere(k)
  PROVE  OnlineInv'
<1>f. \A d \in Call : handling[d] \in IncRequestType
  BY CallFacts
<1>1. ASSUME NEW c \in Call, NEW k \in IncidentKey,
             WorkerApply(c, k) \/ WorkerRepeat(c, k) \/ WorkerReject(c, k)
      PROVE  OnlineInv'
  <2>1. /\ UNCHANGED <<outgoing, page, incidentBus, state, call, clicked, enqueued>>
        /\ handling[c].pc = "work"
    BY <1>1 DEF WorkerApply, WorkerRepeat, WorkerReject, Working, storage,
        memory, limits,
                histories
  <2>2. PICK reg, status : Answered(c, k, reg, status) /\ (reg = handling[c].reg \/ Store(reg))
    BY <1>1 DEF WorkerApply, WorkerRepeat, WorkerReject
  <2>3. /\ versions \subseteq versions' /\ row' \in versions' \cup {NoRegister}
    BY <1>1, OpenCall DEF WorkerApply, WorkerRepeat, WorkerReject, Store,
        histories
  <2>4. reg \in versions'
    BY <2>1, <2>2, <2>3, OpenCall DEF Store
  <2>5. /\ handling'[c].reg = reg
        /\ \A d \in Call : d # c => handling'[d] = handling[d]
    BY <1>f, <2>2 DEF Answered, IncIInv, IncTypes, IncRequestType
  <2>6. \A d \in Call : handling'[d].pc = "work" => handling'[d].reg \in versions'
    BY <2>3, <2>4, <2>5, OpenCall
  <2> QED BY <2>1, <2>3, <2>6, StoreKeeps
<1>2. ASSUME NEW c \in Call, WorkerReadRow(c) PROVE OnlineInv'
  <2>1. /\ UNCHANGED <<outgoing, page, incidentBus, state, call, clicked, enqueued, row, versions>>
        /\ row # NoRegister
    BY <1>2 DEF WorkerReadRow, storage, memory, limits, histories
  <2>2. /\ handling'[c].reg = row
        /\ \A d \in Call : d # c => handling'[d] = handling[d]
    BY <1>f, <1>2 DEF WorkerReadRow, IncIInv, IncTypes, IncRequestType
  <2> QED BY <1>2, <2>1, <2>2, OpenCall, StoreKeeps
<1>3. ASSUME NEW c \in Call, Drop(c) PROVE OnlineInv'
  <2>1. /\ UNCHANGED <<outgoing, page, incidentBus, state, call, clicked, enqueued, row, versions>>
        /\ handling' = [handling EXCEPT ![c] = NoRequest]
    BY <1>3 DEF Drop, storage, memory, limits, histories
  <2>2. \A d \in Call : handling'[d].pc = "work" => handling'[d] = handling[d]
    BY <2>1, Constants DEF IncIInv, IncTypes
  <2> QED BY <1>3, <2>1, <2>2, OpenCall, StoreKeeps
<1>4. ASSUME NEW c \in Call, NotFound(c) PROVE OnlineInv'
  <2>1. /\ UNCHANGED <<outgoing, page, incidentBus, clicked, enqueued, row, versions>>
        /\ handling' = [handling EXCEPT ![c] = NoRequest]
    BY <1>4 DEF NotFound, storage, limits, histories
  <2>2. \A d \in Call : handling'[d].pc = "work" => handling'[d].reg \in versions'
    BY <2>1, OpenCall, Constants DEF IncIInv, IncTypes
  <2>3. CASE UNCHANGED <<state, call>>
    BY <1>4, <2>1, <2>2, <2>3, OpenCall, StoreKeeps
  <2>4. CASE At(c, "sent") /\ Offline(c)
    <3>1. ~Early(call[c]) /\ ~Executing(call[c]) /\ ~Shows(call[c]) /\ page # "closed"
      BY <2>4, OpenCall, IdleRests DEF At, Early, Executing, Shows, Saving
    <3> QED BY <2>1, <2>2, <2>4, <3>1, OpenCall, IdleRests, Quiet DEF Offline, Spares
  <2> QED BY <1>4, <2>3, <2>4 DEF NotFound
<1>5. ASSUME NEW k \in OtherKey, Elsewhere(k) PROVE OnlineInv'
  <2>1. /\ UNCHANGED <<outgoing, page, incidentBus, state, call, clicked, enqueued, handling>>
        /\ versions \subseteq versions' /\ row' \in versions'
    BY <1>5 DEF Elsewhere, Store, storage, memory, limits
  <2> QED BY <1>5, <2>1, OpenCall, StoreKeeps
<1> QED BY <1>1, <1>2, <1>3, <1>4, <1>5 DEF IncidentWorkerNext

LEMMA NextOnline == IncIInv /\ OnlineInv /\ [IncidentNext]_incidentVars => OnlineInv'
<1> SUFFICES ASSUME IncIInv, OnlineInv, [IncidentNext]_incidentVars PROVE OnlineInv'
  OBVIOUS
<1>1. ASSUME NEW c \in Call, PageNext(c) PROVE OnlineInv'
  <2>1. ASSUME NEW k \in IncidentKey,
               \/ ClickAction(c, k) \/ ClickFirst(c, k) \/ ExecuteFirst(c, k) \/ EnqueueEntry(c, k)
               \/ Mark(c, k) \/ Acknowledge(c, k) \/ Discard(c, k)
        PROVE  OnlineInv'
    BY <2>1, EarlySteps, EnqueueStep, WriteSteps
  <2>2. CASE \/ Ensure(c) \/ EnsureLocal(c) \/ SaveRead(c) \/ SavePut(c) \/ Finish(c)
             \/ DiscardGet(c) \/ Get(c) \/ Reply(c) \/ Entries(c) \/ Open(c)
    BY <2>2, TakeSteps, EarlySteps, SaveSteps, AnswerSteps, PageSteps
  <2>3. CASE \/ Applied(c) \/ BeginSync(c) \/ Create(c) \/ List(c) \/ Relist(c) \/ Send(c)
             \/ BeginDiscard(c) \/ Discarded(c) \/ Fail(c) \/ Lose(c)
    BY <2>3, PlainSteps
  <2> QED BY <1>1, <2>1, <2>2, <2>3 DEF PageNext
<1>2. CASE \/ \E c \in Call : IncidentWorkerNext(c)
           \/ \E k \in OtherKey : Elsewhere(k)
  BY <1>2, StoreSteps
<1>3. CASE Close
  BY <1>3, PageSteps
<1>4. CASE UNCHANGED incidentVars
  <2>1. UNCHANGED <<outgoing, page, incidentBus, state, call, clicked, enqueued, row, handling, versions>>
    BY <1>4 DEF incidentVars, storage, memory, limits, histories
  <2> QED BY <2>1, StoreKeeps DEF OnlineInv, ReadsStored
<1> QED BY <1>1, <1>2, <1>3, <1>4 DEF IncidentNext

LEMMA SettledShowsStored == OnlineInv => OnlineWasStored
<1> SUFFICES ASSUME OnlineInv, Settled PROVE incidentBus \in versions
  BY DEF OnlineWasStored
<1>1. \A c \in Call : ~Executing(call[c]) /\ ~Shows(call[c])
  BY DEF Settled, At, Executing, Shows, Saving
<1>2. ASSUME NEW k \in IncidentKey PROVE ~Untouched(k)
  <2>1. outgoing[k] = "none"
    BY DEF Settled, Present
  <2> QED BY <2>1 DEF Untouched
<1> QED BY <1>1, <1>2 DEF OnlineInv, Claims, Covered, Settled

\* A page that has nothing to do, says online and has nothing to send shows a
\* register that the worker stored.
THEOREM OnlineShowsStored == IncidentSpec => []OnlineWasStored
BY InitOnline, NextOnline, SettledShowsStored, IncInvariance, PTL DEF IncidentSpec
=============================================================================
