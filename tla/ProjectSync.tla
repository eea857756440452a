----------------------------- MODULE ProjectSync -----------------------------
(***************************************************************************)
(* How open Studios keep one Project in step with the worker:              *)
(*   - the save loop and the remote event handler of src/src/App.tsx,      *)
(*   - save, load and acceptRemote of src/src/persistence/project-store.ts *)
(*     on the two records a browser keeps in localStorage (the local copy  *)
(*     and the synchronization base),                                      *)
(*   - the merge of src/src/domain/project-concurrency.ts,                 *)
(*   - PUT and GET of src/worker/index.ts, whose internals are the subject *)
(*     of ProjectRepository: here a PUT commits or is refused in one step, *)
(*     and its answer reads the record in a later one.                     *)
(*                                                                         *)
(* The snapshot of a Project is the set of edits made in it; the other     *)
(* fields of the record are one number, changed by other pages.  Tabs of   *)
(* one browser share its localStorage.                                     *)
(*                                                                         *)
(* Simplifications: the Project exists and every browser has opened it     *)
(* before; it may be deleted once, in a browser that has no tab here, and  *)
(* is not recovered; a tab handles one event's load at a time; a request   *)
(* whose page is closed has reached the worker by then or never does; the  *)
(* ref that mirrors the displayed status follows it at once; of the        *)
(* storage calls only writeRecovery's may throw (see RecoveryEnvelope).    *)
(***************************************************************************)
EXTENDS Naturals, FiniteSets

CONSTANTS Browser, Tab,
          BrowserOf,      \* the browser of each tab
          Edit,           \* edits users make, each at most once
          LateAnswers,    \* may another write land before a PUT is answered?
          MaxEvents,      \* bound: collaboration events each tab reacts to
          MaxElsewhere,   \* bound: metadata changes and deletions by others
          MaxFailures,    \* bound: requests and recovery entries that fail
          MaxPages,       \* bound: times each tab opens the page
          MaxChoices      \* bound: conflicts the user of each tab resolves

ASSUME SyncConstants ==
  /\ BrowserOf \in [Tab -> Browser]
  /\ LateAnswers \in BOOLEAN
  /\ {MaxEvents, MaxElsewhere, MaxFailures, MaxPages, MaxChoices} \subseteq Nat

VARIABLES
  server,     \* the stored record
  gone,       \* whether the Project was deleted
  announced,  \* the highest revision announced by a collaboration event
  stored,     \* every record the worker ever stored
  cache,      \* localStorage: the local copy of each browser
  base,       \* localStorage: the last synchronized record
  recovery,   \* localStorage: recovery entries
  page,       \* of each tab: closed, opening (start awaits its load) or open
  plan,       \* the planner's snapshot
  known,      \* projectRecordMetadata.current
  skip,       \* skipNextPersistenceSave
  timer,      \* whether the 220 ms timer runs
  queue,      \* saves chained on saveQueue
  save,       \* the save under way
  load,       \* the loads under way: start's and the event handler's
  status,     \* persistenceStatus
  conflict,   \* syncConflictRef
  made, events, elsewhere, failures, pages, choices   \* bounded counters

remoteVars  == <<server, gone, announced, stored>>
storageVars == <<cache, base, recovery>>
tabVars     == <<page, plan, known, skip, timer, queue, save, load, status, conflict>>
bounds      == <<made, events, elsewhere, failures, pages, choices>>
vars        == <<remoteVars, storageVars, tabVars, bounds>>

Created    == [rev |-> 1, snap |-> {}, meta |-> 0]
NoSave     == [pc |-> "none"]
NoLoad     == [pc |-> "none"]
Loader     == {"start", "event"}
NoConflict == [set |-> FALSE]

Init ==
  /\ server = Created /\ gone = FALSE /\ announced = 1 /\ stored = {Created}
  /\ cache = [b \in Browser |-> Created]
  /\ base  = [b \in Browser |-> Created]
  /\ recovery = [b \in Browser |-> {}]
  /\ page = [t \in Tab |-> "closed"]
  /\ plan = [t \in Tab |-> {}]
  /\ known = [t \in Tab |-> [rev |-> 0, meta |-> 0]]
  /\ skip = [t \in Tab |-> FALSE]
  /\ timer = [t \in Tab |-> FALSE]
  /\ queue = [t \in Tab |-> 0]
  /\ save = [t \in Tab |-> NoSave]
  /\ load = [t \in Tab |-> [k \in Loader |-> NoLoad]]
  /\ status = [t \in Tab |-> "SYNC"]
  /\ conflict = [t \in Tab |-> NoConflict]
  /\ made = {} /\ elsewhere = 0 /\ failures = 0
  /\ events = [t \in Tab |-> 0]
  /\ pages = [t \in Tab |-> 0]
  /\ choices = [t \in Tab |-> 0]

\* projectRecordMetadataFor
MetadataFor(rec) == [rev |-> rec.rev, meta |-> rec.meta]

\* writeLocal and writeRemoteCache
WriteLocal(t, rec) == cache' = [cache EXCEPT ![BrowserOf[t]] = rec]
WriteRemoteCache(t, rec) ==
  /\ WriteLocal(t, rec)
  /\ base' = [base EXCEPT ![BrowserOf[t]] = rec]

-----------------------------------------------------------------------------
(* The worker                                                              *)

Store(rec) == server' = rec /\ stored' = stored \cup {rec}

\* Another page changes a metadata field: updateMetadata, load and PUT.
ChangeElsewhere ==
  /\ ~gone
  /\ elsewhere < MaxElsewhere
  /\ elsewhere' = elsewhere + 1
  /\ Store([server EXCEPT !.rev = @ + 1, !.meta = @ + 1])
  /\ announced' = server.rev + 1
  /\ UNCHANGED <<gone, storageVars, tabVars, made, events, failures, pages,
                 choices>>

\* Another session deletes the Project: get does not find it any more, and
\* this browser keeps its copies.
DeleteElsewhere ==
  /\ ~gone
  /\ elsewhere < MaxElsewhere
  /\ elsewhere' = elsewhere + 1
  /\ gone' = TRUE
  /\ UNCHANGED <<server, announced, stored, storageVars, tabVars, made, events,
                 failures, pages, choices>>

Answered(t, kind, rec) ==
  [save EXCEPT ![t] = [@ EXCEPT !.pc = "answered", !.reply = [kind |-> kind, rec |-> rec]]]

Later(m, n) == IF m > n THEN m ELSE n

\* PUT with X-VenueMind-Expected-Revision: compare-and-swap.  Of a deleted
\* Project the 412 has no current record.
Put(t) ==
  LET rec == [save[t].local EXCEPT !.rev = @ + 1]
  IN  /\ save[t].pc = "sent"
      /\ UNCHANGED gone
      /\ IF gone \/ server.rev # save[t].local.rev
         THEN /\ save' = Answered(t, IF gone THEN "missing" ELSE "stale", server)
              /\ UNCHANGED <<server, announced, stored>>
         ELSE /\ Store(rec)
              /\ IF LateAnswers
                 THEN /\ save' = [save EXCEPT ![t].pc = "written"]
                      /\ UNCHANGED announced
                 ELSE /\ save' = Answered(t, "saved", rec)
                      /\ announced' = rec.rev
      /\ UNCHANGED <<storageVars, page, plan, known, skip, timer, queue, load,
                     status, conflict, bounds>>

\* The answer to a PUT that was written carries the record as it is now; when
\* a later write or the deletion came before put's receipt, the answer is 412.
\* (A deletion after the receipt makes it 500, which is a lost answer.)
Answer(t) ==
  /\ save[t].pc = "written"
  /\ \/ /\ ~gone
        /\ save' = Answered(t, "saved", server)
        /\ announced' = Later(announced, server.rev)
     \/ /\ ~gone /\ server.rev # save[t].local.rev + 1
        /\ save' = Answered(t, "stale", server)
        /\ UNCHANGED announced
     \/ /\ gone
        /\ save' = Answered(t, "missing", server)
        /\ UNCHANGED announced
  /\ UNCHANGED <<server, gone, stored, storageVars, page, plan, known, skip, timer,
                 queue, load, status, conflict, bounds>>

\* GET: the record, or 404.
Read(t, k) ==
  /\ load[t][k].pc = "sent"
  /\ load' = [load EXCEPT ![t][k] =
       IF gone THEN [pc |-> "missing"] ELSE [pc |-> "answered", rec |-> server]]
  /\ UNCHANGED <<remoteVars, storageVars, page, plan, known, skip, timer, queue,
                 save, status, conflict, bounds>>

-----------------------------------------------------------------------------
(* The page: start                                                         *)

Open(t) ==
  /\ page[t] = "closed"
  /\ pages[t] < MaxPages
  /\ pages' = [pages EXCEPT ![t] = @ + 1]
  /\ page' = [page EXCEPT ![t] = "opening"]
  /\ load' = [load EXCEPT ![t]["start"] = [pc |-> "sent"]]
  /\ UNCHANGED <<remoteVars, storageVars, plan, known, skip, timer, queue, save,
                 status, conflict, made, events, elsewhere, failures, choices>>

\* The planner takes over a loaded record and the page subscribes to it.
Started(t, rec, shown) ==
  /\ page[t] = "opening"
  /\ plan' = [plan EXCEPT ![t] = rec.snap]
  /\ known' = [known EXCEPT ![t] = MetadataFor(rec)]
  /\ page' = [page EXCEPT ![t] = "open"]
  /\ status' = [status EXCEPT ![t] = shown]
  /\ load' = [load EXCEPT ![t]["start"] = NoLoad]
  /\ UNCHANGED <<remoteVars, recovery, skip, timer, queue, save, conflict, made,
                 events, elsewhere, pages, choices>>

\* start's load is answered: the record replaces whatever copy there was.
StartLoaded(t) ==
  /\ load[t]["start"].pc = "answered"
  /\ WriteRemoteCache(t, load[t]["start"].rec)
  /\ Started(t, load[t]["start"].rec, "SAVED")
  /\ UNCHANGED failures

Failure == failures < MaxFailures /\ failures' = failures + 1

\* start's load is answered 404: the local copy, as a record of the worker.
StartMissing(t) ==
  /\ load[t]["start"].pc = "missing"
  /\ Started(t, cache[BrowserOf[t]], "SAVED")
  /\ UNCHANGED <<cache, base, failures>>

\* start's load fails: the local copy is used.
StartFailed(t) ==
  /\ Failure
  /\ load[t]["start"].pc # "none"
  /\ Started(t, cache[BrowserOf[t]], "LOCAL")
  /\ UNCHANGED <<cache, base>>

Close(t) ==
  /\ page[t] # "closed"
  /\ pages[t] < MaxPages
  /\ page' = [page EXCEPT ![t] = "closed"]
  /\ plan' = [plan EXCEPT ![t] = {}]
  /\ known' = [known EXCEPT ![t] = [rev |-> 0, meta |-> 0]]
  /\ skip' = [skip EXCEPT ![t] = FALSE]
  /\ timer' = [timer EXCEPT ![t] = FALSE]
  /\ queue' = [queue EXCEPT ![t] = 0]
  /\ save' = [save EXCEPT ![t] = NoSave]
  /\ load' = [load EXCEPT ![t] = [k \in Loader |-> NoLoad]]
  /\ status' = [status EXCEPT ![t] = "SYNC"]
  /\ conflict' = [conflict EXCEPT ![t] = NoConflict]
  /\ UNCHANGED <<remoteVars, storageVars, bounds>>

-----------------------------------------------------------------------------
(* The page: edits and the save loop                                       *)

\* What the planner's subscriber does with a change, when there is one.
Publish(t) ==
  IF page[t] # "open" THEN UNCHANGED <<skip, timer>>
  ELSE IF skip[t] THEN skip' = [skip EXCEPT ![t] = FALSE] /\ UNCHANGED timer
  ELSE timer' = [timer EXCEPT ![t] = TRUE] /\ UNCHANGED skip

\* A save that can start does so before the page's next task (saveQueue.then).
Starting(t) == queue[t] > 0 /\ save[t].pc = "none"

DoEdit(t, e) ==
  /\ page[t] # "closed" /\ ~Starting(t)
  /\ e \notin made
  /\ made' = made \cup {e}
  /\ plan' = [plan EXCEPT ![t] = @ \cup {e}]
  /\ Publish(t)
  /\ UNCHANGED <<remoteVars, storageVars, page, known, queue, save, load, status,
                 conflict, events, elsewhere, failures, pages, choices>>

\* Mutant: a save that comes while another is under way is dropped.
TimerFiresOnce(t) ==
  /\ timer[t] /\ ~Starting(t)
  /\ timer' = [timer EXCEPT ![t] = FALSE]
  /\ queue' = [queue EXCEPT ![t] = IF save[t].pc = "none" THEN @ + 1 ELSE @]
  /\ UNCHANGED <<remoteVars, storageVars, page, plan, known, skip, save, load,
                 status, conflict, bounds>>

\* queueSave: saves run one after the other.
TimerFires(t) ==
  /\ timer[t] /\ ~Starting(t)
  /\ timer' = [timer EXCEPT ![t] = FALSE]
  /\ queue' = [queue EXCEPT ![t] = @ + 1]
  /\ UNCHANGED <<remoteVars, storageVars, page, plan, known, skip, save, load,
                 status, conflict, bounds>>

\* The record save builds: the planner's snapshot, the metadata the page
\* knows, and the revision of the browser's local copy.
LocalRecord(t) ==
  [rev |-> cache[BrowserOf[t]].rev, snap |-> plan[t], meta |-> known[t].meta]

\* Mutant: the local copy is written with the answer only.
SaveStartUnwritten(t) ==
  /\ save[t].pc = "none"
  /\ queue[t] > 0
  /\ queue' = [queue EXCEPT ![t] = @ - 1]
  /\ IF conflict[t].set
     THEN UNCHANGED <<save, status>>
     ELSE /\ status' = [status EXCEPT ![t] = "SYNC"]
          /\ save' = [save EXCEPT ![t] =
               [pc |-> "sent", local |-> LocalRecord(t), first |-> LocalRecord(t),
                base |-> Created, again |-> FALSE,
                reply |-> [kind |-> "none", rec |-> Created]]]
  /\ UNCHANGED <<remoteVars, storageVars, page, plan, known, skip, timer, load,
                 conflict, bounds>>

\* save: nothing while a conflict is displayed, else the local copy is written
\* and the PUT is sent.
SaveStart(t) ==
  /\ save[t].pc = "none"
  /\ queue[t] > 0
  /\ queue' = [queue EXCEPT ![t] = @ - 1]
  /\ IF conflict[t].set
     THEN UNCHANGED <<cache, save, status>>
     ELSE /\ WriteLocal(t, LocalRecord(t))
          /\ status' = [status EXCEPT ![t] = "SYNC"]
          /\ save' = [save EXCEPT ![t] =
               [pc |-> "sent", local |-> LocalRecord(t), first |-> LocalRecord(t),
                base |-> Created, again |-> FALSE,
                reply |-> [kind |-> "none", rec |-> Created]]]
  /\ UNCHANGED <<remoteVars, base, recovery, page, plan, known, skip, timer, load,
                 conflict, bounds>>

\* The PUT succeeded: the answered record becomes local copy and base.
SaveDone(t) ==
  /\ save[t].pc = "answered" /\ save[t].reply.kind = "saved"
  /\ WriteRemoteCache(t, save[t].reply.rec)
  /\ known' = [known EXCEPT ![t] = MetadataFor(save[t].reply.rec)]
  /\ status' = [status EXCEPT ![t] = IF save[t].again THEN "MERGED" ELSE "SAVED"]
  /\ save' = [save EXCEPT ![t] = NoSave]
  /\ UNCHANGED <<remoteVars, recovery, page, plan, skip, timer, queue, load,
                 conflict, bounds>>

\* The fields of reconcileProjectRecords.
Fields == {"snap", "meta"}

\* Fields both sides changed, to different values.
Overlapping(b, local, remote) ==
  {f \in Fields : b[f] # local[f] /\ b[f] # remote[f] /\ local[f] # remote[f]}

\* The local changes on top of the remote record.
Merged(b, local, remote) ==
  [rev  |-> remote.rev,
   snap |-> IF b.snap # local.snap THEN local.snap ELSE remote.snap,
   meta |-> IF b.meta # local.meta THEN local.meta ELSE remote.meta]

\* The base a refused save is compared with: readSyncBase as the answer
\* arrives, and the remote record of the first attempt at the second one.
BaseOf(t) == IF save[t].again THEN save[t].base ELSE base[BrowserOf[t]]

Refused(t) == save[t].pc = "answered" /\ save[t].reply.kind \in {"stale", "missing"}

Mergeable(t) ==
  /\ save[t].reply.kind = "stale"
  /\ ~save[t].again
  /\ Overlapping(BaseOf(t), save[t].local, save[t].reply.rec) = {}

\* Mutant: the merged record is kept as if it had been synchronized.
SaveMergeAsBase(t) ==
  LET remote == save[t].reply.rec
      merged == Merged(BaseOf(t), save[t].local, remote)
  IN  /\ Refused(t)
      /\ Mergeable(t)
      /\ WriteRemoteCache(t, merged)
      /\ save' = [save EXCEPT ![t] =
           [@ EXCEPT !.pc = "sent", !.local = merged, !.base = remote, !.again = TRUE]]
      /\ UNCHANGED <<remoteVars, recovery, page, plan, known, skip, timer,
                     queue, load, status, conflict, bounds>>

\* 412 and the changes are independent: merged, kept locally and sent again.
SaveMerge(t) ==
  LET remote == save[t].reply.rec
      merged == Merged(BaseOf(t), save[t].local, remote)
  IN  /\ Refused(t)
      /\ Mergeable(t)
      /\ WriteLocal(t, merged)
      /\ save' = [save EXCEPT ![t] =
           [@ EXCEPT !.pc = "sent", !.local = merged, !.base = remote, !.again = TRUE]]
      /\ UNCHANGED <<remoteVars, base, recovery, page, plan, known, skip, timer,
                     queue, load, status, conflict, bounds>>

\* writeRecovery: an entry, or nothing when setItem throws.
WriteRecovery(t, local, remote) ==
  \/ /\ recovery' = [recovery EXCEPT ![BrowserOf[t]] =
                       @ \cup {[local |-> local, remote |-> remote]}]
     /\ UNCHANGED failures
  \/ Failure /\ UNCHANGED recovery

\* 412 otherwise, and at the second one: CONFLICT, with or without a recovery
\* entry.  Without a current record the local one stands for the remote one.
SaveConflict(t) ==
  LET local  == save[t].local
      remote == IF save[t].reply.kind = "missing" THEN local ELSE save[t].reply.rec
  IN  /\ Refused(t)
      /\ ~Mergeable(t)
      /\ WriteRecovery(t, local, remote)
      /\ conflict' = [conflict EXCEPT ![t] = [set |-> TRUE, local |-> local, remote |-> remote]]
      /\ status' = [status EXCEPT ![t] = "CONFLICT"]
      /\ save' = [save EXCEPT ![t] = NoSave]
      /\ UNCHANGED <<remoteVars, cache, base, page, plan, known, skip, timer, queue,
                     load, made, events, elsewhere, pages, choices>>

\* Mutant: a save that was not stored is displayed as one that was.
SaveLostAsSaved(t) ==
  /\ Failure
  /\ save[t].pc # "none"
  /\ known' = [known EXCEPT ![t] = MetadataFor(save[t].first)]
  /\ status' = [status EXCEPT ![t] = "SAVED"]
  /\ save' = [save EXCEPT ![t] = NoSave]
  /\ UNCHANGED <<remoteVars, storageVars, page, plan, skip, timer, queue, load,
                 conflict, made, events, elsewhere, pages, choices>>

\* The request or its answer is lost: save returns the record it began with.
SaveLost(t) ==
  /\ Failure
  /\ save[t].pc # "none"
  /\ known' = [known EXCEPT ![t] = MetadataFor(save[t].first)]
  /\ status' = [status EXCEPT ![t] = "LOCAL"]
  /\ save' = [save EXCEPT ![t] = NoSave]
  /\ UNCHANGED <<remoteVars, storageVars, page, plan, skip, timer, queue, load,
                 conflict, made, events, elsewhere, pages, choices>>

-----------------------------------------------------------------------------
(* The page: collaboration events                                          *)

\* applyRemoteEvent up to its load, for an event of a revision the page does
\* not know; while a save is in flight the event is put off.
RemoteEvent(t) ==
  /\ page[t] # "closed"
  /\ events[t] < MaxEvents
  /\ announced > known[t].rev
  /\ save[t].pc = "none"
  /\ load[t]["event"].pc = "none" \/ status[t] \in {"LOCAL", "CONFLICT"}
  /\ events' = [events EXCEPT ![t] = @ + 1]
  /\ IF status[t] \in {"LOCAL", "CONFLICT"}
     THEN status' = [status EXCEPT ![t] = "STALE"] /\ UNCHANGED load
     ELSE load' = [load EXCEPT ![t]["event"] = [pc |-> "sent"]] /\ UNCHANGED status
  /\ UNCHANGED <<remoteVars, storageVars, page, plan, known, skip, timer, queue,
                 save, conflict, made, elsewhere, failures, pages, choices>>

\* The planner takes over a remote record; the change is not to be saved.
Restore(t, rec) ==
  /\ plan' = [plan EXCEPT ![t] = rec.snap]
  /\ known' = [known EXCEPT ![t] = MetadataFor(rec)]
  /\ skip' = [skip EXCEPT ![t] = page[t] # "open"]

\* The load is over: an older record than the page knows is left alone.
Applied(t, rec) ==
  /\ page[t] # "closed"
  /\ load' = [load EXCEPT ![t]["event"] = NoLoad]
  /\ IF rec.rev > known[t].rev
     THEN Restore(t, rec) /\ status' = [status EXCEPT ![t] = "REMOTE"]
     ELSE UNCHANGED <<plan, known, skip, status>>
  /\ UNCHANGED <<remoteVars, recovery, page, timer, queue, save, conflict, made,
                 events, elsewhere, pages, choices>>

EventLoaded(t) ==
  /\ load[t]["event"].pc = "answered"
  /\ WriteRemoteCache(t, load[t]["event"].rec)
  /\ Applied(t, load[t]["event"].rec)
  /\ UNCHANGED failures

\* 404: the local copy is compared in the record's place.
EventLoadMissing(t) ==
  /\ load[t]["event"].pc = "missing"
  /\ Applied(t, cache[BrowserOf[t]])
  /\ UNCHANGED <<cache, base, failures>>

EventLoadFailed(t) ==
  /\ Failure
  /\ load[t]["event"].pc # "none"
  /\ Applied(t, cache[BrowserOf[t]])
  /\ UNCHANGED <<cache, base>>

-----------------------------------------------------------------------------
(* The page: the user resolves a conflict                                  *)

\* acceptRemote, and the remote record in the planner without a save.
AcceptRemote(t) ==
  /\ conflict[t].set
  /\ choices[t] < MaxChoices
  /\ choices' = [choices EXCEPT ![t] = @ + 1]
  /\ WriteRemoteCache(t, conflict[t].remote)
  /\ known' = [known EXCEPT ![t] = MetadataFor(conflict[t].remote)]
  /\ conflict' = [conflict EXCEPT ![t] = NoConflict]
  /\ skip' = [skip EXCEPT ![t] = FALSE]

\* handleUseRemoteRecord
UseRemote(t) ==
  /\ AcceptRemote(t)
  /\ plan' = [plan EXCEPT ![t] = conflict[t].remote.snap]
  /\ status' = [status EXCEPT ![t] = "SAVED"]
  /\ UNCHANGED <<remoteVars, recovery, page, timer, queue, save, load, made,
                 events, elsewhere, failures, pages>>

\* handleRecoverProposalBranch: the local Proposal comes back as a branch.
RecoverBranch(t) ==
  /\ AcceptRemote(t)
  /\ plan' = [plan EXCEPT ![t] = conflict[t].remote.snap \cup conflict[t].local.snap]
  /\ timer' = [timer EXCEPT ![t] = TRUE]
  /\ status' = [status EXCEPT ![t] = "SYNC"]
  /\ UNCHANGED <<remoteVars, recovery, page, queue, save, load, made,
                 events, elsewhere, failures, pages>>

-----------------------------------------------------------------------------
PageNext(t) ==
  \/ Open(t) \/ StartLoaded(t) \/ StartMissing(t) \/ StartFailed(t) \/ Close(t)
  \/ \E e \in Edit : DoEdit(t, e)
  \/ TimerFires(t) \/ SaveStart(t)
  \/ SaveDone(t) \/ SaveMerge(t) \/ SaveConflict(t) \/ SaveLost(t)
  \/ RemoteEvent(t) \/ EventLoaded(t) \/ EventLoadMissing(t) \/ EventLoadFailed(t)
  \/ UseRemote(t) \/ RecoverBranch(t)

WorkerNext(t) == Put(t) \/ Answer(t) \/ \E k \in Loader : Read(t, k)

Next == ChangeElsewhere \/ DeleteElsewhere \/ \E t \in Tab : PageNext(t) \/ WorkerNext(t)

Spec == Init /\ [][Next]_vars

\* Timers fire, promises settle and the worker answers; users, other pages and
\* failures owe nothing.
Fairness ==
  \A t \in Tab :
    /\ WF_vars(TimerFires(t)) /\ WF_vars(SaveStart(t)) /\ WF_vars(WorkerNext(t))
    /\ WF_vars(SaveDone(t) \/ SaveMerge(t) \/ SaveConflict(t))
    /\ WF_vars(StartLoaded(t) \/ StartMissing(t))
    /\ WF_vars(EventLoaded(t) \/ EventLoadMissing(t))

FairSpec == Spec /\ Fairness
-----------------------------------------------------------------------------
(* Properties                                                              *)

Record   == [rev : Nat, snap : SUBSET Edit, meta : Nat]
Metadata == [rev : Nat, meta : Nat]
Reply    == [kind : {"none", "saved", "stale", "missing"}, rec : Record]
Save     == {NoSave} \cup
  [pc : {"sent", "written", "answered"}, local : Record, first : Record,
   base : Record, again : BOOLEAN, reply : Reply]
Load     == {NoLoad} \cup [pc : {"sent", "missing"}] \cup [pc : {"answered"}, rec : Record]
Conflict == [local : Record, remote : Record]

\* The values of the variables.
TypeOK ==
  /\ server \in Record /\ gone \in BOOLEAN /\ announced \in Nat /\ \A r \in stored : r \in Record
  /\ \A b \in Browser :
       /\ cache[b] \in Record /\ base[b] \in Record
       /\ \A c \in recovery[b] : c \in Conflict
  /\ \A t \in Tab :
       /\ page[t] \in {"closed", "opening", "open"}
       /\ plan[t] \subseteq Edit /\ known[t] \in Metadata
       /\ skip[t] \in BOOLEAN /\ timer[t] \in BOOLEAN /\ queue[t] \in Nat
       /\ save[t] \in Save /\ \A k \in Loader : load[t][k] \in Load
       /\ status[t] \in {"SYNC", "SAVED", "MERGED", "LOCAL", "CONFLICT", "STALE", "REMOTE"}

\* However loads, saves and choices interleave, the synchronization base is a
\* record the worker did store: a merge never compares with local work.  (Of a
\* deleted Project the user's choice may be a record that was never stored.)
BaseWasStored == gone \/ \A b \in Browser : base[b] \in stored

EverStored == UNION {r.snap : r \in stored}

Quiet(t) ==
  /\ page[t] = "open" /\ ~timer[t] /\ queue[t] = 0 /\ save[t].pc = "none"

Alone(t) == \A s \in Tab \ {t} : BrowserOf[s] # BrowserOf[t]

\* docs/persistence-and-recovery.md: work that cannot be synchronized "remains
\* local".  The local copy, which is there when the page is not any more, has
\* what a page that says LOCAL displays, unless it was stored, and the local
\* side of a conflict: whatever merges, late and lost answers came before, when
\* the Project is deleted, and when no recovery entry could be written.  For a
\* tab alone in its browser that has reacted to no collaboration event: other
\* tabs and loads replace the local copy.
LocalWorkIsKept ==
  \A t \in Tab : Alone(t) /\ events[t] = 0 =>
    /\ Quiet(t) /\ status[t] = "LOCAL" =>
         plan[t] \subseteq cache[BrowserOf[t]].snap \cup EverStored
    /\ conflict[t].set => cache[BrowserOf[t]] = conflict[t].local

\* docs/persistence-and-recovery.md: acceptance and recovery "never overwrite
\* newer accepted truth silently": no save removes an edit the worker has
\* stored.  It does: a page whose save was merged displays MERGED, knows the
\* merged revision, and goes on with the snapshot it had.
StoredEditsStay == [][server.snap \subseteq server'.snap]_vars

\* docs/persistence-and-recovery.md: "local-only work is never presented as
\* synchronized".  With nothing under way, what a page that says SAVED, MERGED
\* or REMOTE displays was stored by the worker, unless the page has reacted to
\* a collaboration event or the Project was deleted.
SyncedWasStored ==
  gone \/ \A t \in Tab :
    Quiet(t) /\ events[t] = 0 /\ status[t] \in {"SAVED", "MERGED", "REMOTE"} =>
      plan[t] \subseteq EverStored

\* An edit of an open page that reacts to no collaboration event is stored in
\* the end, or the page says LOCAL or CONFLICT, or no longer shows the edit, or
\* the Project was deleted.
EditSettles ==
  \A t \in Tab : \A e \in Edit :
    (page[t] = "open" /\ e \in plan[t]) ~>
      \/ e \in EverStored
      \/ status[t] \in {"LOCAL", "CONFLICT"}
      \/ page[t] # "open" \/ e \notin plan[t] \/ events[t] > 0 \/ gone
=============================================================================
