# VenueMind in TLA+

Specifications, model-checking configurations and proofs for the parts of
VenueMind that keep shared state: the worker's D1 tables, the browser's
recovery storage and outboxes, and the protocols between them.  File names
below are relative to the root of the repository; `App.tsx`,
`project-store.ts` and so on are the files under `src/`.

## 1. The system and its parts

VenueMind is a planning Studio in the browser (React, `src/`), a Cloudflare
worker with a D1 database (`worker/`, `db/migrations/`), and clients of both
(`packages/mcp-server`, `packages/sdk`).

| part | state | operations | talks to |
|---|---|---|---|
| Project record storage (`worker/project-repository.ts`, GET and PUT of `worker/index.ts`) | rows `projects` (revision, write token, deletion) and `project_states` (snapshot) | get, put (create or compare-and-swap update) | appends collaboration events |
| Data protection (`worker/data-protection-repository.ts`) | `projects.deleted_at`, deletion requests | request deletion, recover, purge, retention sweep | the same rows |
| Studio persistence (`App.tsx`, `project-store.ts`, `project-concurrency.ts`) | localStorage: local copy, synchronization base, recovery entries; refs of the page: known metadata, skip flag, status, conflict, save queue | open (load), edit, debounced save, three-way merge, conflict choice, remote event | GET/PUT, collaboration stream |
| Event Day Runbook (`event-day-runbook.ts`, `runbook-command-bus.ts`) | tasks with status and revision, receipts, sequence | preview, execute, hydrate | store and synchronization |
| Runbook synchronization (`runbook-store.ts`, `runbook-sync.ts`, `worker/runbook-repository.ts`, transitions:sync of `worker/index.ts`) | IndexedDB outbox and cache; D1 tasks, transitions, ledger, receipts | enqueue, synchronize, acknowledge, read, check, batch | each other over HTTP |
| Venue planner (`venue-planner.ts`, `activity-ledger.ts`, `locks.ts`) | Plan, Proposal Branches, locks, undo and redo stacks, receipts, ledger | about thirty commands behind `execute` | subscribers (save loop), MCP, WebMCP |
| Recovery envelope (`recovery-envelope.ts`) | journal and committed copy | write, inspect, recover, quarantine | project store |
| Sharing and e-mail (`sharing-repository.ts`, `email-delivery.ts`) | links, comments, notifications, outbox with leases | create, revoke, claim, deliver, mark | cron sweep |
| Collaboration stream (`collaboration-repository.ts`, `collaboration-client.ts`) | event rows, presence; cursor of a client | append, page, reset, reconnect | Studio |
| Integration runtime (`src/integrations/`) | records of attempts, rate windows, staged batches, webhooks seen | call with retry, stage, commit, receive | providers |
| Incident Register (`incidents.ts`, `incident-command-bus.ts`, `incident-store.ts`, `incident-sync.ts`, `worker/incident-repository.ts`, commands:sync of `worker/index.ts`) | the register (Incidents with revisions, receipts) in memory, in IndexedDB and in one D1 row; IndexedDB outbox | report, nine operations on an Incident, synchronize, discard conflicts | each other over HTTP |
| Deviations, occupancy, reviews | the same shape as the Incident Register | as there | as there |
| MCP session (`packages/mcp-server/src/project-session.ts`, `project-repository.ts`, `index.ts`) | in memory: record, planner and registers of the open Project; `projects.json`; queue of saves | initialize, open, execute, report and inspect Incidents, deviations, reviews | an agent's client over stdio, the planner |
| Accounts, rate limits, observability, migrations, simulations, planning computations, SDK, WebMCP, pages | see `PROJECT.json`, `components` | | |

What makes these parts correct, and hard to test, is the same everywhere: a
decision is taken on a value that was read before an `await`, and something
else may have happened since.  The list of these places, each with the
properties that watch over it, is `PROJECT.json`, `hazards`.  In short:

* **Project storage.**  `put` is a SELECT, a batch, a SELECT of a receipt and
  a read of the answer.  Correct means: one version replaces one version; both
  tables hold the same writer's data; a writer that is told "saved" was stored.
* **Studio persistence.**  Correct means: no save removes what another page
  stored, unless a user chose so; what is displayed as synchronized is; work
  that cannot be synchronized stays local; an edit is saved in the end or reported.
* **Runbook.**  Correct means: the ledger replays to the tasks; a command is
  applied at most once however often it is sent; a queued command is not lost
  across reloads; tasks start only when their dependencies are completed.
* **Incidents.**  Correct means: the register takes commands one at a time,
  each once and on the Incident its author saw; no queued command is lost; a
  page that says it is online shows what is stored.
* **Recovery envelope.**  Correct means: wherever the page ends, the last
  record stored whole is found again, and a page does not start over beside
  the remains of one.
* **Collaboration stream.**  Correct means: no event is skipped silently, no
  load takes the page back, the page learns of every announced record.
* **Sharing.**  Correct means: each transition of a link is in the ledger once
  and stored before its state, a revoked link is closed, pending transitions settle.
* **E-mail outbox.**  Correct means: a mail has one owner until its lease is
  over, delivered means taken by the provider, and what is taken is delivered.
* **Integration runtime.**  Correct means: one output for an input, one content
  for a webhook event, calls within the rate limit, executions that end.
* **MCP session.**  Correct means: what a tool call was answered as done is in
  the file, in the record of its Project, and stays there; a save touches one
  record; every call is answered.
* **Planner.**  Correct means: the ledger replays to the accepted Plan and
  Brief; undo and redo move along one history; no approval goes through a
  Lock; what is saved can be opened again.

## 2. Modules

| module | models |
|---|---|
| `ProjectRegister` | what storage promises of a Project: a register with a version, replaced by compare-and-swap |
| `ProjectRepository` | `put`, GET, deletion, recovery and purge, one step per awaited statement or batch |
| `RunbookTasks` | `transitionRunbookTask`, which browser and worker both run, as operators |
| `RunbookSync` | devices with outbox, cache and bus, and the worker's handler for synchronizations |
| `ProjectSync` | Studios (tabs of browsers), localStorage and the worker, for one Project |
| `VenuePlanner` | the commands of one planner on Proposal, branches, Locks, approval, undo and redo, and the ledger |
| `LocalCopy` | what the recovery envelope promises: one record that is replaced at once |
| `RecoveryEnvelope` | journal, committed copy and quarantine evidence, one step per storage call, with faults |
| `CollaborationStream` | events appended after a PUT, pages and cursors, the EventSource, and the page that applies events |
| `ShareLinks` | review links, the requests on them and the sweep, and their reconciliation with the ledger |
| `EmailOutbox` | drains of the mail outbox with leases, one step per statement and call |
| `IncidentRecord` | the commands of `incidents.ts`, which browser and worker both run, as operators |
| `IncidentLedger` | what the worker promises of an Incident Register: commands one at a time, each once |
| `IncidentSync` | the handlers of one page side by side, its IndexedDB, and the worker's row and requests |
| `AdapterRuntime` | executions of one adapter: rate limit, attempts and delays, stores of batches and events |
| `McpSession` | the session of an MCP server process, the tool calls it answers side by side, and its file |
| `Keep` | `Array.prototype.filter`, as the subsequence at given positions |
| `KeepTheorems` | what `Keep` returns, for every sequence: its elements, its length, what it leaves when the positions are the last ones |
| `ProjectRepositoryProofs` (with `CollaborationStream`), `ProjectSyncProofs` (with `RecoveryEnvelope`), `EventDayProofs` (`RunbookSync`, `IncidentSync`), `VenuePlannerProofs`, `ShareLinksProofs` (with `EmailOutbox`), `AdapterRuntimeProofs`, `McpSessionProofs` | the proofs |
| `MC...` | small instances; `RecoveryEnvelope` needs none |

`ProjectSync` uses the worker as `ProjectRepository` shows it to be: a PUT is a
compare-and-swap in one step (`Put`), the record it is answered with is read
later (`Answer`, when `LateAnswers`), and a stored write may be answered 412.
It uses the local copy as `RecoveryEnvelope` shows it to be: one record that is
replaced at once.  `CollaborationStream` and `ShareLinks` use the Project record
as a revision with compare-and-swap.

### ProjectRepository

`row` is the row of `projects`, `state` the snapshot of `project_states`,
named by the request that carried it.  A request goes through `ArriveCreate`
or `ArriveUpdate` (the handler up to `put`), `Select`, `Insert` or `Update`
(the batch), `Receipt`, `Get`, `Announce`; `Fail` at any step is a D1 error or
a worker that dies.  `Delete`, `Recover` and `Purge` are the lifecycle
operations: each is decided by the condition inside its UPDATE, so it is one
step.  `commits` is a history of versions; `gen` counts purges, which the code
does not keep and no guard reads.

### RunbookTasks and RunbookSync

A copy of a Runbook is status, revision, sequence and keys.  `Verdict` is the
order of checks of `transitionRunbookTask`; `After` is its result.  A device
enqueues a previewed command and executes it later (`Enqueue`, `Execute`: there
is an `await` between them); `Blocked` is a click whose preview throws after it
has taken a client sequence.  `Reload` drops what is in memory.
`SyncCreate`, `SyncSend` and `SyncReply` are `synchronizeRunbook`; `SyncFail`
drops it at any point while the worker goes on.  The worker handles one
request as a loop: `WorkerRead`, then for each command `WorkerRefuse`,
`WorkerReplay`, or `WorkerPrepare` and `WorkerCommit`.  `CommitAllowed` is what
the triggers and the unique indexes demand of the batch.

### ProjectSync

The snapshot is the set of edits it contains; the metadata fields are one
number that other pages change.  `Open` with `StartLoaded`, `StartMissing` (404)
or `StartFailed` is `start`; `DoEdit`, `TimerFires`, `SaveStart`, and `SaveDone`, `SaveMerge`,
`SaveConflict` or `SaveLost` are the save loop with `resolveWriteResponse`;
`RemoteEvent`, `EventLoaded`, `EventLoadMissing` and `EventLoadFailed` are
`applyRemoteEvent`;
`UseRemote` and `RecoverBranch` are the two answers a user can give to a
conflict.  `DeleteElsewhere` is a deletion by another session: a PUT is then
answered 412 without a current record, which is a conflict in which the local
record stands for the remote one.  `WriteRecovery` writes the entry of a conflict,
or nothing when `setItem` throws.  A page that is closed drops its answers, as a
browser does that leaves the document.  Requests and loads reach the worker when `Put` and
`Read` happen, so they are reordered freely.

### VenuePlanner

`execute` runs one command to its end, so a command is one step; what is hard
is the order of commands from the Studio, WebMCP and MCP.  A Plan is a version
and the place of every object; a Change places, moves or deletes one object.
`AfterChange` is `materializeSpatialPlan` with its two errors, `LocksAllow` is
`assertNoLockConflicts`, which looks at each Change against the accepted Plan
and throws for a Lock on a missing object (`LocksBelong`).  The Proposal shown
(`proposal`) and the active branch's copy are two variables, as in the
snapshot.  `past` and `future` are `undoStack` and `redoStack`, which live in
the planner and are dropped by `Reopen` (`restore_snapshot`); `edits` is
`editHistory`, which is in the snapshot.  `RedoPlanThrows` is the one command
that throws after it has changed something.  `Conflict`, `Rebase` and
`ResolveConflict` are the deleted dependency, same-object and Lock conflicts
of `detectProposalConflicts`.  Ledger entries are kept when they carry an
accepted Plan or Brief; all others are left out.

### LocalCopy and RecoveryEnvelope

An item of localStorage is missing, broken or a whole envelope with a sequence
number; the checksum is taken to tell an envelope from any other bytes.
`BeginLoad`, `Inspect`, `Promote`, `Promoted`, `Quarantine`, `Condemned`,
`Emptied` and `ServeRead` or `SaveRead` are `readLocal` and `quarantineLocal`;
`Prior`, `WriteJournal`, `Commit`, `Verify`, `Clean` and `Clear` are
`writeLocal`; `Forget`, `Forgot` and `Forgotten` are `purgeLocalProject`.  The
code never gives up the thread, so between two storage calls only a fault can
come: `Crash`, `Tear` (the page ends in `setItem` and leaves the item broken),
`Throw` (no quota), and `Damage` while the page is at rest.

### CollaborationStream

One Project and one page.  `CommitPut` stores a PUT of another session,
`AppendEvent` appends its events one by one, `AppendFails` is a worker that
ends between them.  `Connect`, `SelectPage` (the events after the position),
`SelectCursor` (MAX(id), read apart, and the decision whether something was
missed), `StreamEnds`, `Refuse` and `Cut` are GET collaboration with the
EventSource; `Deliver` hands the page one chunk.  `Apply` is `applyRemoteEvent`
up to its load: old, put off because a save is in flight (`Again` after 350 ms),
passed over for unsaved work, or loaded for (`LoadRead`, `LoadDone`,
`LoadFails`).  `SaveCommits`, `SaveDone` and `SaveFails` are the page's own saves, and `SaveLost`
one whose request or answer is lost while the worker goes on.  `applyRemoteEvent`
leaves out events whose `sessionId` is `studioSessionId` (`App.tsx:1652`).  The
worker writes the id of the account's session there (`session-...`,
`account-repository.ts`), the Studio compares with an id it makes for itself
(`studio-session-...`), so that the two never agree; in the model, as in the code,
a page handles the events of its own saves, and learns by them of one whose answer
was lost.

### ShareLinks

`link` is `lifecycle_state`, `ledger` the share-link entries of the Project's
record.  Requests create, revoke, list or resolve a link and the sweep lists;
all of them reconcile: `ReadPending` reads copies of the pending rows, and for
each `Load` reads the record, `Put` stores it with the entry (or loads again),
`Mark` marks the row if it is still as it was read.  `Execute` is the planner's
command under the link's idempotency key: a receipt in the snapshot stands for
an entry.  `Fail` is a step of one link that throws, `Die` a worker that ends.
`Write` is a write of the Project that keeps the ledger, which every merge does,
or a deletion or recovery.  `Overwrite` is the save of the finding below: a Studio
stores a snapshot it has held since before over the merged record, and entries and
receipts go with it.  `held` has the ledgers that were ever stored, which are those
a Studio may have, and `overwritten` notes that it happened.

### EmailOutbox

`BeginDrain` reads the clock and makes a token; `Release` takes back leases that
were over then; `Select` and `Claim` (one UPDATE for each selected mail, which
looks at the row again) are `claimEmailBatch`; `Send`, `SendFails`,
`MarkDelivered`, `MarkFailed` and `MarkThrows` the loop of
`drainNotificationEmail`; `GiveUp` an end anywhere.  Time is the set `over` of
tokens whose sixty seconds have passed (`Expire`).

### AdapterRuntime

Code between two awaits is one step.  `Start` and `Lookup` begin an execution;
`Acquire` and `Admit` are `acquireRateLimit` before and after its sleep, with
the list of times it read before it; `Answered`, `Refused` and `Throws` are the
handler's answer; `Caught` is the catch block with its delay; `Store`,
`StoreFails`, `Accept`, `AcceptFails`, `Bury` and `SinkFails` are the stores and
the dead letter sink, which may have taken what they threw over.  `Tick` is the clock; a sleep ends at its time or later.

### IncidentRecord, IncidentLedger and IncidentSync

A register is a revision, the keys that have a receipt, and the Incidents.
`RegisterVerdict` is the order of checks of `reportIncident` and
`mutateIncident`, `Accepts` and `Mutated` what each operation asks for and
assigns, `RegisterAfter` the register it returns.  `IncidentLedger` executes one command at a time, by an
author who sees the Incident as it is.

In `IncidentSync` a call is one handler of the page, and what it does between
two awaits is a step: `ClickAction` or `ClickFirst`, `Ensure`, `EnsureLocal` and
`ExecuteFirst`, `EnqueueEntry`, `Applied` are `handleIncidentCreate` and
`handleIncidentAction`; `SaveRead` and `SavePut` the two transactions of
`saveState`; `BeginSync`, `Create`, `List`, `Get`, `Relist`, `Mark`, `Send`,
`Reply`, `Entries`, `Acknowledge` and `Finish` are `handleIncidentSync` with
`synchronizeIncidents` and the store; `BeginDiscard`, `Discard`, `DiscardGet`
and `Discarded` are `handleIncidentDiscardConflicts`.  The worker reads the row
once (`WorkerReadRow`) and answers each command with `WorkerApply`,
`WorkerRepeat` or `WorkerReject`, on the register it read or wrote last.  `Elsewhere` is a
command of another session, `Fail` and `Lose` are requests and answers that get
lost, `Close` and `Open` a page that is left and opened again while a request
may still be under way.

### McpSession

What a tool call does between two awaits is a step; `call` says where each call
and the initialization (`Boot`) are, and what they hold across an await.
`Begin`, `LoadDefault`, `Initialized` are `initialize`, whose promise is kept
when it is rejected; `LoadProject`, `Hydrate`, `SaveOpened`, `Opened` are
`openProject`; `Execute`, `Persist`, `Persisted` are `execute` with
`persistIfChanged`; `Bus`, `Created`, `Incident`, `Reported` are
`reportIncident` and `inspectIncidents` with their own command bus.  `Save`
queues a save; `ReadFile` and `WriteFile` are its two accesses to the file, when
its turn has come, and `SaveFails` and `LoadFails` an access that throws.
`Restart` is the end of the process at any point and its next start.  A snapshot
is the set of commands in it, a register the set of reports; a command may meet
a Lock, which leaves its receipt in the planner and throws.  `answered` is a
history of what clients were told; `crossed` notes that calls were under way side by
side that are not all commands, and `Mend` ends this: an open that began with
nothing else under way puts every part of the session back to the file, and so
does a new process.  No action is guarded by either.

## 3. Runs

Twelve runs (`PROJECT.json`, `runs`), of which `sync_lost` ends with a violation
(see Findings) and all others pass:

| run | properties | bounds, and why they are enough |
|---|---|---|
| `repository` | `NoLostUpdate` `StateIsWinners` `SavedIsAnnounced` `ImplementsRegister` | three requests: one whose batch is between another's SELECT, batch and receipt, and a third that creates or confirms; three lifecycle operations: delete, purge, and one more, or delete, recover, delete |
| `runbook` | `LedgerReplays` `AppliedIsDurable` `NothingLost` | two tasks, one depending on the other, and two devices: either one has two commands, two synchronizations and a reload, so that the second sends again what the first one's lost answer acknowledged, or both have a command, a synchronization and one a refused click, so that requests race for the sequence, a task and a client sequence |
| `sync` | `BaseWasStored` `LocalWorkIsKept` `SyncedWasStored` `EditSettles` | two browsers with one tab each, two edits, late answers, and any two of: a collaboration event, a metadata change elsewhere (so that a save is merged and sent again) or the deletion of the Project, a lost request or a recovery entry that is not written, a conflict choice, a page opened again |
| `sync_lost` | `StoredEditsStay` (violated) | two browsers with one tab each that is opened once, five edits, nothing else: three saves in a row of the first page, one of the second |
| `planner` | `TypeOK` `LedgerReplays` `HistoryAscends` `ActiveIsCurrent` `LocksHold` | one branch, two versions beyond the first, four entries of accepted truth, two Changes a Proposal, one Lock of any kind or a new Brief: approve, undo, approve something else; or two branches around one approval and its undo, with a moved, placed or deleted object, then rebased, resolved, duplicated, archived or shown |
| `recovery` | `Durable` `NoReplacement` `ImplementsCopy` | four writes and three torn items between two whole ones: a torn commit, a torn promotion of its journal, and one more |
| `collaboration` | `NoSilentGap` `ResetMeansGap` `NoLoadGoesBack` `CatchesUp` | two PUTs of other sessions and a save of the page, an event each, pages of one event (so that a page is full), ids that jump, a purge, a fault, which may be the lost answer of the save |
| `sharing` | `LedgeredOnce` `StateIsLedgered` `RevokedIsClosed` `Settles` | one link, two requests of any kind and the sweep, a write of the Project by others, a fault, or an older snapshot stored over the record and no fault: three reconciliations of one transition, each on a row read before |
| `email` | `LeaseHolds` `Drains` | three mails, batches of two, two drains, two faults; the oldest mail is never accepted, which is fewer than a batch |
| `adapters` | `OneOutput` `EventsAgree` `RateHeldAlone` `Ends` | three executions, one request per window, two attempts, and a failing call, store or sink: the third execution finds what two others left; or two executions and two failures: attempts that run out, and a dead letter the sink refuses |
| `incidents` | `NoEntryLost` `OnlineWasStored` `ImplementsLedger` | two handlers side by side, a report and an acknowledgement of one Incident, another session's report, and a synchronization the user asks for, or a page that is left and opened again and a request that fails; so that two requests carry one command, a compare-and-swap is lost, and an answer comes late |
| `mcp_session` | `AnsweredIsDurable` `SessionAgrees` `Ends` | any two calls side by side, four calls in all, two Projects (one of them not there at first), three commands (one meets a Lock), two reports, a failing access to the file, a restart: a save that is overtaken by, or failed before, another one's; two calls that cross, an open that mends the session, and a call after it |

Most runs have a constraint.  `AloneOrTogether` and `LongOrWide` join
two families of behaviours in one run, which are listed in their rows (and
`LongOrWide` begins with one of the two Briefs, which are alike).
`InTurn` and `InOrder` use that executions, edits, PUTs or requests are alike and
begin them in one order; `FirstAlone` uses that the calls of a client are.
`TwoTroubles` lets two of the troubles of `sync` happen together, to the
first of two pages that are alike; that of `adapters`, and `OneTrouble` of
`incidents` and `sharing`, leave what their rows name; in `mcp_session`, calls that have crossed go on
without failing accesses, and the fourth call comes when the session is mended.
What a constraint excludes is fewer behaviours of the same specification.

`SyncedWasStored`, `LocalWorkIsKept` and `EditSettles` speak of pages that have
reacted to no collaboration event, `LocalWorkIsKept` also of tabs alone in their
browser, and `RateHeldAlone` of executions that do not cross in the rate limit.
`BaseWasStored` and `SyncedWasStored` speak of a Project until it is deleted.
`StateIsLedgered` says that entries stay, and `LedgeredOnce` their order, until an
older snapshot was stored over the record.  `AnsweredIsDurable` and
`SessionAgrees` speak of the time before calls crossed, and of the time after the
session was mended; calls that cross are in the run and in the proofs, and what
they leave behind is what mending has to put right.
These are the conditions under which the documented promises hold.
`CatchesUp` excepts an answer that takes the page back, a purge, and a stream
that was refused.  What
happens outside of these conditions is below.

`ExactlyOnce`, `DeliveredWasTaken`, `TypeOK` of `ShareLinks` and
`EachSaveOneRecord` are in no run; they are proved (section 4).

Each property is also checked against a deliberately wrong form of the code
(`PROJECT.json`, `mutants`; the operators marked "Mutant" in the modules).  The
module text uses none of them.

### Findings

**A save that was merged is undone by the next one** (`sync_lost`,
`App.tsx:1564`).  Saves are chained (`saveQueue.then`), and each takes the
planner's snapshot when it starts.  Page 1 has a save in flight while its timer
fires twice more.  The first save stores all edits; page 2 opens, edits and
stores version 4.  The second save of page 1 changes nothing since the base, is
refused with 412, and `reconcileProjectRecords` takes the remote snapshot: the
merged record is stored and answered.  `save` then takes the merged record's
revision, shows MERGED and drops its snapshot.  The third save sends the
planner's old snapshot over the merged revision; the compare-and-swap succeeds,
and the edit of page 2 is gone without a conflict, while
`docs/reliability-and-recovery.md:16` says "no retry silently overwrites remote
state".

### Other things seen

No run is kept for these; each was seen in a trace or while reading the lines.

* **Project storage.**  A write that was stored may be answered 412 "Project
  revision is stale" when a later writer comes between its batch and its
  receipt (`project-repository.ts:196`).  A writer that saw a purged Project can
  update the Project created anew under its id when the revisions coincide
  (`project-repository.ts:160`).
* **Runbook.**  A task may be started after its dependency was reopened by a
  request that committed between read and batch (`worker/index.ts:1552`;
  `docs/event-day-runbooks.md:22` promises the check).  Transitions of unrelated
  tasks compete for the Runbook's next sequence, and the loser is answered
  "conflict" (`runbook-repository.ts:681`).  A command whose receipt lands
  between check and batch is answered "conflict" although it is a repetition.
  An outbox of more than 100 entries is refused as a whole
  (`worker/index.ts:1530`); entries that conflicted are sent with every later
  synchronization and never removed (`runbook-sync.ts:23`).
* **Studio.**  A second tab of the same browser overwrites a stored edit,
  because `save` takes the expected revision from localStorage
  (`project-store.ts:517`).  An event applied while a page opens leaves the skip
  flag set, and the next edit is not saved while the page says SAVED
  (`App.tsx:1680`).  A PUT whose answer carries a later writer's record makes the
  page base itself on a snapshot it does not display
  (`project-repository.ts:199`).  A load begun by an event that ends while a save
  is in flight changes base and local copy under it.  A merged save that is lost
  leaves the remote revision in the local copy beside the page's old metadata,
  and the next save takes the other page's change back.  A page that is opened
  again loads the remote record over a local copy that was never synchronized
  (`App.tsx:1598`).
  Work that a page keeps out of an event's way is protected by its status
  alone: STALE is not one of the statuses that protect it, so a second event
  replaces it (`App.tsx:1672`), although `docs/realtime-collaboration.md:23` says
  that remote truth is not silently applied over local work.
  A page that is opened on a Project another session deleted shows its local copy,
  which may never have been stored, as SAVED (`project-store.ts:467`, `App.tsx:1598`),
  while `docs/persistence-and-recovery.md:31` says "local-only work is never
  presented as synchronized"; so does a page whose user takes the remote side of a
  conflict over a deleted Project, which is the local record again
  (`project-store.ts:379`).  Edits made while a conflict is displayed are dropped by
  either choice (`App.tsx:1713`), and where no recovery entry could be written, the
  choice of the remote side drops the local one for good.
* **Planner.**  The redo of an approved placement throws, and the redo is lost
  (`venue-planner.ts:2526`).  An approval undone under a Lock leaves a snapshot
  that cannot be restored (`venue-planner.ts:2469`).  An approval after an undo
  reuses the version number of the undone Plan, so a Proposal based on that one
  passes for current (`venue-planner.ts:2392`).  `preview_revision` and
  `request_adjustment` bring a stale Proposal to the current version without
  looking for conflicts.  Undo also takes back a Brief updated since the
  approval.  Resolving one conflict brings the whole Proposal to the current
  version, so its other same-object conflicts are no longer detected.  Receipts
  are kept for successes and Lock conflicts and not for other errors
  (`venue-planner.ts:2764`).
* **Recovery envelope.**  `docs/reliability-and-recovery.md:7` says that the
  journal is verified before the committed item is replaced; the code verifies
  the committed item only, and two torn items in a row can lose the copy.
* **Collaboration.**  One answer other than 200 closes the EventSource for
  good, while presence goes on and shows the page as live
  (`collaboration-client.ts:102`).  The answer of a save that was overtaken takes
  the page's known revision back (`App.tsx:1564`).  An event whose load failed is
  not tried again (`App.tsx:1676`).  The check by which a page would leave out its
  own events compares two kinds of ids and never does (`App.tsx:1652`).
* **Sharing and e-mail.**  The revocation of a link whose creation is pending
  is answered "pending-revoke" although the link becomes active later
  (`sharing-repository.ts:313`, `worker/index.ts:2485`).  The save of the finding
  above can take the entry and the receipt of a link out of the record
  (`App.tsx:1564`): the link stays active without an entry, or, when it was still to
  be marked, gets its entry again, a creation even behind its revocation.  Twenty-five mails that
  are refused for good keep all later ones from being sent
  (`sharing-repository.ts:476`).
* **Incidents.**  After a lost compare-and-swap the handler goes on with the
  register it read, and every later command of the request is answered
  "conflict", applicable or not (`worker/index.ts:1905`).  Two synchronizations
  of one command at once answer one of them "conflict", although it is an exact
  retry.  A user who clicks while a synchronization is under way gets a conflict
  as well: its answer, which lacks the queued command, goes into the bus
  (`App.tsx:2787`), and the next command is given the older Incident revision.
  `saveState` keeps a stored register of a higher revision
  (`incident-store.ts:443`), so that after a conflict and its discard IndexedDB
  holds commands the worker refused, while `docs/event-day-incidents.md:26` says
  "The browser stores the authoritative register projection"; two saves side by
  side can put an older one back.  A discarded command may still be applied by a
  request that is under way.
* **MCP session.**  Of two Incidents reported side by side and both answered,
  one is removed from the file by the save of the other
  (`project-session.ts:419`), although `packages/mcp-server/README.md:3` promises
  durable Project sessions.  A command whose save failed and which is sent
  again under its idempotency key is answered with its receipt and not saved
  (`project-session.ts:513`), although `index.ts:38` presents the key as the
  control of such repetitions.  An `openProject` that reads the file beside queued saves
  hydrates the session from what it read and saves it, over what they stored
  (`project-session.ts:534`).  An initialization that failed is never tried
  again while the process runs (`project-session.ts:492`).  Two server processes
  with one data directory have a queue each and overwrite one another's saves
  (`project-repository.ts:197`).
* **Integrations.**  `acquireRateLimit` reads the times of the window, sleeps
  once and lets its execution through without asking again (`runtime.ts:552`):
  executions that wait together are let through together, and the list read
  before the sleep replaces the current one; the sentence of
  `docs/adapter-authoring.md:13` is broken by three executions.  An import whose batch was stored by a call that threw may
  end as a dead letter (`runtime.ts:644`).

### Fairness

Weak fairness of what the programs do by themselves, and of nothing else:

* `sync` (`EditSettles`): a timer fires (`setTimeout`), a chained
  promise runs, a request in flight is handled, an answer that has arrived is
  processed.  Lost requests are bounded, and a lost one is reported as LOCAL,
  which is one of the ways an edit settles.
* `collaboration` (`CatchesUp`): a PUT the worker has begun goes on, the
  EventSource asks again when an answer ends, chunks that arrived are handed
  out, timers fire, loads and saves are answered.  A stream is a poll: each
  answer ends, so no connection has to stay up.
* `sharing` (`Settles`): the cron trigger of the sweep comes round
  (`wrangler` runs `scheduled`), and a request that began goes on.
* `email` (`Drains`): the same trigger begins drains, a drain that works goes
  on, and sixty seconds pass.
* `adapters` (`Ends`): the clock goes on, timers fire and microtasks run, and
  the provider answers or fails.
* `mcp_session` (`Ends`): promises settle in turn, and the file system answers
  or fails.

Nothing is assumed of users, of other pages, or of failures, which are bounded.

## 4. Proofs

For every value of the constants, assuming only the named assumptions of the
modules:

| theorem | states | assumes |
|---|---|---|
| `ProjectRepositoryProofs!TypeCorrect` | `Spec => []TypeOK` | `RepositoryConstants` |
| `LostUpdateFree` | `Spec => []NoLostUpdate` | |
| `TablesAgree` | `Spec => []StateIsWinners` | |
| `AnswersAnnounced` | `Spec => []SavedIsAnnounced` | |
| `Refinement` | `Spec => ImplementsRegister` | |
| `StreamTypeCorrect` | `StreamSpec => []StreamTypeOK` | `StreamConstants` |
| `GapsAreTold` | `StreamSpec => []NoSilentGap` | |
| `ResetsMeanGaps` | `StreamSpec => []ResetMeansGap` | |
| `LoadsGoForward` | `StreamSpec => NoLoadGoesBack` | |
| `ProjectSyncProofs!SyncTypeCorrect` | `Spec => []TypeOK` | `SyncConstants` |
| `BaseIsRemote` | `Spec => []BaseWasStored` | |
| `LocalWorkKept` | `Spec => []LocalWorkIsKept` | |
| `SavedIsStored` | `Spec => []SyncedWasStored` | |
| `EnvelopeTypeCorrect` | `EnvelopeSpec => []EnvelopeTypeOK` | `BoundsAssumption` |
| `EnvelopeDurable` | `EnvelopeSpec => []Durable` | |
| `EnvelopeNotReplaced` | `EnvelopeSpec => NoReplacement` | |
| `EnvelopeImplementsCopy` | `EnvelopeSpec => ImplementsCopy` | |
| `EventDayProofs!TypeCorrect` | `Spec => []TypeOK` | `DepsAssumption`, `SyncBounds` |
| `Replay` | `Spec => []LedgerReplays` | |
| `OnceOnly` | `Spec => []ExactlyOnce` | |
| `NothingIsLost` | `Spec => []NothingLost` | |
| `AppliedStays` | `Spec => []AppliedIsDurable` | |
| `IncTypeCorrect` | `IncidentSpec => []IncTypes` | `IncidentConstants`, `SyncConstants` of `IncidentSync` |
| `Lossless` | `IncidentSpec => []NoEntryLost` | |
| `OnlineShowsStored` | `IncidentSpec => []OnlineWasStored` | |
| `Refinement` | `IncidentSpec => ImplementsLedger` | |
| `Resolution` | `IncidentSpec => []ResolvedIsAccounted` | |
| `VenuePlannerProofs!PlannerTypeCorrect` | `Spec => []TypeOK` | `PlannerConstants` |
| `ShownIsActive` | `Spec => []ActiveIsCurrent` | |
| `LedgerReplaysAlways` | `Spec => []LedgerReplays` | |
| `HistoryAscendsAlways` | `Spec => []HistoryAscends` | |
| `LocksHoldAlways` | `Spec => LocksHold` | |
| `ShareLinksProofs!SharingTypeCorrect` | `Spec => []TypeOK` | `ShareConstants` |
| `Once` | `Spec => []LedgeredOnce` | |
| `Follows` | `Spec => []StateIsLedgered` | |
| `Closes` | `Spec => []RevokedIsClosed` | |
| `OutboxTypeCorrect` | `OutboxSpec => []OutboxTypeOK` | `OutboxConstants` |
| `LeasesExclude` | `OutboxSpec => []LeaseHolds` | |
| `DeliveredTaken` | `OutboxSpec => []DeliveredWasTaken` | |
| `AdapterRuntimeProofs!Outputs` | `Spec => []OneOutput` | `AdapterConstants` |
| `Webhooks` | `Spec => []EventsAgree` | |
| `RateHeld` | `Spec => []RateHeldAlone` | |
| `McpSessionProofs!SessionTypeCorrect` | `Spec => [](Types /\ Modes)` | `SessionConstants` |
| `SavesInTurn` | `Spec => []OneWriter` | |
| `RecordsApart` | `Spec => EachSaveOneRecord` | |
| `AnsweredStays` | `Spec => []AnsweredIsDurable` | |
| `SessionInOnePiece` | `Spec => []SessionAgrees` | |

A module of proofs may be about two components, which share nothing but the
file: it extends both, whose names are distinct, and each theorem says by its
specification (`Spec`, `StreamSpec`, `EnvelopeSpec`, `IncidentSpec`, `OutboxSpec`)
which one it is about.  An empty field assumes what the field above it does.

None of the properties is inductive by itself.

**ProjectRepository.**  The invariant `IInv` adds:

* `Lineage`: no version is ahead of the row.  Without it a new version might
  collide with one that exists.
* `TokenIsCommitted`: the token in the row belongs to a request that was
  stored.  Without it `Receipt` could say "saved" to one that was not.
* `Phases`: a request is stored by its batch and by nothing else.  This is why
  the guarded second UPDATE leaves the snapshot alone when the first one found
  another revision: the loser's token cannot be in the row.

`Inductive` proves that every action keeps `IInv`, one step per action;
`HandlerStep`, `NewVersion`, `Stored` and `Retagged` are what the actions have in
common.  `SavedIsAnnounced` needs `Announced`: the record a stored request has
read for its answer is no older than its own version, so that the event it
appends covers it; the event itself may be another request's, and an answer that
is never given needs none.  `RegisterStep` maps each step to a step of the register or to a
stutter: the batch is `Swap`, `Announce` is `Acknowledge`, deletion and
recovery are `Retag`, a purge is `Drop`.

**CollaborationStream.**  `NoSilentGap` is the end of a chain: an event of the log
whose id is not above one that was read, in the batch (`BatchTells`) or on the
wire (`WireTells`), has been told or was read before it, where a reset tells all
up to its id.  This needs that ids ascend along the log (`Ascending`) and that
nothing read is ahead of the counter they are taken from (`Passed`): an event that
is appended later comes behind all that was read.  A purge empties the log, and a
cut only forgets chunks that have not moved the position.  `ResetMeansGap` needs
`ResetInv`: a row has the id before it (`Chained`), and before the first purge
all that was read is in the log, and a page begins after the position (`Read`).
That the page read is the part of the log right after the position, with no row
between, is `PageFollows`.  `NoLoadGoesBack` is proved action by action from the
types.

**ProjectSync.**  The invariant `Inv` speaks of each tab apart (`TabInv`).  A step
changes one tab and leaves the others as they are (`Same`), and what it adds to
`stored` and to the recovery entries stays (`Grown`), which is why the theorems hold for any
number of tabs that share any browsers.  `BaseWasStored` needs `SourcesOf`: a
record in an answer, a load or a displayed conflict came from the worker, or the
Project is deleted.  `LocalWorkIsKept` is in `KeptOf`: the local copy of a tab alone
in its browser is what is being saved, through both attempts of a merge, so that a
lost answer leaves it there.  That the merged record has what the save began with,
or the worker does (`AttemptOf`), rests on the base having been stored when the
second attempt began (`BasedOf`), which a deletion does not undo.
`SyncedWasStored` needs that the edits a save began with are stored when it says so
(`AttemptOf`), that what the page shows meanwhile is no more than that, or is about
to be saved (`SavingOf`), that a page with a conflict saves nothing (`ResolvingOf`),
and that what an open page shows is stored, about to be saved, or said to be local
(`SettlingOf`).  The last ones are about pages that have reacted to no event, as
the property is: an event ends them.

**RecoveryEnvelope.**  `EnvelopeInv` says what the two items hold at every program
counter (`Operation`), that a journal is never older than the committed
envelope beside it (`Pair`), and that no record is numbered ahead of the writes
(`Numbered`).  `Durable` needs more: with nothing torn since, the record that
was stored last is in the committed envelope itself (`Stored`), so that tearing
either item leaves the other.  `NoReplacement` needs `Traced`: a copy that was
had and not purged has left an item or the evidence.  For `ImplementsCopy` each
step is mapped to a replacement, a settlement, a loss or a stutter.

**EmailOutbox.**  A lease excludes because no two drains have one token
(`TokensApart`), what is taken back was over (`DueIsOver`), and a row with a
lease is there (`Rows`).  `ClaimedOnce` is needed for the drain itself: a mark
ends the lease of the mail at hand, and of no mail the drain still has to send.
`OthersKeep` says what one drain may do without the others noticing; the lemmas
on single actions reduce to it.

**IncidentSync.**  What the worker stores is right because of `HandlerSees`: a
request's register is the row, unless the row has a higher revision, and its
receipts are always among those of the row.  So a compare-and-swap that
succeeds was decided on the row itself (`Executes`), and a repetition was
applied.  `NoEntryLost` needs `AnswersHold` (an answer that removes an entry
names a command that is in the row) and `AllPutEntries` (what a handler puts
back is an entry it read, never an empty one).  `PageStepKeeps`,
`RowMoves` and `HandlerMoves` say what a step of the page, of the row and of a
request may do without the others noticing; the lemmas on actions reduce to
them.  `LedgerStep` maps `WorkerApply` and `Elsewhere` to `Execute`, and all
other steps to stutters.  `Resolution` is proved on the ledger: no operation
takes away the acknowledgement or the owner.  `OnlineWasStored` has an invariant
of its own, `OnlineInv`: what a handler holds of the worker's answers was stored
(`ReadsStored`), and when the page says online, or a handler is about to say so
(`Claims`), then the bus has a stored register, or a handler is about to give it
one, or an entry is pending that no handler under way would discard or put back
with another answer (`Covered`).  Any of these but the first keeps the page from
being settled.  `KeysOnce` is what makes the entry's key one handler's own.

**RunbookSync.**  Receipts and ledger are written by one batch, so that every
receipt has its entry (`KeysLogged`); with it `ExactlyOnce` follows from the
UNIQUE key, whatever a device sends again.  `AppliedIsDurable` needs
`AnsweredStored`: an answer that says "applied" or "already applied" names a
receipt.  `NothingLost` needs both, because a synchronization takes an entry out
of the outbox on the strength of such an answer, which comes from a request of
the device's own (`WaitsForOwn`).  `LedgerReplays` needs
`CommitDecided` (a batch is about a transition that was allowed on what the
request read) and `LastsExist`: "the last entry of this task" is a maximum over
positions of the ledger, and that it exists is carried along, one append at a
time (`BeforeNew`).
`Types` and `Shape` say what a request and a device have in each state.

**ShareLinks.**  A put that succeeds was decided on the ledger as it is, because
the copy a reconciliation works on is the record unless the record has moved on
(`CopyAgrees`); so the receipt check keeps an entry single, and an older snapshot that is stored
over the record was stored itself before (`HeldOnce`).  That a creation
never comes after a revocation is not seen by the put: it follows from
`StateIsLedgered`, by which the creation of every link that is
closing was stored, and is in the ledger unless it was overwritten, and from
`ItemsTrue`: what was read as a revocation still is one, however old the row.  A
link is marked after a record with its entry was stored (`MarkLedgered`).  `ClosedStays` is what `RevokedIsClosed` needs of a request
between its steps.  `Moves` says what a step may do to the tables and `PMove`
what it may do to a process; each action is reduced to the two, and the invariant
is proved to survive them.  That a ledger which has as many entries as links has
each link once at the beginning (`InitOnce`) rests on the library's theorem on
surjections between finite sets.

**VenuePlanner.**  `LedgerReplays` rests on `Carried`: the entry of the ledger
that carries the accepted Plan has only briefs after it, and the last entry
carries the accepted brief; each command either accepts (`Accepts`), records a
brief (`Briefs`) or leaves the three alone, which `LedgerReplays` needs to know
of it and no more.  `HistoryAscends` rests on `Ordered`: the undo stack ascends to
the accepted Plan and the redo stack descends to it.  `LocksHold`
is `Guarded` for every step: a Change that takes an object from its place is
refused by the check on the Change itself, and a Proposal that is approved has no
Change that was not checked.  What a list of
Changes does to an object is an induction over the list (`MaterializedLocked`,
see below).

**AdapterRuntime.**  `OneOutput` and `EventsAgree` are inductive with `Placed`,
which says what an execution has in hand at each of its steps, and that a step
never replaces what is in the stores (`Kept`).  The rate limit, the clock and
the delays play no part, so the two hold for every policy.  `RateHeldAlone` is
about nothing else: calls are noted in the order of time (`InOrder`), a window
lies between a call and the one that comes `Requests` calls later (`Spaced`),
and the recent times are the last calls, what was dropped being out of the window
(`Noted`).  An execution that sleeps holds such a list, full, and wakes a window
after its first time (`Sleeper`), as long as no other execution came in between,
which is the condition of the property.  That dropping old times from a list in
order leaves its end is a theorem of `KeepTheorems`.

**McpSession.**  A save writes back every record of the file from what it read
before an await; that it changes one needs `OneWriter`: a caller that is between
read and write is the head of the queue, and what it read is still the file.
`Shapes` says that a call is where its request takes it, that the initialization
is nowhere else than it can be, and that calls work on a session that has a
record and a planner; types rest on it, since a failed initialization leaves
none.  `CallStep` is what a call may do without disturbing the writer; all steps
of calls reduce to it, and `WriterLeaves` is the end of a save, well or not.

`AnsweredIsDurable` and `SessionAgrees` rest on `Sound`, which is about any calls.
Until calls cross (`Durable`), a session is about one Project that is
stored (`OneProject`); its record is the stored one but between a write and the
end of its call (`Stored`); and the commands that saves carry ascend along the
queue, from those in the file (`Ascends`), so that no save takes a command
back.  `Holds` says what a call has in hand wherever it is.  A restart, a failed
access and an initialization of any kind are among the steps.

When calls have crossed, none of this is left, and two of the session's parts may be
of two Projects.  What still holds is `Base`: every record of the file is of its own
Project, and callers in the queue are those that wait to save.  From there an open
that begins with nothing else under way restores all of `Durable`: `Heals` says
what it has in hand while it is the only call (`Mending`), from the record it read
to its own save, and `HydrateMends` is the step at which `Durable` holds again.

**Recursive definitions.**  The library's theorems on induction take an operator
as a parameter, which no prover at hand can instantiate.  `KeepTheorems` states
induction over a set of naturals instead (`Induction`), and proves it from the
least element of what is left (`LeastElement`, from `NatLessThanWellFounded` and
`WFMin`).  That is enough for recursive functions over the positions of a
sequence: what `Keep` returns, which `CollaborationStream`,
`VenuePlanner` and `AdapterRuntime` filter with, and what a list of Changes does to the objects
(`ChangedExists`, `ChangedParts`).  The functions a definition describes by
CHOOSE have to be shown to exist first, which is what these lemmas do.

Model-checked only: the liveness properties (`EditSettles`, `CatchesUp`,
`Settles`, `Drains`, `Ends`), which are out of the prover's reach, and the finding
of `sync_lost`.

## 5. Not modelled, and simplifications

* Payloads: a snapshot is a name or a set of edits; evidence, reasons,
  fingerprints and hashes are left out, with what the code does about them
  (a key with another fingerprint) where no client of the repository can send
  it.
* Authorization, roles and notifications.
* Clocks: recovery windows are always open (both `Recover` and `Purge` are
  possible after a deletion).
* A save whose page was left inside the single-page application goes on and
  still writes localStorage; here a closed page drops it.
* `ProjectSync`: one Project that exists at first; it may be deleted once, by a
  browser that has no tab here, and is not recovered.  The purge of the local copies
  by a dashboard of the same browser (`purgeLocalProject`) is modelled in
  `RecoveryEnvelope` only.  Of the storage calls only the one of `writeRecovery` may
  throw; the others are in `RecoveryEnvelope` as well.
* `RunbookSync`: the five SELECTs of `getRunbook`
  (`worker/runbook-repository.ts:331`) are one step, and so are the transactions by
  which a reply goes into outbox and copy (`runbook-store.ts:460`).
* `RecoveryEnvelope`: two tabs that write one copy; the checksum detects any
  other bytes.
* `CollaborationStream`: presence, which no decision reads; what a load does to
  the page's work is in `ProjectSync`; a save that conflicts.
* `ShareLinks`: what the Studio holds is a ledger that was stored; scopes, tokens, roles and dates of expiry; the event announced
  after a put is part of the mark, which its failure prevents.
* `EmailOutbox`: addresses, codes and counts of attempts.
* `AdapterRuntime`: scopes, secrets, staging and the validation of outputs are
  a refusal that the handler's answer may meet; pagination and signatures are
  left out.
* `VenuePlanner`: objects that overlap and constraints that fail are a command
  that throws (Validation may refuse anything), and conflicts of these two
  kinds are not resolved; Locks of venue templates, emergency reviews, waivers,
  planning effects on the Brief, retained revisions, branch metadata, comments,
  scenarios and command receipts are left out.  Which Changes a branch strategy
  keeps is any selection, because numbers and positions part after a revert.
* `IncidentSync`: one page has the register open, so that no two take the same
  client sequence; what React displays is the bus's register; IndexedDB does not
  fail; the owner given with a report is a command of its own; roles and what an
  agent may do, a register under quarantine, and exports are left out.  The
  proofs cover all operations and any number of Incidents; the run has a report
  and an acknowledgement.
* `McpSession`: one process; cancellation, scenario runs (which end after they
  have awaited), reads, denials that are recorded, deleted and archived
  Projects, organizations, and a file in another format.  Deviations and reviews
  take the path of the Incidents.  The grant a stdio host makes by default is
  for the default Project; another one can be given to the server, and both
  Projects can be opened here.
* The other components are listed in `PROJECT.json` with the reason.

## 6. Plan

Done: the modules of section 2, with the proofs of section 4.  What a further
development would add, in this order:

1. Deviations, occupancy and reviews on the pattern of `IncidentSync`; two
   pages that share one IndexedDB.
2. `CommandBus`: receipts and idempotency keys, the transaction around agent
   commands, interruptible scenario runs; an abstract specification in which a
   key names one effect.
3. Staged batches that commit once; pagination.
4. Accounts and rate limits; pure algorithms against reference definitions.

Parameters are CONSTANTS with named assumptions, actions are one per operation,
and no module that is proved about declares a RECURSIVE operator.
