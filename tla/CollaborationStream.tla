------------------------- MODULE CollaborationStream -------------------------
(***************************************************************************)
(* How an open Studio learns of the changes others store: the collaboration*)
(* events PUT /api/projects/:id appends (worker/collaboration-repository.ts*)
(* and worker/index.ts), the event stream that hands them out in pages, the*)
(* browser's EventSource, which reconnects with the last event id it was   *)
(* given (src/src/collaboration/collaboration-client.ts), and applyRemote- *)
(* Event of src/src/App.tsx, which loads the record an event announces.    *)
(*                                                                         *)
(* One Project, one page.  What a load and a save do to the page's work is *)
(* the subject of ProjectSync; here a record is its revision, and a save   *)
(* that ends in a conflict is left out.  The Project may be purged and made*)
(* again under its id, and ids of events are shared with other Projects.   *)
(***************************************************************************)
EXTENDS Integers, Sequences, SequencesExt, FiniteSets, Keep

CONSTANTS
    Put,         \* PUTs of other sessions
    Save,        \* saves of the page
    PageSize,    \* events in one answer: 100
    Types,       \* how many parts of the record each of them may change
    Stride,      \* ids from one event to the next: other Projects take those between
    MaxPurges,   \* bound: purges of the Project
    MaxFaults    \* bound: cut streams, refused streams, failed loads, lost saves

NoSave == "none"

ASSUME StreamConstants ==
  /\ {PageSize, Stride} \subseteq Nat \ {0}
  /\ Types \in [Put \cup Save -> SUBSET (Nat \ {0})]
  /\ {MaxPurges, MaxFaults} \subseteq Nat
  /\ Put \cap Save = {} /\ NoSave \notin Save

VARIABLES
    revision,  \* projects.revision, 0 when there is no such Project
    log,       \* project_collaboration_events of the Project, by id
    nextId,    \* the AUTOINCREMENT counter of the table
    write,     \* where each PUT is
    source,    \* the EventSource: waiting, asked, paged, open or ended
    batch,     \* the page of events the handler has read
    wire,      \* chunks of the answer that have not arrived
    position,  \* the EventSource's last event id, which each request carries
    known,     \* projectRecordMetadata.current.revision
    work,      \* the page's own edits: none, timed (220 ms) or saving
    status,    \* persistenceStatus, as far as events look at it
    mine,      \* the page's save under way
    waiting,   \* events put off for 350 ms because a save was in flight
    loads,     \* loads under way: the chunk each is for and what it read
    told,      \* history: ids of events the page was told of, one way or other
    unread,    \* history: the latest revision an event was for that was passed
               \* over for work of the page, or whose load failed
    overtaken, \* history: a save's answer was older than what the page had
    purges, faults   \* bounded counters

worker == <<revision, log, nextId, write>>
stream == <<source, batch, wire, position>>
page   == <<known, work, status, mine, waiting, loads>>
seenBy == <<told, unread, overtaken>>
bounds == <<purges, faults>>

streamVars == <<worker, stream, page, seenBy, bounds>>

Writer == Put \cup Save
Reset  == 0    \* the revision a sync.reset carries, as far as a page looks at it

StreamInit ==
  /\ revision = 1 /\ log = <<>> /\ nextId = 0
  /\ write = [w \in Writer |-> [pc |-> "new", rev |-> 0, left |-> 0]]
  /\ source = "waiting" /\ batch = <<>> /\ wire = <<>> /\ position = 0
  /\ known = 1 /\ work = "none" /\ status = "SAVED" /\ mine = NoSave /\ waiting = {} /\ loads = {}
  /\ told = {} /\ unread = 0 /\ overtaken = FALSE
  /\ purges = 0 /\ faults = 0

-----------------------------------------------------------------------------
(* PUT: the record, then its events one after the other                    *)

Stored(w, n) ==
  /\ revision' = revision + 1
  /\ write' = [write EXCEPT ![w] = [pc |-> "append", rev |-> revision', left |-> n]]

\* projectCollaborationEventTypes: one event for each part that changed.  With
\* no Project the PUT creates one, which is one event.
CommitPut(p) ==
  /\ write[p].pc = "new"
  /\ \E n \in IF revision = 0 THEN {1} ELSE Types[p] : Stored(p, n)
  /\ UNCHANGED <<log, nextId, stream, page, seenBy, bounds>>

MaxId == IF log = <<>> THEN 0 ELSE Last(log).id

\* Mutant: the event before is looked up over all Projects.
AppendAfterAny(w) ==
  /\ write[w].pc = "append" /\ revision > 0
  /\ nextId' = nextId + Stride
  /\ log' = Append(log, [id |-> nextId', previous |-> nextId' - 1, rev |-> write[w].rev])
  /\ write' = [write EXCEPT ![w] = [pc |-> IF write[w].left = 1 THEN "done" ELSE "append",
                                    rev |-> write[w].rev, left |-> write[w].left - 1]]
  /\ UNCHANGED <<revision, stream, page, seenBy, bounds>>

\* append; previous is 0 where previous_event_id is NULL.
AppendEvent(w) ==
  /\ write[w].pc = "append" /\ revision > 0
  /\ nextId' = nextId + Stride
  /\ log' = Append(log, [id |-> nextId', previous |-> MaxId, rev |-> write[w].rev])
  /\ write' = [write EXCEPT ![w] = [pc |-> IF write[w].left = 1 THEN "done" ELSE "append",
                                    rev |-> write[w].rev, left |-> write[w].left - 1]]
  /\ UNCHANGED <<revision, stream, page, seenBy, bounds>>

\* The worker ends, or the row refers to a Project that was purged: the record
\* is stored and the rest of its events are never appended.
AppendFails(w) ==
  /\ write[w].pc = "append"
  /\ revision = 0 \/ faults < MaxFaults
  /\ faults' = IF revision = 0 THEN faults ELSE faults + 1
  /\ write' = [write EXCEPT ![w].pc = "failed"]
  /\ UNCHANGED <<revision, log, nextId, stream, page, seenBy, purges>>

\* The events go with the Project's row.
PurgeProject ==
  /\ revision > 0 /\ purges < MaxPurges
  /\ purges' = purges + 1
  /\ revision' = 0 /\ log' = <<>>
  /\ UNCHANGED <<nextId, write, stream, page, seenBy, faults>>

-----------------------------------------------------------------------------
(* GET collaboration and the EventSource                                   *)

Connect ==
  /\ source = "waiting"
  /\ source' = "asked"
  /\ UNCHANGED <<worker, batch, wire, position, page, seenBy, bounds>>

\* events: the page.
SelectPage ==
  /\ source = "asked" /\ revision > 0
  /\ LET later == Keep(log, {k \in DOMAIN log : log[k].id > position})
     IN  batch' = SubSeq(later, 1, IF Len(later) > PageSize THEN PageSize ELSE Len(later))
  /\ source' = "paged"
  /\ UNCHANGED <<worker, wire, position, page, seenBy, bounds>>

Missed(cursor) ==
  \/ position > cursor
  \/ position > 0 /\ batch # <<>> /\ batch[1].previous # position

Chunk(e) == [id |-> e.id, rev |-> e.rev]
ResetChunk(cursor) == [id |-> cursor, rev |-> Reset]

\* Mutant: the cursor closes the answer as an event with an id.
SelectCursorAsId ==
  /\ source = "paged"
  /\ wire' = [k \in DOMAIN batch |-> Chunk(batch[k])] \o <<[id |-> MaxId, rev |-> 1]>>
  /\ source' = "open" /\ batch' = <<>>
  /\ UNCHANGED <<worker, position, page, seenBy, bounds>>

\* events: MAX(id), read apart from the page, and the answer.  The chunks
\* without an id that only carry presence and the cursor are left out.
SelectCursor ==
  /\ source = "paged"
  /\ wire' = (IF Missed(MaxId) THEN <<ResetChunk(MaxId)>> ELSE <<>>)
                \o [k \in DOMAIN batch |-> Chunk(batch[k])]
  /\ source' = "open" /\ batch' = <<>>
  /\ UNCHANGED <<worker, position, page, seenBy, bounds>>

\* An answer other than 200, here for a Project that is gone: an EventSource
\* does not reconnect after it.
Refuse ==
  /\ source = "asked"
  /\ revision = 0 \/ faults < MaxFaults
  /\ faults' = IF revision = 0 THEN faults ELSE faults + 1
  /\ source' = "ended"
  /\ UNCHANGED <<worker, batch, wire, position, page, seenBy, purges>>

\* The answer ends, as every answer does, or the connection is lost.
StreamEnds ==
  /\ source = "open" /\ wire = <<>>
  /\ source' = "waiting"
  /\ UNCHANGED <<worker, batch, wire, position, page, seenBy, bounds>>

Cut ==
  /\ source \in {"asked", "paged", "open"} /\ faults < MaxFaults
  /\ faults' = faults + 1
  /\ source' = "waiting" /\ batch' = <<>> /\ wire' = <<>>
  /\ UNCHANGED <<worker, position, page, seenBy, purges>>

-----------------------------------------------------------------------------
(* applyRemoteEvent                                                        *)

Later(x, y) == IF x > y THEN x ELSE y
Meant(c) == IF c.rev = Reset THEN revision ELSE c.rev

\* Up to the load: an event is old, put off, passed over for work that could
\* not be stored, which is displayed as STALE from then on, or loaded for.  The
\* handler's first test, event.sessionId === studioSessionId, is false for every
\* event: the worker writes the id of the account's session, which it made
\* itself ("session-..."), and studioSessionId is made by the page
\* ("studio-session-...").  So a page handles the events of its own saves.
Apply(c, postponed) ==
  IF c.rev # Reset /\ c.rev <= known
  THEN waiting' = postponed /\ UNCHANGED <<status, loads, unread>>
  ELSE IF work = "saving"
  THEN waiting' = postponed \cup {c} /\ UNCHANGED <<status, loads, unread>>
  ELSE IF status = "LOCAL"
  THEN waiting' = postponed /\ status' = "STALE" /\ unread' = Later(unread, Meant(c)) /\ UNCHANGED loads
  ELSE /\ waiting' = postponed
       /\ loads' = loads \cup {[chunk |-> c, step |-> "sent", rev |-> 0]}
       /\ UNCHANGED <<status, unread>>

Receive ==
  /\ source = "open" /\ wire # <<>>
  /\ wire' = Tail(wire)
  /\ position' = Head(wire).id
  /\ told' = told \cup (IF Head(wire).rev = Reset THEN 0 .. Head(wire).id
                        ELSE {Head(wire).id})
  /\ UNCHANGED <<worker, source, batch, known, work, mine, overtaken, bounds>>

\* Mutant: an event is passed over when the page has a save in flight.
DeliverUnlessSaving ==
  /\ Receive
  /\ IF work = "saving" THEN UNCHANGED <<waiting, status, loads, unread>>
     ELSE Apply(Head(wire), waiting)

Deliver == Receive /\ Apply(Head(wire), waiting)

Again(c) ==
  /\ c \in waiting
  /\ work # "saving"
  /\ Apply(c, waiting \ {c})
  /\ UNCHANGED <<worker, stream, known, work, mine, told, overtaken, bounds>>

LoadRead(l) ==
  /\ l \in loads /\ l.step = "sent"
  /\ loads' = (loads \ {l}) \cup {[l EXCEPT !.step = "read", !.rev = revision]}
  /\ UNCHANGED <<worker, stream, known, work, status, mine, waiting, seenBy, bounds>>

\* Mutant: a record that is older than the page's is applied all the same.
LoadAppliedBlindly(l) ==
  /\ l \in loads /\ l.step = "read"
  /\ loads' = loads \ {l}
  /\ known' = l.rev /\ status' = "SAVED"
  /\ UNCHANGED <<worker, stream, work, mine, waiting, seenBy, bounds>>

\* The record read is applied when it is newer than the page's by then.
LoadDone(l) ==
  /\ l \in loads /\ l.step = "read"
  /\ loads' = loads \ {l}
  /\ IF l.rev <= known THEN UNCHANGED <<known, status>>
     ELSE known' = l.rev /\ status' = "SAVED"
  /\ UNCHANGED <<worker, stream, work, mine, waiting, seenBy, bounds>>

\* load falls back to the local copy, which is not newer than the page.
LoadFails(l) ==
  /\ l \in loads /\ faults < MaxFaults
  /\ faults' = faults + 1
  /\ loads' = loads \ {l}
  /\ unread' = Later(unread, Meant(l.chunk))
  /\ UNCHANGED <<worker, stream, known, work, status, mine, waiting, told, overtaken, purges>>

-----------------------------------------------------------------------------
(* The page's own edits                                                    *)

EditPage ==
  /\ work = "none" /\ \E s \in Save : write[s].pc = "new"
  /\ work' = "timed"
  /\ UNCHANGED <<worker, stream, known, status, mine, waiting, loads, seenBy, bounds>>

\* save: accepted as it is or after the merge, in both cases as the revision
\* after the current one.
SaveCommits(s) ==
  /\ work = "timed" /\ write[s].pc = "new" /\ revision > 0
  /\ work' = "saving" /\ mine' = s
  /\ \E n \in Types[s] : Stored(s, n)
  /\ UNCHANGED <<log, nextId, stream, known, status, waiting, loads, seenBy, bounds>>

\* The answer comes after the events, and the page takes its revision.
SaveDone ==
  /\ work = "saving" /\ write[mine].pc = "done"
  /\ known' = write[mine].rev /\ status' = "SAVED"
  /\ overtaken' = (overtaken \/ write[mine].rev < known)
  /\ work' = "none" /\ mine' = NoSave
  /\ UNCHANGED <<worker, stream, waiting, loads, told, unread, bounds>>

\* No answer: what save stored in the browser is all there is.
SaveFails ==
  /\ work = "saving" /\ write[mine].pc = "failed"
  /\ work' = "none" /\ mine' = NoSave /\ status' = "LOCAL"
  /\ UNCHANGED <<worker, stream, known, waiting, loads, seenBy, bounds>>

\* The request does not reach the worker, or the answer is lost on its way: the
\* page goes on with what it knew, and the worker with what it has begun.
SaveLost ==
  /\ \/ work = "saving" /\ write[mine].pc \in {"append", "done"}
     \/ work = "timed"
  /\ faults < MaxFaults
  /\ faults' = faults + 1
  /\ work' = "none" /\ mine' = NoSave /\ status' = "LOCAL"
  /\ UNCHANGED <<worker, stream, known, waiting, loads, seenBy, purges>>

WorkerNext == \/ \E p \in Put : CommitPut(p)
              \/ \E w \in Writer : AppendEvent(w) \/ AppendFails(w)
              \/ PurgeProject
SourceNext == Connect \/ SelectPage \/ SelectCursor \/ Refuse \/ StreamEnds \/ Cut
Answer(l)  == LoadRead(l) \/ LoadDone(l)
PageNext   == \/ Deliver \/ EditPage \/ SaveDone \/ SaveFails \/ SaveLost
              \/ \E c \in waiting : Again(c)
              \/ \E l \in loads : Answer(l) \/ LoadFails(l)
              \/ \E s \in Save : SaveCommits(s)

StreamNext == WorkerNext \/ SourceNext \/ PageNext

\* The worker goes on with a PUT it has begun, a request is answered or fails,
\* the EventSource reconnects, and timers fire.  Users and faults are free.
StreamFairness ==
  /\ \A w \in Writer : WF_streamVars(AppendEvent(w) \/ AppendFails(w))
  /\ WF_streamVars(SourceNext) /\ WF_streamVars(Deliver)
  /\ WF_streamVars(SaveDone \/ SaveFails) /\ WF_streamVars(\E s \in Save : SaveCommits(s))
  /\ WF_streamVars(\E c \in waiting : Again(c)) /\ WF_streamVars(\E l \in loads : Answer(l))

StreamSpec == StreamInit /\ [][StreamNext]_streamVars /\ StreamFairness

-----------------------------------------------------------------------------
(* Properties                                                              *)

StreamTypeOK ==
  /\ revision \in Nat /\ nextId \in Nat /\ known \in Nat /\ position \in Nat
  /\ log \in Seq([id : Nat, previous : Nat, rev : Nat]) /\ batch \in Seq([id : Nat, previous : Nat, rev : Nat])
  /\ wire \in Seq([id : Nat, rev : Nat])
  /\ write \in [Writer -> [pc : {"new", "append", "done", "failed"}, rev : Nat, left : Nat]]
  /\ source \in {"waiting", "asked", "paged", "open", "ended"}
  /\ work \in {"none", "timed", "saving"} /\ status \in {"SAVED", "LOCAL", "STALE"}
  /\ mine \in Save \cup {NoSave} /\ (work = "saving" <=> mine # NoSave)
  /\ waiting \subseteq [id : Nat, rev : Nat]
  /\ loads \subseteq [chunk : [id : Nat, rev : Nat], step : {"sent", "read"}, rev : Nat]
  /\ told \subseteq Nat /\ unread \in Nat /\ overtaken \in BOOLEAN
  /\ {purges, faults} \subseteq Nat

\* Cursor, page and MAX(id) are read apart and a connection may end after any
\* chunk: the position a page resumes from never passes an event that it was
\* not handed and that no reset stood for.
NoSilentGap == \A k \in DOMAIN log : log[k].id <= position => log[k].id \in told

\* docs/realtime-collaboration.md: a reset stands for events that are missing.
\* Concurrent appends, other Projects' ids and the two reads of an answer do
\* not bring one about while the Project's events are all there.
ResetMeansGap == purges = 0 => \A k \in DOMAIN wire : wire[k].rev # Reset

\* The loads that events start may be answered in any order: none of them
\* takes the page back to an older record.
NoLoadGoesBack == [][known' < known => work = "saving" /\ work' = "none"]_streamVars

\* An event says there is a newer record than the page's, and neither it nor a
\* later one was passed over or lost its load.  The event of a save whose answer
\* was lost is one as well: the page that made it does not know its revision.
Behind == \E k \in DOMAIN log : log[k].rev \in known + 1 .. revision /\ log[k].rev > unread

\* A page learns of every announced record in the end, over pages, cut streams
\* and saves in flight: unless the answer of a save took it back, the Project was
\* purged (revisions begin at 1 again), or the stream was refused.
CatchesUp == <>[](Behind => overtaken \/ purges > 0 \/ source = "ended")
=============================================================================
