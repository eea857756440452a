--------------------------- MODULE ProjectSyncProofs ---------------------------
(*****************************************************************************)
(* Proofs about what Studio keeps of a Project: ProjectSync, for any         *)
(* browsers, tabs and edits, whichever tabs share a browser, with events,    *)
(* late answers and failures in any number; and RecoveryEnvelope, in the     *)
(* second half.                                                              *)
(*                                                                           *)
(* Inv says, beside the types, where a record that is not local work comes   *)
(* from (SourcesOf, BasedOf), what an attempt to save has of the edits it    *)
(* began with (AttemptOf), where an edit is that was not stored yet          *)
(* (SettlingOf), and what the local copy has of it (KeptOf).                 *)
(*****************************************************************************)
EXTENDS ProjectSync, RecoveryEnvelope, TLAPS

PageState  == {"closed", "opening", "open"}
Status     == {"SYNC", "SAVED", "MERGED", "LOCAL", "CONFLICT", "STALE", "REMOTE"}
Attempts   == [pc : {"sent", "written", "answered"}, local : Record, first : Record,
               base : Record, again : BOOLEAN, reply : Reply]
Displayed  == [set : {TRUE}, local : Record, remote : Record]

RemoteTypes ==
  /\ server \in Record /\ gone \in BOOLEAN
  /\ announced \in Nat /\ stored \subseteq Record
StorageTypes ==
  /\ cache \in [Browser -> Record] /\ base \in [Browser -> Record]
  /\ recovery \in [Browser -> SUBSET Conflict]
ShownTypes ==
  /\ page \in [Tab -> PageState] /\ plan \in [Tab -> SUBSET Edit]
  /\ known \in [Tab -> Metadata] /\ status \in [Tab -> Status]
SavingTypes ==
  /\ skip \in [Tab -> BOOLEAN] /\ timer \in [Tab -> BOOLEAN] /\ queue \in [Tab -> Nat]
  /\ save \in [Tab -> {NoSave} \cup Attempts]
LoadTypes ==
  /\ load \in [Tab -> [Loader -> Load]]
  /\ conflict \in [Tab -> {NoConflict} \cup Displayed]
  /\ events \in [Tab -> Nat]
Types == RemoteTypes /\ StorageTypes /\ ShownTypes /\ SavingTypes /\ LoadTypes

\* Remote records come from the worker, as long as it has the Project.
SourcesOf(t) ==
  /\ \A k \in Loader :
       /\ load[t][k].pc = "answered" => load[t][k].rec \in stored
       /\ load[t][k].pc = "missing" => gone
  /\ save[t].pc = "answered" => save[t].reply.rec \in stored
  /\ save[t].pc = "answered" /\ save[t].reply.kind = "missing" => gone
  /\ conflict[t].set => conflict[t].remote \in stored \/ gone

\* So does the base a tab alone in its browser merges with.
BasedOf(t) ==
  Alone(t) => \/ base[BrowserOf[t]] \in stored
              \/ gone /\ ~(save[t].pc = "answered" /\ save[t].reply.kind = "stale")

\* The first attempt sends what the save began with; the second one sends it
\* again or it was stored before; and it is stored once an attempt is.
AttemptOf(t) ==
  save[t].pc # "none" =>
    /\ ~save[t].again => save[t].local = save[t].first
    /\ ~gone \/ Alone(t) =>
         save[t].first.snap \subseteq save[t].local.snap \/ save[t].first.snap \subseteq EverStored
    /\ save[t].pc = "written" => save[t].first.snap \subseteq EverStored
    /\ save[t].pc = "answered" /\ save[t].reply.kind = "saved" =>
         save[t].first.snap \subseteq EverStored

\* A page that is not open saves nothing; one that displays a conflict says so,
\* and one that saves says nothing else.
ResolvingOf(t) ==
  /\ page[t] # "open" =>
       ~timer[t] /\ queue[t] = 0 /\ save[t].pc = "none" /\ ~conflict[t].set
  /\ conflict[t].set => save[t].pc = "none" /\ (events[t] = 0 => status[t] = "CONFLICT")
  /\ save[t].pc # "none" /\ events[t] = 0 => status[t] = "SYNC"
  /\ events[t] = 0 => ~skip[t] /\ load[t]["event"].pc = "none"

\* While a page that has reacted to no event saves, it shows what the save began
\* with, or is about to save again.
SavingOf(t) ==
  page[t] = "open" /\ events[t] = 0 /\ save[t].pc # "none" =>
    timer[t] \/ queue[t] > 0 \/ plan[t] = save[t].first.snap

\* What such a page shows is stored, about to be saved, being saved, or said to
\* be local, as long as the worker has the Project.
SettlingOf(t) ==
  ~gone /\ page[t] = "open" /\ events[t] = 0 =>
    \/ plan[t] \subseteq EverStored
    \/ timer[t] \/ queue[t] > 0 \/ save[t].pc # "none"
    \/ status[t] \in {"LOCAL", "CONFLICT"}

\* The local copy of a tab alone in its browser is what is being saved, or was
\* when the conflict came; with nothing under way it has the local work.
KeptOf(t) ==
  Alone(t) /\ events[t] = 0 =>
    /\ save[t].pc # "none" => cache[BrowserOf[t]] = save[t].local
    /\ conflict[t].set => cache[BrowserOf[t]] = conflict[t].local
    /\ Quiet(t) /\ status[t] = "LOCAL" =>
         plan[t] \subseteq cache[BrowserOf[t]].snap \cup EverStored

TabInv(t) ==
  /\ SourcesOf(t) /\ BasedOf(t) /\ AttemptOf(t) /\ ResolvingOf(t)
  /\ SavingOf(t) /\ SettlingOf(t) /\ KeptOf(t)
Inv == Types /\ server \in stored /\ BaseWasStored /\ \A t \in Tab : TabInv(t)

-----------------------------------------------------------------------------
(* Types                                                                   *)

\* What the helpers build has its type.
LEMMA MetadataType == ASSUME NEW rec \in Record PROVE MetadataFor(rec) \in Metadata
  BY DEF MetadataFor, Metadata, Record

LEMMA LocalType ==
  ASSUME Types, NEW t \in Tab PROVE LocalRecord(t) \in Record
  BY SyncConstants DEF Types, StorageTypes, ShownTypes, LocalRecord, Record, Metadata

LEMMA MergedType ==
  ASSUME NEW b \in Record, NEW local \in Record, NEW remote \in Record
  PROVE  Merged(b, local, remote) \in Record
  BY DEF Merged, Record

LEMMA CreatedType == Created \in Record
  BY DEF Created, Record

\* A save under way is an attempt, and stays one as it proceeds.
LEMMA AttemptType ==
  ASSUME Types, NEW t \in Tab, save[t].pc # "none" PROVE save[t] \in Attempts
  BY DEF Types, SavingTypes, NoSave

LEMMA AnsweredType ==
  ASSUME NEW s \in Attempts, NEW kind \in {"saved", "stale", "missing"}, NEW rec \in Record
  PROVE  [s EXCEPT !.pc = "answered", !.reply = [kind |-> kind, rec |-> rec]] \in Attempts
  BY DEF Attempts, Reply

LEMMA AgainType ==
  ASSUME NEW s \in Attempts, NEW merged \in Record, NEW remote \in Record
  PROVE  [s EXCEPT !.pc = "sent", !.local = merged, !.base = remote, !.again = TRUE]
           \in Attempts
  BY DEF Attempts

LEMMA WrittenType ==
  ASSUME NEW s \in Attempts PROVE [s EXCEPT !.pc = "written"] \in Attempts
  BY DEF Attempts

LEMMA BeginType ==
  ASSUME NEW local \in Record
  PROVE  [pc |-> "sent", local |-> local, first |-> local, base |-> Created, again |-> FALSE,
          reply |-> [kind |-> "none", rec |-> Created]] \in Attempts
  BY CreatedType DEF Attempts, Reply

\* Putting one load of a tab in its place.
LEMMA LoadType ==
  ASSUME load \in [Tab -> [Loader -> Load]], NEW t \in Tab, NEW k \in Loader, NEW l \in Load
  PROVE  [load EXCEPT ![t][k] = l] \in [Tab -> [Loader -> Load]]
  OBVIOUS

LEMMA LoadedType ==
  ASSUME Types, NEW t \in Tab, NEW k \in Loader, load[t][k].pc = "answered"
  PROVE  load[t][k].rec \in Record
<1>1. load[t][k] \in Load
  BY DEF Types, LoadTypes
<1> QED BY <1>1 DEF Load, NoLoad

\* The first state has the types.
LEMMA InitTypes == ASSUME Init PROVE Types
<1>1. RemoteTypes /\ StorageTypes
  BY CreatedType DEF Init, RemoteTypes, StorageTypes, Created
<1>2. ShownTypes
  BY DEF Init, ShownTypes, PageState, Metadata, Status
<1>3. SavingTypes
  BY DEF Init, SavingTypes
<1>4. LoadTypes
  BY DEF Init, LoadTypes, Load
<1> QED BY <1>1, <1>2, <1>3, <1>4 DEF Types

-----------------------------------------------------------------------------
(* Every step keeps the types                                              *)

LEMMA ChangeElsewhereTypes == ASSUME Types, ChangeElsewhere PROVE Types'
<1> DEFINE rec == [server EXCEPT !.rev = @ + 1, !.meta = @ + 1]
<1>1. server \in Record
  BY DEF Types, RemoteTypes
<1>2. server.rev + 1 \in Nat /\ server.meta + 1 \in Nat
  BY <1>1 DEF Record
<1>3. rec \in Record
  BY <1>1, <1>2 DEF Record
<1>4. server' = rec /\ stored' = stored \cup {rec} /\ announced' = server.rev + 1
  BY DEF ChangeElsewhere, Store
<1> HIDE DEF rec
<1>5. server' \in Record /\ stored' = stored \cup {server'} /\ announced' \in Nat
  BY <1>2, <1>3, <1>4
<1> QED
  BY <1>5 DEF ChangeElsewhere, storageVars, tabVars, Types, RemoteTypes, StorageTypes, ShownTypes,
             SavingTypes, LoadTypes

LEMMA DeleteElsewhereTypes == ASSUME Types, DeleteElsewhere PROVE Types'
  BY DEF DeleteElsewhere, storageVars, tabVars, Types, RemoteTypes, StorageTypes, ShownTypes,
         SavingTypes, LoadTypes

LEMMA PutTypes == ASSUME Types, NEW t \in Tab, Put(t) PROVE Types'
<1>1. save[t] \in Attempts /\ server \in Record
  BY AttemptType DEF Put, Types, RemoteTypes
<1>2. save[t].local \in Record /\ [save[t].local EXCEPT !.rev = @ + 1] \in Record
  BY <1>1 DEF Attempts, Record
<1>3. RemoteTypes'
  BY <1>1, <1>2 DEF Types, RemoteTypes, Put, Store, remoteVars, Record
<1>4. \A kind \in {"saved", "stale", "missing"}, rec \in Record :
        Answered(t, kind, rec) \in [Tab -> {NoSave} \cup Attempts]
  BY <1>1, AnsweredType DEF Types, SavingTypes, Answered
<1>5. [save EXCEPT ![t].pc = "written"] \in [Tab -> {NoSave} \cup Attempts]
  BY <1>1, WrittenType DEF Types, SavingTypes
<1>6. save' \in [Tab -> {NoSave} \cup Attempts]
  BY <1>1, <1>2, <1>4, <1>5 DEF Put
<1>7. StorageTypes' /\ ShownTypes' /\ SavingTypes' /\ LoadTypes'
  BY <1>6 DEF Put, storageVars, bounds, Types, StorageTypes, ShownTypes, SavingTypes, LoadTypes
<1> QED BY <1>3, <1>7 DEF Types

LEMMA AnswerTypes == ASSUME Types, NEW t \in Tab, Answer(t) PROVE Types'
<1>1. save[t] \in Attempts /\ server \in Record
  BY AttemptType DEF Answer, Types, RemoteTypes
<1>2. RemoteTypes'
  BY <1>1 DEF Types, RemoteTypes, Answer, Later, Record
<1>3. \A kind \in {"saved", "stale", "missing"} : Answered(t, kind, server) \in [Tab -> {NoSave} \cup Attempts]
  BY <1>1, AnsweredType DEF Types, SavingTypes, Answered
<1>4. save' \in [Tab -> {NoSave} \cup Attempts]
  BY <1>3 DEF Answer
<1>5. StorageTypes' /\ ShownTypes' /\ SavingTypes' /\ LoadTypes'
  BY <1>4 DEF Answer, storageVars, bounds, Types, StorageTypes, ShownTypes, SavingTypes, LoadTypes
<1> QED BY <1>2, <1>5 DEF Types

LEMMA ReadTypes == ASSUME Types, NEW t \in Tab, NEW k \in Loader, Read(t, k) PROVE Types'
<1>1. [pc |-> "answered", rec |-> server] \in Load /\ [pc |-> "missing"] \in Load
  BY DEF Types, RemoteTypes, Load
<1>2. load' \in [Tab -> [Loader -> Load]]
  BY <1>1 DEF Types, LoadTypes, Read
<1> QED
  BY <1>2 DEF Read, remoteVars, storageVars, bounds, Types, RemoteTypes, StorageTypes, ShownTypes,
             SavingTypes, LoadTypes

LEMMA OpenTypes == ASSUME Types, NEW t \in Tab, Open(t) PROVE Types'
<1>1. [pc |-> "sent"] \in Load
  BY DEF Load
<1>2. load' \in [Tab -> [Loader -> Load]] /\ page' \in [Tab -> PageState]
  BY <1>1 DEF Types, LoadTypes, ShownTypes, PageState, Loader, Open
<1> QED
  BY <1>2 DEF Open, remoteVars, storageVars, Types, RemoteTypes, StorageTypes, ShownTypes,
             SavingTypes, LoadTypes

LEMMA StartedTypes ==
  ASSUME Types, NEW t \in Tab, NEW rec \in Record, NEW shown \in Status, Started(t, rec, shown)
  PROVE  RemoteTypes' /\ ShownTypes' /\ SavingTypes' /\ LoadTypes'
<1>1. MetadataFor(rec) \in Metadata /\ rec.snap \subseteq Edit /\ "open" \in PageState
  BY MetadataType DEF Record, PageState
<1>2. RemoteTypes' /\ ShownTypes' /\ SavingTypes'
  BY <1>1 DEF Started, remoteVars, Types, RemoteTypes, ShownTypes, SavingTypes
<1>3. load' \in [Tab -> [Loader -> Load]]
  BY DEF Started, Types, LoadTypes, Load, Loader
<1>4. LoadTypes'
  BY <1>3 DEF Started, Types, LoadTypes
<1> QED BY <1>2, <1>4

LEMMA StartLoadedTypes ==
  ASSUME Types, NEW t \in Tab, StartLoaded(t) PROVE Types'
<1>1. load[t]["start"].rec \in Record /\ "SAVED" \in Status
  BY LoadedType DEF StartLoaded, Loader, Status
<1>2. RemoteTypes' /\ ShownTypes' /\ SavingTypes' /\ LoadTypes'
  BY <1>1, StartedTypes DEF StartLoaded
<1>3. StorageTypes'
  BY <1>1, SyncConstants DEF StartLoaded, Started, WriteRemoteCache, WriteLocal, Types,
     StorageTypes
<1> QED BY <1>2, <1>3 DEF Types

LEMMA StartLocalTypes ==
  ASSUME Types, NEW t \in Tab, StartMissing(t) \/ StartFailed(t) PROVE Types'
<1>1. cache[BrowserOf[t]] \in Record /\ {"LOCAL", "SAVED"} \subseteq Status
  BY SyncConstants DEF Types, StorageTypes, Status
<1>2. RemoteTypes' /\ ShownTypes' /\ SavingTypes' /\ LoadTypes'
  BY <1>1, StartedTypes DEF StartMissing, StartFailed
<1>3. StorageTypes'
  BY DEF StartMissing, StartFailed, Started, Types, StorageTypes
<1> QED BY <1>2, <1>3 DEF Types

LEMMA CloseTypes == ASSUME Types, NEW t \in Tab, Close(t) PROVE Types'
<1>1. RemoteTypes' /\ StorageTypes' /\ SavingTypes'
  BY DEF Close, remoteVars, storageVars, Types, RemoteTypes, StorageTypes, SavingTypes
<1>2. ShownTypes'
  BY DEF Close, Types, ShownTypes, PageState, Metadata, Status
<1>3. [k \in Loader |-> NoLoad] \in [Loader -> Load]
  BY DEF Load
<1>4. LoadTypes'
  BY <1>3 DEF Close, bounds, Types, LoadTypes
<1> QED BY <1>1, <1>2, <1>4 DEF Types

LEMMA DoEditTypes == ASSUME Types, NEW t \in Tab, NEW e \in Edit, DoEdit(t, e) PROVE Types'
  BY DEF DoEdit, Publish, remoteVars, storageVars, Types, RemoteTypes, StorageTypes, ShownTypes,
         SavingTypes, LoadTypes

LEMMA TimerFiresTypes == ASSUME Types, NEW t \in Tab, TimerFires(t) PROVE Types'
  BY DEF TimerFires, remoteVars, storageVars, bounds, Types, RemoteTypes, StorageTypes,
      ShownTypes,
         SavingTypes, LoadTypes

LEMMA SaveStartTypes ==
  ASSUME Types, NEW t \in Tab, SaveStart(t) PROVE Types'
<1>1. LocalRecord(t) \in Record /\ BrowserOf[t] \in Browser /\ "SYNC" \in Status
  BY LocalType, SyncConstants DEF Status
<1>2. RemoteTypes' /\ StorageTypes'
  BY <1>1 DEF SaveStart, WriteLocal, remoteVars, Types, RemoteTypes, StorageTypes
<1>3. ShownTypes' /\ LoadTypes'
  BY <1>1 DEF SaveStart, bounds, Types, ShownTypes, LoadTypes
<1>4. save' \in [Tab -> {NoSave} \cup Attempts]
  BY <1>1, BeginType DEF SaveStart, Types, SavingTypes
<1>5. queue[t] \in Nat /\ queue[t] - 1 \in Nat
  BY DEF SaveStart, Types, SavingTypes
<1>6. queue' \in [Tab -> Nat] /\ skip' = skip /\ timer' = timer
  BY <1>5 DEF SaveStart, Types, SavingTypes
<1>7. SavingTypes'
  BY <1>4, <1>6 DEF Types, SavingTypes
<1> QED BY <1>2, <1>3, <1>7 DEF Types

LEMMA SaveDoneTypes ==
  ASSUME Types, NEW t \in Tab, SaveDone(t) PROVE Types'
<1>1. save[t].reply.rec \in Record
  BY AttemptType DEF SaveDone, Attempts, Reply
<1>2. MetadataFor(save[t].reply.rec) \in Metadata /\ {"MERGED", "SAVED"} \subseteq Status
  BY <1>1, MetadataType DEF Status
<1>3. RemoteTypes' /\ StorageTypes'
  BY <1>1, SyncConstants DEF SaveDone, WriteRemoteCache, WriteLocal, remoteVars, Types,
     RemoteTypes, StorageTypes
<1>4. ShownTypes'
  BY <1>2 DEF SaveDone, Types, ShownTypes
<1>5. SavingTypes' /\ LoadTypes'
  BY DEF SaveDone, bounds, Types, SavingTypes, LoadTypes
<1> QED BY <1>3, <1>4, <1>5 DEF Types

\* What the refused save is merged from, and its merge.
LEMMA RefusedTypes ==
  ASSUME Types, NEW t \in Tab, Refused(t)
  PROVE  /\ save[t] \in Attempts /\ save[t].local \in Record /\ save[t].reply.rec \in Record
         /\ Merged(BaseOf(t), save[t].local, save[t].reply.rec) \in Record
<1>1. save[t] \in Attempts
  BY AttemptType DEF Refused
<1>2. save[t].local \in Record /\ save[t].base \in Record /\ save[t].reply.rec \in Record
  BY <1>1 DEF Attempts, Reply
<1>3. BaseOf(t) \in Record
  BY <1>2, SyncConstants DEF BaseOf, Types, StorageTypes
<1> QED BY <1>1, <1>2, <1>3, MergedType

LEMMA SaveMergeTypes ==
  ASSUME Types, NEW t \in Tab, SaveMerge(t) PROVE Types'
<1> DEFINE remote == save[t].reply.rec
           merged == Merged(BaseOf(t), save[t].local, remote)
<1>1. save[t] \in Attempts /\ remote \in Record /\ merged \in Record
  BY RefusedTypes DEF SaveMerge
<1>2. /\ cache' = [cache EXCEPT ![BrowserOf[t]] = merged]
      /\ save' = [save EXCEPT ![t] =
           [@ EXCEPT !.pc = "sent", !.local = merged, !.base = remote, !.again = TRUE]]
  BY DEF SaveMerge, WriteLocal
<1> HIDE DEF remote, merged
<1>3. save' \in [Tab -> {NoSave} \cup Attempts]
  BY <1>1, <1>2, AgainType DEF Types, SavingTypes
<1>4. RemoteTypes' /\ StorageTypes'
  BY <1>1, <1>2, SyncConstants DEF SaveMerge, remoteVars, Types, RemoteTypes, StorageTypes
<1>5. ShownTypes' /\ SavingTypes' /\ LoadTypes'
  BY <1>3 DEF SaveMerge, bounds, Types, ShownTypes, SavingTypes, LoadTypes
<1> QED BY <1>4, <1>5 DEF Types

LEMMA SaveConflictTypes ==
  ASSUME Types, NEW t \in Tab, SaveConflict(t) PROVE Types'
<1> DEFINE local == save[t].local
           remote == IF save[t].reply.kind = "missing" THEN local ELSE save[t].reply.rec
<1>1. local \in Record /\ remote \in Record
  BY RefusedTypes DEF SaveConflict
<1>2. /\ \/ recovery' = [recovery EXCEPT ![BrowserOf[t]] =
                           @ \cup {[local |-> local, remote |-> remote]}]
         \/ recovery' = recovery
      /\ conflict' = [conflict EXCEPT ![t] = [set |-> TRUE, local |-> local, remote |-> remote]]
  BY DEF SaveConflict, WriteRecovery
<1> HIDE DEF local, remote
<1>3. [set |-> TRUE, local |-> local, remote |-> remote] \in Displayed
  BY <1>1 DEF Displayed
<1>4. RemoteTypes' /\ SavingTypes'
  BY DEF SaveConflict, remoteVars, Types, RemoteTypes, SavingTypes
<1>5. StorageTypes'
  BY <1>1, <1>2, SyncConstants DEF SaveConflict, Types, StorageTypes, Conflict
<1>6. LoadTypes'
  BY <1>3, <1>2 DEF SaveConflict, Types, LoadTypes
<1>7. ShownTypes'
  BY DEF SaveConflict, Types, ShownTypes, Status
<1> QED BY <1>4, <1>5, <1>6, <1>7 DEF Types

LEMMA SaveLostTypes == ASSUME Types, NEW t \in Tab, SaveLost(t) PROVE Types'
<1>1. save[t].first \in Record
  BY AttemptType DEF SaveLost, Attempts
<1>2. MetadataFor(save[t].first) \in Metadata /\ "LOCAL" \in Status
  BY <1>1, MetadataType DEF Status
<1> QED
  BY <1>2 DEF SaveLost, remoteVars, storageVars, Types, RemoteTypes, StorageTypes, ShownTypes,
             SavingTypes, LoadTypes

LEMMA RemoteEventTypes == ASSUME Types, NEW t \in Tab, RemoteEvent(t) PROVE Types'
<1>1. [pc |-> "sent"] \in Load /\ "STALE" \in Status /\ "event" \in Loader
  BY DEF Load, Status, Loader
<1>2. status' \in [Tab -> Status]
  BY <1>1 DEF RemoteEvent, Types, ShownTypes
<1>3. load \in [Tab -> [Loader -> Load]]
  BY DEF Types, LoadTypes
<1>4. [load EXCEPT ![t]["event"] = [pc |-> "sent"]] \in [Tab -> [Loader -> Load]]
  BY <1>1, <1>3, LoadType
<1>5. load' = load \/ load' = [load EXCEPT ![t]["event"] = [pc |-> "sent"]]
  BY DEF RemoteEvent
<1>6. load' \in [Tab -> [Loader -> Load]]
  BY <1>3, <1>4, <1>5
<1> QED
  BY <1>2, <1>6 DEF RemoteEvent, remoteVars, storageVars, Types, RemoteTypes, StorageTypes,
      ShownTypes, SavingTypes, LoadTypes

LEMMA AppliedTypes ==
  ASSUME Types, NEW t \in Tab, NEW rec \in Record, Applied(t, rec)
  PROVE  RemoteTypes' /\ ShownTypes' /\ SavingTypes' /\ LoadTypes'
<1>1. MetadataFor(rec) \in Metadata /\ rec.snap \subseteq Edit /\ "REMOTE" \in Status
  BY MetadataType DEF Record, Status
<1>2. RemoteTypes'
  BY DEF Applied, remoteVars, Types, RemoteTypes
<1>3. ShownTypes' /\ SavingTypes'
  <2>1. ShownTypes /\ SavingTypes
    BY DEF Types
  <2>2. CASE rec.rev > known[t].rev
    <3>1. Restore(t, rec) /\ status' = [status EXCEPT ![t] = "REMOTE"]
      BY <2>2 DEF Applied
    <3>2. UNCHANGED <<page, timer, queue, save>>
      BY DEF Applied
    <3> QED BY <1>1, <2>1, <3>1, <3>2 DEF Restore, ShownTypes, SavingTypes
  <2>3. CASE ~(rec.rev > known[t].rev)
    <3>1. UNCHANGED <<plan, known, skip, status, page, timer, queue, save>>
      BY <2>3 DEF Applied
    <3> QED BY <2>1, <3>1 DEF ShownTypes, SavingTypes
  <2> QED BY <2>2, <2>3
<1>4. LoadTypes /\ NoLoad \in Load /\ "event" \in Loader
  BY DEF Load, Loader, Types
<1>5. [load EXCEPT ![t]["event"] = NoLoad] \in [Tab -> [Loader -> Load]]
  BY <1>4, LoadType DEF LoadTypes
<1>6. load' = [load EXCEPT ![t]["event"] = NoLoad] /\ conflict' = conflict
      /\ events' = events
  BY DEF Applied
<1>7. LoadTypes'
  BY <1>4, <1>5, <1>6 DEF LoadTypes
<1> QED BY <1>2, <1>3, <1>7

LEMMA EventLoadedTypes ==
  ASSUME Types, NEW t \in Tab, EventLoaded(t) PROVE Types'
<1>1. load[t]["event"].rec \in Record
  BY LoadedType DEF EventLoaded, Loader
<1>2. RemoteTypes' /\ ShownTypes' /\ SavingTypes' /\ LoadTypes'
  BY <1>1, AppliedTypes DEF EventLoaded
<1>3. StorageTypes'
  BY <1>1, SyncConstants DEF EventLoaded, Applied, WriteRemoteCache, WriteLocal, Types,
     StorageTypes
<1> QED BY <1>2, <1>3 DEF Types

LEMMA EventLocalTypes ==
  ASSUME Types, NEW t \in Tab, EventLoadMissing(t) \/ EventLoadFailed(t) PROVE Types'
<1>1. cache[BrowserOf[t]] \in Record
  BY SyncConstants DEF Types, StorageTypes
<1>2. RemoteTypes' /\ ShownTypes' /\ SavingTypes' /\ LoadTypes'
  BY <1>1, AppliedTypes DEF EventLoadMissing, EventLoadFailed
<1>3. StorageTypes'
  BY DEF EventLoadMissing, EventLoadFailed, Applied, Types, StorageTypes
<1> QED BY <1>2, <1>3 DEF Types

\* The two choices of the user differ in the snapshot alone.
LEMMA ChoiceTypes ==
  ASSUME Types, NEW t \in Tab, UseRemote(t) \/ RecoverBranch(t) PROVE Types'
<1>1. AcceptRemote(t) /\ conflict[t].set
  BY DEF UseRemote, RecoverBranch, AcceptRemote
<1>2. conflict[t] \in Displayed
  BY <1>1 DEF Types, LoadTypes, NoConflict
<1>3. conflict[t].remote \in Record /\ conflict[t].local \in Record
  BY <1>2 DEF Displayed
<1>4. /\ MetadataFor(conflict[t].remote) \in Metadata /\ {"SAVED", "SYNC"} \subseteq Status
      /\ conflict[t].remote.snap \subseteq Edit /\ conflict[t].local.snap \subseteq Edit
  BY <1>3, MetadataType DEF Status, Record
<1>5. RemoteTypes' /\ SavingTypes' /\ LoadTypes'
  BY DEF UseRemote, RecoverBranch, AcceptRemote, remoteVars, Types, RemoteTypes, SavingTypes,
         LoadTypes
<1>6. StorageTypes'
  BY <1>3, SyncConstants DEF UseRemote, RecoverBranch, AcceptRemote, WriteRemoteCache,
     WriteLocal, Types, StorageTypes
<1>7. ShownTypes'
  BY <1>4 DEF UseRemote, RecoverBranch, AcceptRemote, Types, ShownTypes
<1> QED BY <1>5, <1>6, <1>7 DEF Types

LEMMA StepTypes == ASSUME Types, Next PROVE Types'
<1>1. CASE ChangeElsewhere \/ DeleteElsewhere
  BY <1>1, ChangeElsewhereTypes, DeleteElsewhereTypes
<1>2. CASE \E t \in Tab : PageNext(t)
  BY <1>2, OpenTypes, StartLoadedTypes, StartLocalTypes, CloseTypes, DoEditTypes,
      TimerFiresTypes,
     SaveStartTypes, SaveDoneTypes, SaveMergeTypes, SaveConflictTypes, SaveLostTypes,
     RemoteEventTypes, EventLoadedTypes, EventLocalTypes, ChoiceTypes DEF PageNext
<1>3. CASE \E t \in Tab : WorkerNext(t)
  BY <1>3, PutTypes, AnswerTypes, ReadTypes DEF WorkerNext
<1> QED BY <1>1, <1>2, <1>3 DEF Next

LEMMA StutterTypes == ASSUME Types, UNCHANGED vars PROVE Types'
  BY DEF vars, remoteVars, storageVars, tabVars, bounds, Types, RemoteTypes, StorageTypes,
         ShownTypes, SavingTypes, LoadTypes

-----------------------------------------------------------------------------
(* What a step leaves of the other tabs                                    *)

\* Nothing that was stored is taken back, and a deletion is not.
Grown == stored \subseteq stored' /\ (gone => gone')

\* Nothing of the tab changes, nor of its browser if it is alone there.
Same(p) ==
  /\ page'[p] = page[p] /\ plan'[p] = plan[p] /\ skip'[p] = skip[p] /\ timer'[p] = timer[p]
  /\ queue'[p] = queue[p] /\ save'[p] = save[p] /\ load'[p] = load[p]
  /\ status'[p] = status[p] /\ conflict'[p] = conflict[p] /\ events'[p] = events[p]

SameStorage(p) ==
  Alone(p) => /\ cache'[BrowserOf[p]] = cache[BrowserOf[p]]
              /\ base'[BrowserOf[p]] = base[BrowserOf[p]]

LEMMA StoredShown == ASSUME NEW r \in stored PROVE r.snap \subseteq EverStored
  BY DEF EverStored

LEMMA EverGrows == ASSUME stored \subseteq stored' PROVE EverStored \subseteq EverStored'
  BY DEF EverStored

LEMMA GrownStep == ASSUME Types, Next PROVE Grown
<1>1. CASE ChangeElsewhere \/ DeleteElsewhere
  BY <1>1 DEF ChangeElsewhere, DeleteElsewhere, Store, Grown
<1>2. CASE \E t \in Tab : PageNext(t)
  BY <1>2 DEF PageNext, Open, StartLoaded, StartMissing, StartFailed, Started, Close, DoEdit,
              TimerFires, SaveStart, SaveDone, SaveMerge, SaveConflict, SaveLost, RemoteEvent,
              EventLoaded, EventLoadMissing, EventLoadFailed, Applied, UseRemote, RecoverBranch,
              AcceptRemote, remoteVars, Grown
<1>3. CASE \E t \in Tab : WorkerNext(t)
  BY <1>3 DEF WorkerNext, Put, Answer, Read, Store, remoteVars, Grown
<1> QED BY <1>1, <1>2, <1>3 DEF Next

LEMMA OthersSame ==
  ASSUME Types, NEW t \in Tab, PageNext(t) \/ WorkerNext(t), NEW p \in Tab, p # t
  PROVE  Same(p)
<1> USE DEF Types, ShownTypes, SavingTypes, LoadTypes, Same
<1>1. CASE Open(t) \/ StartLoaded(t) \/ StartMissing(t) \/ StartFailed(t) \/ Close(t)
  BY <1>1 DEF Open, StartLoaded, StartMissing, StartFailed, Started, Close, bounds
<1>2. CASE (\E e \in Edit : DoEdit(t, e)) \/ TimerFires(t) \/ SaveStart(t)
  BY <1>2 DEF DoEdit, Publish, TimerFires, SaveStart, bounds
<1>3. CASE SaveDone(t) \/ SaveMerge(t) \/ SaveConflict(t) \/ SaveLost(t)
  BY <1>3 DEF SaveDone, SaveMerge, SaveConflict, SaveLost, bounds
<1>4. CASE RemoteEvent(t) \/ EventLoaded(t) \/ EventLoadMissing(t) \/ EventLoadFailed(t)
  BY <1>4 DEF RemoteEvent, EventLoaded, EventLoadMissing, EventLoadFailed, Applied, Restore
<1>5. CASE UseRemote(t) \/ RecoverBranch(t)
  BY <1>5 DEF UseRemote, RecoverBranch, AcceptRemote
<1>6. CASE WorkerNext(t)
  BY <1>6 DEF WorkerNext, Put, Answer, Answered, Read, bounds
<1> QED BY <1>1, <1>2, <1>3, <1>4, <1>5, <1>6 DEF PageNext

LEMMA OthersStorage ==
  ASSUME Types, NEW t \in Tab, PageNext(t) \/ WorkerNext(t), NEW p \in Tab, p # t
  PROVE  SameStorage(p)
<1>1. SUFFICES ASSUME BrowserOf[t] # BrowserOf[p]
               PROVE  /\ cache'[BrowserOf[p]] = cache[BrowserOf[p]]
                      /\ base'[BrowserOf[p]] = base[BrowserOf[p]]
  BY DEF SameStorage, Alone
<1>2. CASE Open(t) \/ StartLoaded(t) \/ StartMissing(t) \/ StartFailed(t) \/ Close(t)
  <2> USE <1>1, SyncConstants DEF WriteLocal, WriteRemoteCache, Types, StorageTypes
  <2>1. CASE Open(t) \/ Close(t)
    BY <2>1 DEF Open, Close, storageVars
  <2>2. CASE StartLoaded(t)
    BY <2>2 DEF StartLoaded
  <2>3. CASE StartMissing(t) \/ StartFailed(t)
    BY <2>3 DEF StartMissing, StartFailed, storageVars
  <2> QED BY <1>2, <2>1, <2>2, <2>3
<1>3. CASE (\E e \in Edit : DoEdit(t, e)) \/ TimerFires(t) \/ SaveStart(t)
  BY <1>1, <1>3, SyncConstants DEF DoEdit, TimerFires, SaveStart, storageVars, WriteLocal, Types,
     StorageTypes
<1>4. CASE SaveDone(t) \/ SaveMerge(t) \/ SaveConflict(t) \/ SaveLost(t)
  <2> USE <1>1, SyncConstants DEF WriteLocal, WriteRemoteCache, Types, StorageTypes
  <2>1. CASE SaveDone(t)
    BY <2>1 DEF SaveDone
  <2>2. CASE SaveMerge(t)
    BY <2>2 DEF SaveMerge
  <2>3. CASE SaveConflict(t) \/ SaveLost(t)
    BY <2>3 DEF SaveConflict, SaveLost, storageVars
  <2> QED BY <1>4, <2>1, <2>2, <2>3
<1>5. CASE RemoteEvent(t) \/ EventLoaded(t) \/ EventLoadMissing(t) \/ EventLoadFailed(t)
  BY <1>1, <1>5, SyncConstants DEF RemoteEvent, EventLoaded, EventLoadMissing, EventLoadFailed,
     WriteRemoteCache, WriteLocal, storageVars, Types, StorageTypes
<1>6. CASE UseRemote(t) \/ RecoverBranch(t)
  BY <1>1, <1>6, SyncConstants DEF UseRemote, RecoverBranch, AcceptRemote, WriteRemoteCache,
     WriteLocal, Types, StorageTypes
<1>7. CASE WorkerNext(t)
  BY <1>7 DEF WorkerNext, Put, Answer, Read, storageVars
<1> QED BY <1>2, <1>3, <1>4, <1>5, <1>6, <1>7 DEF PageNext

LEMMA SameInv ==
  ASSUME Grown, NEW p \in Tab, TabInv(p), BaseWasStored, Same(p), SameStorage(p)
  PROVE  TabInv(p)'
<1>1. EverStored \subseteq EverStored' /\ stored \subseteq stored'
  BY EverGrows DEF Grown
<1>2. SourcesOf(p)'
  BY <1>1 DEF TabInv, SourcesOf, Same, Grown
<1>3. BasedOf(p)'
  BY <1>1, SyncConstants DEF TabInv, BasedOf, Same, SameStorage, Grown, Alone
<1>4. AttemptOf(p)'
  BY <1>1 DEF TabInv, AttemptOf, Same, Grown, Alone
<1>5. ResolvingOf(p)' /\ SavingOf(p)'
  BY DEF TabInv, ResolvingOf, SavingOf, Same
<1>6. SettlingOf(p)'
  BY <1>1 DEF TabInv, SettlingOf, Same, Grown
<1>7. KeptOf(p)'
  BY <1>1 DEF TabInv, KeptOf, Same, SameStorage, Quiet, Alone
<1> QED BY <1>2, <1>3, <1>4, <1>5, <1>6, <1>7 DEF TabInv

-----------------------------------------------------------------------------
(* What a step does to its own tab                                         *)

\* The worker's record and the bases of the browsers come from the worker.
FromWorker == server \in stored /\ BaseWasStored

LEMMA ElsewhereInv == ASSUME Inv, ChangeElsewhere \/ DeleteElsewhere PROVE Inv'
<1>1. Types'
  BY ChangeElsewhereTypes, DeleteElsewhereTypes DEF Inv
<1>2. Grown
  BY GrownStep DEF Inv, Next
<1>3. (server \in stored)' /\ BaseWasStored'
  BY DEF Inv, ChangeElsewhere, DeleteElsewhere, Store, storageVars, BaseWasStored
<1>4. \A p \in Tab : Same(p) /\ SameStorage(p)
  BY DEF ChangeElsewhere, DeleteElsewhere, storageVars, tabVars, Same, SameStorage
<1>5. \A p \in Tab : TabInv(p)'
  BY <1>2, <1>4, SameInv DEF Inv
<1> QED BY <1>1, <1>3, <1>5 DEF Inv

\* As long as the worker has the Project, every base was stored.
LEMMA Based == ASSUME Inv, NEW t \in Tab, ~gone PROVE base[BrowserOf[t]] \in stored
  BY SyncConstants DEF Inv, BaseWasStored

\* An answer changes nothing else of the attempt.
LEMMA AnsweredFields ==
  ASSUME Types, NEW t \in Tab, save[t] \in Attempts, NEW kind, NEW rec,
         save' = Answered(t, kind, rec)
  PROVE  /\ save'[t].pc = "answered" /\ save'[t].reply.kind = kind /\ save'[t].reply.rec = rec
         /\ save'[t].local = save[t].local /\ save'[t].first = save[t].first
         /\ save'[t].again = save[t].again
<1>1. save'[t] = [save[t] EXCEPT !.pc = "answered", !.reply = [kind |-> kind, rec |-> rec]]
  BY DEF Answered, Types, SavingTypes
<1> QED BY <1>1 DEF Attempts

LEMMA PutInv ==
  ASSUME Inv, NEW t \in Tab, Put(t), Grown PROVE FromWorker' /\ TabInv(t)'
<1> DEFINE rec == [save[t].local EXCEPT !.rev = @ + 1]
<1>1. TabInv(t) /\ Types /\ save[t] \in Attempts /\ save[t].pc = "sent"
  BY AttemptType DEF Inv, Put
<1>2. /\ rec.snap = save[t].local.snap /\ gone' = gone
      /\ server' \in stored' /\ stored \subseteq stored' /\ EverStored \subseteq EverStored'
  BY <1>1, EverGrows DEF Inv, Put, Store, Grown, Attempts, Record
<1>3. FromWorker'
  BY <1>2 DEF Inv, Put, storageVars, BaseWasStored, FromWorker
<1>4. \/ /\ server \in stored'
         /\ \/ gone /\ save' = Answered(t, "missing", server)
            \/ ~gone /\ save' = Answered(t, "stale", server)
      \/ /\ rec \in stored' /\ ~gone
         /\ save' = [save EXCEPT ![t].pc = "written"] \/ save' = Answered(t, "saved", rec)
  BY DEF Inv, Put, Store
<1>5. rec \in stored' /\ ~gone => save[t].first.snap \subseteq EverStored'
  BY <1>1, <1>2 DEF TabInv, AttemptOf, EverStored
<1> HIDE DEF rec
<1>6. /\ save'[t].local = save[t].local /\ save'[t].first = save[t].first
      /\ save'[t].again = save[t].again /\ save'[t].pc # "none"
      /\ \/ save'[t].pc = "answered" /\ save'[t].reply.rec = server /\ server \in stored'
            /\ \/ gone /\ save'[t].reply.kind = "missing"
               \/ ~gone /\ save'[t].reply.kind = "stale"
         \/ save'[t].pc = "answered" /\ save'[t].reply.rec = rec /\ rec \in stored'
            /\ ~gone /\ save'[t].reply.kind = "saved"
         \/ save'[t].pc = "written" /\ rec \in stored' /\ ~gone
  BY <1>1, <1>4, AnsweredFields DEF Types, SavingTypes, Attempts
<1>7. SourcesOf(t)'
  BY <1>1, <1>2, <1>6 DEF TabInv, SourcesOf, Put, bounds
<1>8. BasedOf(t)'
  BY <1>1, <1>2, <1>6, Based DEF TabInv, BasedOf, Put, storageVars
<1>9. AttemptOf(t)'
  BY <1>1, <1>2, <1>5, <1>6 DEF TabInv, AttemptOf
<1>10. ResolvingOf(t)' /\ SavingOf(t)'
  BY <1>1, <1>6 DEF TabInv, ResolvingOf, SavingOf, Put, bounds
<1>11. SettlingOf(t)' /\ KeptOf(t)'
  BY <1>1, <1>2, <1>6 DEF TabInv, SettlingOf, KeptOf, Quiet, Put, bounds, storageVars
<1> QED BY <1>3, <1>7, <1>8, <1>9, <1>10, <1>11 DEF TabInv

LEMMA AnswerInv ==
  ASSUME Inv, NEW t \in Tab, Answer(t), Grown PROVE FromWorker' /\ TabInv(t)'
<1>1. TabInv(t) /\ Types /\ save[t] \in Attempts /\ save[t].pc = "written"
  BY AttemptType DEF Inv, Answer
<1>2. /\ FromWorker' /\ stored' = stored /\ server \in stored /\ EverStored' = EverStored
      /\ gone' = gone
  BY DEF Inv, Answer, storageVars, BaseWasStored, EverStored, FromWorker
<1>3. \/ gone /\ save' = Answered(t, "missing", server)
      \/ ~gone /\ save' = Answered(t, "stale", server)
      \/ ~gone /\ save' = Answered(t, "saved", server)
  BY DEF Answer
<1>4. /\ save'[t].local = save[t].local /\ save'[t].first = save[t].first
      /\ save'[t].again = save[t].again
      /\ save'[t].pc = "answered" /\ save'[t].reply.rec = server
      /\ save'[t].reply.kind = "missing" <=> gone
  BY <1>1, <1>3, AnsweredFields
<1>5. SourcesOf(t)'
  BY <1>1, <1>2, <1>4 DEF TabInv, SourcesOf, Answer
<1>6. BasedOf(t)'
  BY <1>1, <1>2, <1>4, Based DEF TabInv, BasedOf, Answer, storageVars
<1>7. AttemptOf(t)'
  BY <1>1, <1>2, <1>4 DEF TabInv, AttemptOf
<1>8. ResolvingOf(t)' /\ SavingOf(t)'
  BY <1>1, <1>4 DEF TabInv, ResolvingOf, SavingOf, Answer, bounds
<1>9. SettlingOf(t)' /\ KeptOf(t)'
  BY <1>1, <1>2, <1>4 DEF TabInv, SettlingOf, KeptOf, Quiet, Answer, bounds, storageVars
<1> QED BY <1>2, <1>5, <1>6, <1>7, <1>8, <1>9 DEF TabInv

LEMMA ReadInv ==
  ASSUME Inv, NEW t \in Tab, NEW k \in Loader, Read(t, k), Grown
  PROVE  FromWorker' /\ TabInv(t)'
<1>1. TabInv(t) /\ Types /\ load[t][k].pc = "sent"
  BY DEF Inv, Read
<1>2. /\ FromWorker' /\ stored' = stored /\ server \in stored /\ EverStored' = EverStored
      /\ gone' = gone
  BY DEF Inv, Read, remoteVars, storageVars, BaseWasStored, EverStored, FromWorker
<1>3. /\ \/ gone /\ load'[t][k] = [pc |-> "missing"]
         \/ load'[t][k] = [pc |-> "answered", rec |-> server]
      /\ \A l \in Loader : l # k => load'[t][l] = load[t][l]
  BY <1>1 DEF Read, Types, LoadTypes
<1>4. SourcesOf(t)'
  BY <1>1, <1>2, <1>3 DEF TabInv, SourcesOf, Read
<1>5. BasedOf(t)' /\ AttemptOf(t)'
  BY <1>1, <1>2 DEF TabInv, BasedOf, AttemptOf, Read, storageVars
<1>6. ResolvingOf(t)' /\ SavingOf(t)'
  BY <1>1, <1>3 DEF TabInv, ResolvingOf, SavingOf, Read, bounds, Loader
<1>7. SettlingOf(t)' /\ KeptOf(t)'
  BY <1>1, <1>2 DEF TabInv, SettlingOf, KeptOf, Quiet, Read, bounds, storageVars
<1> QED BY <1>2, <1>4, <1>5, <1>6, <1>7 DEF TabInv

LEMMA OpenInv ==
  ASSUME Inv, NEW t \in Tab, Open(t), Grown PROVE FromWorker' /\ TabInv(t)'
<1>1. TabInv(t) /\ Types /\ page[t] = "closed" /\ page'[t] = "opening"
  BY DEF Inv, Open, Types, ShownTypes
<1>2. FromWorker' /\ stored' = stored /\ EverStored' = EverStored /\ gone' = gone
  BY DEF Inv, Open, remoteVars, storageVars, BaseWasStored, EverStored, FromWorker
<1>3. load'[t]["start"] = [pc |-> "sent"] /\ load'[t]["event"] = load[t]["event"]
  BY <1>1 DEF Open, Types, LoadTypes, Loader
<1>4. SourcesOf(t)'
  BY <1>1, <1>2, <1>3 DEF TabInv, SourcesOf, Open, Loader
<1>5. BasedOf(t)' /\ AttemptOf(t)'
  BY <1>1, <1>2 DEF TabInv, BasedOf, AttemptOf, Open, storageVars
<1>6. ResolvingOf(t)'
  BY <1>1, <1>3 DEF TabInv, ResolvingOf, Open
<1>7. SavingOf(t)' /\ SettlingOf(t)' /\ KeptOf(t)'
  BY <1>1, <1>2 DEF TabInv, ResolvingOf, SavingOf, SettlingOf, KeptOf, Quiet, Open
<1> QED BY <1>2, <1>4, <1>5, <1>6, <1>7 DEF TabInv

\* The page opens on a record that was stored, or on the local copy: that says
\* that it is local as long as the worker has the Project.
LEMMA StartedInv ==
  ASSUME Inv, NEW t \in Tab, NEW rec, NEW shown, Started(t, rec, shown), Grown,
         rec \in stored \/ shown = "LOCAL" \/ gone,
         shown = "LOCAL" => rec = cache'[BrowserOf[t]],
         base'[BrowserOf[t]] = base[BrowserOf[t]] \/ base'[BrowserOf[t]] \in stored
  PROVE  (server \in stored)' /\ gone' = gone /\ TabInv(t)'
<1>1. TabInv(t) /\ Types /\ page[t] = "opening" /\ page'[t] = "open"
  BY DEF Inv, Started, Types, ShownTypes
<1>2. (server \in stored)' /\ stored' = stored /\ EverStored' = EverStored /\ gone' = gone
  BY DEF Inv, Started, remoteVars, EverStored
<1>3. load'[t]["start"] = NoLoad /\ load'[t]["event"] = load[t]["event"]
  BY <1>1 DEF Started, Types, LoadTypes, Loader
<1>4. plan'[t] = rec.snap /\ status'[t] = shown /\ save'[t] = save[t] /\ save[t].pc = "none"
      /\ conflict'[t] = conflict[t] /\ ~conflict[t].set
  BY <1>1 DEF Started, Types, ShownTypes, TabInv, ResolvingOf
<1>5. SourcesOf(t)'
  BY <1>1, <1>2, <1>3 DEF TabInv, SourcesOf, Started, Loader, NoLoad
<1>6. BasedOf(t)' /\ AttemptOf(t)' /\ SavingOf(t)'
  BY <1>1, <1>2, <1>4 DEF TabInv, BasedOf, AttemptOf, SavingOf
<1>7. ResolvingOf(t)'
  BY <1>1, <1>3 DEF TabInv, ResolvingOf, Started
<1>8. SettlingOf(t)'
  BY <1>1, <1>2, <1>4, StoredShown DEF SettlingOf
<1>9. KeptOf(t)'
  BY <1>4 DEF KeptOf
<1> QED BY <1>2, <1>5, <1>6, <1>7, <1>8, <1>9 DEF TabInv

LEMMA StartLoadedInv ==
  ASSUME Inv, NEW t \in Tab, StartLoaded(t), Grown PROVE FromWorker' /\ TabInv(t)'
<1> DEFINE rec == load[t]["start"].rec
<1>1. rec \in stored
  BY DEF StartLoaded, Inv, TabInv, SourcesOf, Loader
<1>2. cache'[BrowserOf[t]] = rec /\ base' = [base EXCEPT ![BrowserOf[t]] = rec]
      /\ base'[BrowserOf[t]] = rec
  BY SyncConstants DEF StartLoaded, WriteRemoteCache, WriteLocal, Inv, Types, StorageTypes
<1>3. Started(t, rec, "SAVED")
  BY DEF StartLoaded
<1> HIDE DEF rec
<1>4. (server \in stored)' /\ gone' = gone /\ TabInv(t)'
  BY <1>1, <1>2, <1>3, StartedInv
<1>5. BaseWasStored'
  BY <1>1, <1>2, <1>4 DEF Inv, StartLoaded, Started, remoteVars, BaseWasStored, Types,
                          StorageTypes
<1> QED BY <1>4, <1>5 DEF FromWorker

LEMMA StartLocalInv ==
  ASSUME Inv, NEW t \in Tab, StartMissing(t) \/ StartFailed(t), Grown
  PROVE  FromWorker' /\ TabInv(t)'
<1>1. cache' = cache /\ base' = base
  BY DEF StartMissing, StartFailed
<1>2. \/ Started(t, cache[BrowserOf[t]], "SAVED") /\ gone
      \/ Started(t, cache[BrowserOf[t]], "LOCAL")
  BY DEF StartMissing, StartFailed, Inv, TabInv, SourcesOf, Loader
<1>3. (server \in stored)' /\ gone' = gone /\ TabInv(t)'
  BY <1>1, <1>2, StartedInv
<1>4. BaseWasStored'
  BY <1>1, <1>3 DEF Inv, StartMissing, StartFailed, Started, remoteVars, BaseWasStored
<1> QED BY <1>3, <1>4 DEF FromWorker

LEMMA CloseInv ==
  ASSUME Inv, NEW t \in Tab, Close(t), Grown PROVE FromWorker' /\ TabInv(t)'
<1>1. FromWorker' /\ stored' = stored /\ gone' = gone
  BY DEF Inv, Close, remoteVars, storageVars, BaseWasStored, FromWorker
<1>2. /\ page'[t] = "closed" /\ save'[t] = NoSave /\ conflict'[t] = NoConflict
      /\ ~skip'[t] /\ ~timer'[t] /\ queue'[t] = 0 /\ \A k \in Loader : load'[t][k] = NoLoad
  BY DEF Inv, Close, Types, ShownTypes, SavingTypes, LoadTypes
<1>3. BasedOf(t)'
  BY <1>1, <1>2 DEF Inv, TabInv, BasedOf, Close, storageVars, NoSave
<1>4. TabInv(t)'
  BY <1>2, <1>3 DEF TabInv, SourcesOf, AttemptOf, ResolvingOf, SavingOf, SettlingOf, KeptOf, Quiet,
             NoSave, NoConflict, NoLoad, Loader
<1> QED BY <1>1, <1>4

LEMMA DoEditInv ==
  ASSUME Inv, NEW t \in Tab, NEW e \in Edit, DoEdit(t, e), Grown
  PROVE  FromWorker' /\ TabInv(t)'
<1>1. TabInv(t) /\ Types /\ stored' = stored /\ EverStored' = EverStored /\ gone' = gone
  BY DEF Inv, DoEdit, remoteVars, EverStored
<1>2. FromWorker'
  BY DEF Inv, DoEdit, remoteVars, storageVars, BaseWasStored, FromWorker
<1>3. SourcesOf(t)' /\ BasedOf(t)' /\ AttemptOf(t)'
  BY <1>1 DEF TabInv, SourcesOf, BasedOf, AttemptOf, DoEdit, storageVars
<1>4. ResolvingOf(t)'
  BY <1>1 DEF TabInv, ResolvingOf, DoEdit, Publish, Types, SavingTypes
<1>5. page'[t] = "open" /\ events'[t] = 0 => timer'[t]
  BY <1>1 DEF TabInv, ResolvingOf, DoEdit, Publish, Types, SavingTypes
<1>6. SavingOf(t)' /\ SettlingOf(t)'
  BY <1>5 DEF SavingOf, SettlingOf
<1>7. KeptOf(t)'
  BY <1>1, <1>5 DEF TabInv, KeptOf, Quiet, DoEdit, storageVars
<1> QED BY <1>2, <1>3, <1>4, <1>6, <1>7 DEF TabInv

LEMMA TimerFiresInv ==
  ASSUME Inv, NEW t \in Tab, TimerFires(t), Grown PROVE FromWorker' /\ TabInv(t)'
<1>1. TabInv(t) /\ Types /\ timer[t] /\ stored' = stored /\ EverStored' = EverStored
      /\ gone' = gone
  BY DEF Inv, TimerFires, remoteVars, EverStored
<1>2. FromWorker'
  BY DEF Inv, TimerFires, remoteVars, storageVars, BaseWasStored, FromWorker
<1>3. ~timer'[t] /\ queue'[t] > 0
  BY DEF Inv, TimerFires, Types, SavingTypes
<1>4. SourcesOf(t)' /\ BasedOf(t)' /\ AttemptOf(t)'
  BY <1>1 DEF TabInv, SourcesOf, BasedOf, AttemptOf, TimerFires, storageVars
<1>5. ResolvingOf(t)'
  BY <1>1 DEF TabInv, ResolvingOf, TimerFires, bounds
<1>6. SavingOf(t)' /\ SettlingOf(t)'
  BY <1>3 DEF SavingOf, SettlingOf
<1>7. KeptOf(t)'
  BY <1>1, <1>3 DEF TabInv, KeptOf, Quiet, TimerFires, storageVars, bounds
<1> QED BY <1>2, <1>4, <1>5, <1>6, <1>7 DEF TabInv

LEMMA SaveStartInv ==
  ASSUME Inv, NEW t \in Tab, SaveStart(t), Grown PROVE FromWorker' /\ TabInv(t)'
<1>1. TabInv(t) /\ Types /\ queue[t] > 0 /\ stored' = stored /\ EverStored' = EverStored
      /\ gone' = gone
  BY DEF Inv, SaveStart, remoteVars, EverStored
<1>2. FromWorker'
  BY DEF Inv, SaveStart, remoteVars, BaseWasStored, FromWorker
<1>3. page[t] = "open" /\ page'[t] = "open" /\ save[t].pc = "none"
  BY <1>1 DEF TabInv, ResolvingOf, SaveStart, Types, SavingTypes
<1>4. CASE conflict[t].set
  <2>1. save' = save /\ status' = status /\ cache' = cache
    BY <1>4 DEF SaveStart
  <2>2. SourcesOf(t)' /\ BasedOf(t)' /\ AttemptOf(t)' /\ SavingOf(t)'
    BY <1>1, <1>3, <2>1 DEF TabInv, SourcesOf, BasedOf, AttemptOf, SavingOf, SaveStart
  <2>3. ResolvingOf(t)'
    BY <1>1, <1>3, <2>1 DEF TabInv, ResolvingOf, SaveStart, bounds
  <2>4. SettlingOf(t)' /\ KeptOf(t)'
    BY <1>1, <1>3, <1>4, <2>1 DEF TabInv, ResolvingOf, SettlingOf, KeptOf, Quiet, SaveStart, bounds
  <2> QED BY <1>2, <2>2, <2>3, <2>4 DEF TabInv
<1>5. CASE ~conflict[t].set
  <2>1. /\ save'[t].pc = "sent" /\ save'[t].local = LocalRecord(t)
        /\ save'[t].first = LocalRecord(t) /\ status'[t] = "SYNC"
        /\ cache'[BrowserOf[t]] = LocalRecord(t)
    BY <1>1, <1>5, SyncConstants DEF SaveStart, WriteLocal, Types, SavingTypes, ShownTypes,
       StorageTypes
  <2>2. SourcesOf(t)' /\ BasedOf(t)' /\ AttemptOf(t)'
    BY <1>1, <1>5, <2>1 DEF TabInv, SourcesOf, BasedOf, AttemptOf, SaveStart
  <2>3. ResolvingOf(t)'
    BY <1>1, <1>3, <1>5, <2>1 DEF TabInv, ResolvingOf, SaveStart, bounds
  <2>4. save'[t].first.snap = plan'[t]
    BY <2>1 DEF LocalRecord, SaveStart
  <2>5. SavingOf(t)' /\ SettlingOf(t)'
    BY <2>1, <2>4 DEF SavingOf, SettlingOf
  <2>6. KeptOf(t)'
    BY <1>5, <2>1 DEF KeptOf, SaveStart
  <2> QED BY <1>2, <2>2, <2>3, <2>5, <2>6 DEF TabInv
<1> QED BY <1>4, <1>5

\* A page with a save under way displays no conflict, and is open.
LEMMA Saving ==
  ASSUME Inv, NEW t \in Tab, save[t].pc # "none"
  PROVE  /\ ~conflict[t].set /\ page[t] = "open" /\ save[t] \in Attempts
         /\ events[t] = 0 => status[t] = "SYNC"
  BY AttemptType DEF Inv, TabInv, ResolvingOf

LEMMA SaveDoneInv ==
  ASSUME Inv, NEW t \in Tab, SaveDone(t), Grown PROVE FromWorker' /\ TabInv(t)'
<1> DEFINE rec == save[t].reply.rec
<1>1. /\ TabInv(t) /\ Types /\ stored' = stored /\ EverStored' = EverStored /\ gone' = gone
      /\ save[t].pc = "answered" /\ save[t].reply.kind = "saved"
  BY DEF Inv, SaveDone, remoteVars, EverStored
<1>2. rec \in stored /\ save[t].first.snap \subseteq EverStored
  BY <1>1 DEF TabInv, SourcesOf, AttemptOf
<1>3. FromWorker' /\ base'[BrowserOf[t]] \in stored
  BY <1>2, SyncConstants DEF Inv, SaveDone, remoteVars, WriteRemoteCache, WriteLocal,
     BaseWasStored, FromWorker, Types, StorageTypes
<1>4. save'[t].pc = "none" /\ ~conflict[t].set /\ page[t] = "open"
      /\ status'[t] \in {"MERGED", "SAVED"}
  BY <1>1, Saving DEF SaveDone, Types, SavingTypes, ShownTypes, NoSave
<1>5. SourcesOf(t)' /\ BasedOf(t)' /\ AttemptOf(t)' /\ SavingOf(t)'
  BY <1>1, <1>3, <1>4 DEF TabInv, SourcesOf, BasedOf, AttemptOf, SavingOf, SaveDone
<1>6. ResolvingOf(t)'
  BY <1>1, <1>4 DEF TabInv, ResolvingOf, SaveDone, bounds
<1>7. SettlingOf(t)'
  BY <1>1, <1>2, Saving DEF TabInv, SavingOf, SettlingOf, SaveDone, bounds
<1>8. KeptOf(t)'
  BY <1>4 DEF KeptOf, SaveDone
<1> QED BY <1>3, <1>5, <1>6, <1>7, <1>8 DEF TabInv

LEMMA SaveMergeInv ==
  ASSUME Inv, NEW t \in Tab, SaveMerge(t), Grown PROVE FromWorker' /\ TabInv(t)'
<1> DEFINE remote == save[t].reply.rec
           merged == Merged(BaseOf(t), save[t].local, remote)
<1>1. /\ TabInv(t) /\ Types /\ stored' = stored /\ EverStored' = EverStored /\ gone' = gone
      /\ save[t].pc = "answered" /\ ~save[t].again /\ save[t] \in Attempts
      /\ save[t].reply.kind = "stale"
  BY RefusedTypes DEF Inv, SaveMerge, Refused, Mergeable, remoteVars, EverStored
<1>2. FromWorker'
  BY DEF Inv, SaveMerge, remoteVars, BaseWasStored, FromWorker
<1>3. /\ ~gone \/ Alone(t) => BaseOf(t) \in stored
      /\ save[t].local = save[t].first
  BY <1>1, Based DEF BaseOf, TabInv, BasedOf, AttemptOf
<1>4. ~gone \/ Alone(t) =>
        save[t].first.snap \subseteq merged.snap \/ save[t].first.snap \subseteq EverStored
  BY <1>3, StoredShown DEF Merged
<1>5. /\ save' = [save EXCEPT ![t] =
           [@ EXCEPT !.pc = "sent", !.local = merged, !.base = remote, !.again = TRUE]]
      /\ cache' = [cache EXCEPT ![BrowserOf[t]] = merged]
  BY DEF SaveMerge, WriteLocal
<1> HIDE DEF merged, remote
<1>6. /\ save'[t].pc = "sent" /\ save'[t].first = save[t].first
      /\ save'[t].local = merged /\ save'[t].again
      /\ cache'[BrowserOf[t]] = merged
  BY <1>1, <1>5, SyncConstants DEF Types, SavingTypes, StorageTypes, Attempts
<1>7. SourcesOf(t)' /\ BasedOf(t)'
  BY <1>1, <1>6 DEF TabInv, SourcesOf, BasedOf, SaveMerge
<1>8. AttemptOf(t)'
  BY <1>1, <1>4, <1>6 DEF AttemptOf, Alone
<1>9. ResolvingOf(t)'
  BY <1>1, <1>6, Saving DEF TabInv, ResolvingOf, SaveMerge, bounds
<1>10. SavingOf(t)' /\ SettlingOf(t)'
  BY <1>1, <1>6 DEF TabInv, SavingOf, SettlingOf, SaveMerge, bounds
<1>11. KeptOf(t)'
  BY <1>1, <1>6, Saving DEF KeptOf, Quiet, SaveMerge
<1> QED BY <1>2, <1>7, <1>8, <1>9, <1>10, <1>11 DEF TabInv

LEMMA SaveConflictInv ==
  ASSUME Inv, NEW t \in Tab, SaveConflict(t), Grown
  PROVE  FromWorker' /\ TabInv(t)'
<1> DEFINE local == save[t].local
           remote == IF save[t].reply.kind = "missing" THEN local ELSE save[t].reply.rec
<1>1. /\ TabInv(t) /\ Types /\ stored' = stored /\ EverStored' = EverStored /\ gone' = gone
      /\ save[t].pc = "answered" /\ page[t] = "open"
  BY Saving DEF Inv, SaveConflict, Refused, remoteVars, EverStored
<1>2. FromWorker'
  BY DEF Inv, SaveConflict, remoteVars, BaseWasStored, FromWorker
<1>3. remote \in stored \/ gone
  BY <1>1 DEF TabInv, SourcesOf
<1>4. /\ conflict'[t] = [set |-> TRUE, local |-> local, remote |-> remote]
      /\ save'[t].pc = "none" /\ status'[t] = "CONFLICT"
  BY <1>1 DEF SaveConflict, Types, SavingTypes, LoadTypes, ShownTypes, NoSave
<1>5. KeptOf(t)'
  BY <1>1, <1>4 DEF TabInv, KeptOf, SaveConflict
<1> HIDE DEF local, remote
<1>6. SourcesOf(t)' /\ BasedOf(t)' /\ AttemptOf(t)' /\ SavingOf(t)'
  BY <1>1, <1>3, <1>4 DEF TabInv, SourcesOf, BasedOf, AttemptOf, SavingOf, SaveConflict
<1>7. ResolvingOf(t)'
  BY <1>1, <1>4 DEF TabInv, ResolvingOf, SaveConflict
<1>8. SettlingOf(t)'
  BY <1>4 DEF SettlingOf
<1> QED BY <1>2, <1>5, <1>6, <1>7, <1>8 DEF TabInv

LEMMA SaveLostInv ==
  ASSUME Inv, NEW t \in Tab, SaveLost(t), Grown PROVE FromWorker' /\ TabInv(t)'
<1>1. /\ TabInv(t) /\ Types /\ stored' = stored /\ EverStored' = EverStored /\ gone' = gone
      /\ ~conflict[t].set /\ page[t] = "open" /\ save[t].pc # "none"
  BY Saving DEF Inv, SaveLost, remoteVars, EverStored
<1>2. FromWorker'
  BY DEF Inv, SaveLost, remoteVars, storageVars, BaseWasStored, FromWorker
<1>3. save'[t].pc = "none" /\ status'[t] = "LOCAL"
  BY <1>1 DEF SaveLost, Types, SavingTypes, ShownTypes, NoSave
<1>4. SourcesOf(t)' /\ BasedOf(t)' /\ AttemptOf(t)' /\ SavingOf(t)'
  BY <1>1, <1>3 DEF TabInv, SourcesOf, BasedOf, AttemptOf, SavingOf, SaveLost, storageVars
<1>5. ResolvingOf(t)'
  BY <1>1, <1>3 DEF TabInv, ResolvingOf, SaveLost
<1>6. SettlingOf(t)'
  BY <1>3 DEF SettlingOf
<1>7. ASSUME Alone(t), events[t] = 0, ~timer[t], queue[t] = 0
      PROVE  plan[t] \subseteq cache[BrowserOf[t]].snap \cup EverStored
  <2>1. plan[t] = save[t].first.snap /\ cache[BrowserOf[t]] = save[t].local
    BY <1>1, <1>7 DEF TabInv, SavingOf, KeptOf
  <2>2. save[t].first.snap \subseteq save[t].local.snap \/ save[t].first.snap \subseteq EverStored
    BY <1>1, <1>7 DEF TabInv, AttemptOf
  <2> QED BY <2>1, <2>2
<1>8. KeptOf(t)'
  BY <1>1, <1>3, <1>7 DEF KeptOf, Quiet, Alone, SaveLost, storageVars
<1> QED BY <1>2, <1>4, <1>5, <1>6, <1>8 DEF TabInv

LEMMA RemoteEventInv ==
  ASSUME Inv, NEW t \in Tab, RemoteEvent(t), Grown PROVE FromWorker' /\ TabInv(t)'
<1>1. TabInv(t) /\ Types /\ stored' = stored /\ EverStored' = EverStored /\ save[t].pc = "none"
      /\ gone' = gone
  BY DEF Inv, RemoteEvent, remoteVars, EverStored
<1>2. FromWorker'
  BY DEF Inv, RemoteEvent, remoteVars, storageVars, BaseWasStored, FromWorker
<1>3. events'[t] # 0
  BY <1>1 DEF RemoteEvent, Types, LoadTypes
<1>4. /\ load'[t]["start"] = load[t]["start"]
      /\ load'[t]["event"] = load[t]["event"] \/ load'[t]["event"] = [pc |-> "sent"]
  BY <1>1 DEF RemoteEvent, Types, LoadTypes, Loader
<1>5. SourcesOf(t)'
  BY <1>1, <1>4 DEF TabInv, SourcesOf, RemoteEvent, Loader
<1>6. BasedOf(t)' /\ AttemptOf(t)'
  BY <1>1 DEF TabInv, BasedOf, AttemptOf, RemoteEvent, storageVars
<1>7. ResolvingOf(t)'
  BY <1>1, <1>3 DEF TabInv, ResolvingOf, RemoteEvent
<1>8. SavingOf(t)' /\ SettlingOf(t)' /\ KeptOf(t)'
  BY <1>3 DEF SavingOf, SettlingOf, KeptOf
<1> QED BY <1>2, <1>5, <1>6, <1>7, <1>8 DEF TabInv

LEMMA AppliedInv ==
  ASSUME Inv, NEW t \in Tab, NEW rec, Applied(t, rec), load[t]["event"].pc # "none", Grown,
         base'[BrowserOf[t]] = base[BrowserOf[t]] \/ base'[BrowserOf[t]] \in stored
  PROVE  (server \in stored)' /\ gone' = gone /\ TabInv(t)'
<1>1. TabInv(t) /\ Types /\ stored' = stored /\ server' = server /\ EverStored' = EverStored
      /\ gone' = gone
  BY DEF Inv, Applied, remoteVars, EverStored
<1>2. events'[t] = events[t] /\ events[t] # 0
  BY <1>1 DEF Applied, TabInv, ResolvingOf
<1>3. load'[t]["start"] = load[t]["start"] /\ load'[t]["event"] = NoLoad
  BY <1>1 DEF Applied, Types, LoadTypes, Loader
<1>4. SourcesOf(t)'
  BY <1>1, <1>3 DEF TabInv, SourcesOf, Applied, Loader, NoLoad
<1>5. BasedOf(t)' /\ AttemptOf(t)'
  BY <1>1 DEF TabInv, BasedOf, AttemptOf, Applied
<1>6. ResolvingOf(t)'
  BY <1>1, <1>2 DEF TabInv, ResolvingOf, Applied
<1>7. SavingOf(t)' /\ SettlingOf(t)' /\ KeptOf(t)'
  BY <1>2 DEF SavingOf, SettlingOf, KeptOf
<1> QED BY <1>1, <1>4, <1>5, <1>6, <1>7 DEF TabInv, Inv

LEMMA EventLoadedInv ==
  ASSUME Inv, NEW t \in Tab, EventLoaded(t), Grown PROVE FromWorker' /\ TabInv(t)'
<1>1. load[t]["event"].rec \in stored
  BY DEF EventLoaded, Inv, TabInv, SourcesOf, Loader
<1>2. base'[BrowserOf[t]] \in stored
  BY <1>1, SyncConstants DEF EventLoaded, WriteRemoteCache, WriteLocal, Inv, Types, StorageTypes
<1>3. (server \in stored)' /\ gone' = gone /\ TabInv(t)'
  BY <1>2, AppliedInv DEF EventLoaded
<1>4. BaseWasStored'
  BY <1>1, <1>3 DEF Inv, EventLoaded, Applied, remoteVars, WriteRemoteCache, WriteLocal,
                    BaseWasStored, Types, StorageTypes
<1> QED BY <1>3, <1>4 DEF FromWorker

LEMMA EventLocalInv ==
  ASSUME Inv, NEW t \in Tab, EventLoadMissing(t) \/ EventLoadFailed(t), Grown
  PROVE  FromWorker' /\ TabInv(t)'
<1>1. base' = base
  BY DEF EventLoadMissing, EventLoadFailed
<1>2. (server \in stored)' /\ gone' = gone /\ TabInv(t)'
  BY <1>1, AppliedInv DEF EventLoadMissing, EventLoadFailed
<1>3. BaseWasStored'
  BY <1>1, <1>2 DEF Inv, EventLoadMissing, EventLoadFailed, Applied, remoteVars, BaseWasStored
<1> QED BY <1>2, <1>3 DEF FromWorker

LEMMA ChoiceInv ==
  ASSUME Inv, NEW t \in Tab, UseRemote(t) \/ RecoverBranch(t), Grown
  PROVE  FromWorker' /\ TabInv(t)'
<1>1. /\ TabInv(t) /\ Types /\ stored' = stored /\ server' = server /\ EverStored' = EverStored
      /\ conflict[t].set /\ gone' = gone
  BY DEF Inv, UseRemote, RecoverBranch, AcceptRemote, remoteVars, EverStored
<1>2. /\ conflict[t].remote \in stored \/ gone
      /\ page[t] = "open" /\ save[t].pc = "none"
  BY <1>1 DEF TabInv, SourcesOf, ResolvingOf
<1>3. FromWorker' /\ base'[BrowserOf[t]] = conflict[t].remote
  BY <1>1, <1>2, SyncConstants DEF Inv, UseRemote, RecoverBranch, AcceptRemote, WriteRemoteCache,
     WriteLocal, BaseWasStored, FromWorker, Types, StorageTypes
<1>4. ~conflict'[t].set /\ ~skip'[t] /\ save' = save
  BY <1>1 DEF UseRemote, RecoverBranch, AcceptRemote, NoConflict, Types, LoadTypes, SavingTypes
<1>5. SourcesOf(t)'
  BY <1>1, <1>4 DEF TabInv, SourcesOf, UseRemote, RecoverBranch
<1>6. BasedOf(t)' /\ AttemptOf(t)' /\ SavingOf(t)'
  BY <1>1, <1>2, <1>3, <1>4 DEF BasedOf, AttemptOf, SavingOf
<1>7. ResolvingOf(t)'
  BY <1>1, <1>2, <1>4 DEF TabInv, ResolvingOf, UseRemote, RecoverBranch, AcceptRemote
<1>8. SettlingOf(t)'
  BY <1>1, <1>2, StoredShown DEF SettlingOf, UseRemote, RecoverBranch, AcceptRemote, Types,
                                 ShownTypes, SavingTypes
<1>9. status'[t] \in {"SAVED", "SYNC"}
  BY <1>1 DEF UseRemote, RecoverBranch, Types, ShownTypes
<1>10. KeptOf(t)'
  BY <1>2, <1>4, <1>9 DEF KeptOf
<1> QED BY <1>3, <1>5, <1>6, <1>7, <1>8, <1>10 DEF TabInv

-----------------------------------------------------------------------------
(* The theorems                                                            *)

LEMMA InitInv == ASSUME Init PROVE Inv
<1>1. Types
  BY InitTypes
<1>2. server \in stored /\ BaseWasStored
  BY DEF Init, BaseWasStored
<1>3. \A t \in Tab : TabInv(t)
  BY SyncConstants DEF Init, TabInv, SourcesOf, BasedOf, AttemptOf, ResolvingOf, SavingOf,
     SettlingOf, KeptOf, Quiet, NoLoad, NoSave, NoConflict, Loader
<1> QED BY <1>1, <1>2, <1>3 DEF Inv

LEMMA OwnStep ==
  ASSUME Inv, NEW t \in Tab, PageNext(t) \/ WorkerNext(t), Grown
  PROVE  FromWorker' /\ TabInv(t)'
<1>1. CASE PageNext(t)
  BY <1>1, OpenInv, StartLoadedInv, StartLocalInv, CloseInv, DoEditInv, TimerFiresInv,
     SaveStartInv, SaveDoneInv, SaveMergeInv, SaveConflictInv, SaveLostInv, RemoteEventInv,
     EventLoadedInv, EventLocalInv, ChoiceInv DEF PageNext
<1>2. CASE WorkerNext(t)
  BY <1>2, PutInv, AnswerInv, ReadInv DEF WorkerNext
<1> QED BY <1>1, <1>2

LEMMA StepInv == ASSUME Inv, [Next]_vars PROVE Inv'
<1>1. CASE ChangeElsewhere \/ DeleteElsewhere
  BY <1>1, ElsewhereInv
<1>2. CASE \E t \in Tab : PageNext(t) \/ WorkerNext(t)
  <2>1. PICK t \in Tab : PageNext(t) \/ WorkerNext(t)
    BY <1>2
  <2>2. Next
    BY <2>1 DEF Next
  <2>3. Types' /\ Grown
    BY <2>2, StepTypes, GrownStep DEF Inv
  <2>4. FromWorker' /\ TabInv(t)'
    BY <2>1, <2>3, OwnStep
  <2>5. ASSUME NEW p \in Tab, p # t PROVE TabInv(p)'
    <3>1. TabInv(p) /\ Types /\ BaseWasStored
      BY DEF Inv
    <3>2. Same(p) /\ SameStorage(p)
      BY <2>1, <2>5, <3>1, OthersSame, OthersStorage
    <3> QED BY <2>3, <3>1, <3>2, SameInv
  <2> QED BY <2>3, <2>4, <2>5 DEF Inv, FromWorker
<1>3. CASE UNCHANGED vars
  <2>1. Types'
    BY <1>3, StutterTypes DEF Inv
  <2>2. Grown /\ (server \in stored)' /\ BaseWasStored'
    BY <1>3 DEF vars, remoteVars, storageVars, Grown, BaseWasStored, Inv
  <2>3. \A p \in Tab : Same(p) /\ SameStorage(p)
    BY <1>3 DEF vars, storageVars, tabVars, bounds, Same, SameStorage
  <2> QED BY <2>1, <2>2, <2>3, SameInv DEF Inv
<1> QED BY <1>1, <1>2, <1>3 DEF Next

LEMMA Always == Spec => []Inv
<1>1. Init => Inv
  BY InitInv
<1>2. Inv /\ [Next]_vars => Inv'
  BY StepInv
<1> QED BY <1>1, <1>2, PTL DEF Spec

\* Every variable has its type.
THEOREM SyncTypeCorrect == Spec => []TypeOK
<1>1. Types => TypeOK
  BY SMT DEF Types, RemoteTypes, StorageTypes, ShownTypes, SavingTypes, LoadTypes, TypeOK,
      PageState,
             Status, Attempts, Save
<1>2. Inv => TypeOK
  BY <1>1 DEF Inv
<1> QED BY <1>2, Always, PTL

\* The synchronization base a browser keeps in localStorage is a record the
\* worker stored, whichever tabs write it: the three-way merge of
\* ProjectStore.save (src/src/persistence/project-store.ts) never takes local
\* work for synchronized work.
THEOREM BaseIsRemote == Spec => []BaseWasStored
<1>1. Inv => BaseWasStored
  BY DEF Inv
<1> QED BY <1>1, Always, PTL

\* What a tab alone in its browser has that the worker never stored is in the
\* local copy when the page says LOCAL or displays a conflict (the save loop of
\* src/src/App.tsx and save of src/src/persistence/project-store.ts), after any
\* merges, lost answers, a deletion, and whether or not writeRecovery failed.
THEOREM LocalWorkKept == Spec => []LocalWorkIsKept
<1>1. Inv => LocalWorkIsKept
  BY DEF Inv, TabInv, KeptOf, LocalWorkIsKept
<1> QED BY <1>1, Always, PTL

\* A page that has reacted to no collaboration event and says SAVED, MERGED or
\* REMOTE with nothing under way shows what the worker stored: the status the
\* save loop of src/src/App.tsx displays is true.
THEOREM SavedIsStored == Spec => []SyncedWasStored
<1>1. ASSUME Inv, NEW t \in Tab, Quiet(t), events[t] = 0,
             status[t] \in {"SAVED", "MERGED", "REMOTE"}, ~gone
      PROVE  plan[t] \subseteq EverStored
  BY <1>1 DEF Inv, TabInv, SettlingOf, Quiet
<1>2. Inv => SyncedWasStored
  BY <1>1 DEF SyncedWasStored
<1> QED BY <1>2, Always, PTL

-----------------------------------------------------------------------------
(*****************************************************************************)
(* The browser's own copy of a Project: RecoveryEnvelope, for any number of  *)
(* writes and of torn items. EnvelopeInv says where each operation is: what  *)
(* the two items hold at every program counter between two storage calls     *)
(* (Operation), that a journal is never older than the committed envelope    *)
(* beside it (Pair), and that no record is numbered ahead of the writes      *)
(* (Numbered).                                                               *)
(*****************************************************************************)

\* A journal beside a whole committed envelope holds the same record or a later.
Pair ==
  Whole(committed) /\ Whole(journal) =>
    /\ journal.sequence >= committed.sequence
    /\ journal.value >= committed.value
    /\ journal.sequence = committed.sequence => journal.value = committed.value

Numbered ==
  /\ committed.value <= written /\ journal.value <= written
  /\ seen.value <= written /\ mine.value <= written /\ served <= written

Operation ==
  /\ pc = "promote" => JournalWins /\ seen = journal
  /\ pc = "promoted" => committed = seen /\ journal = seen /\ Whole(seen)
  /\ pc \in {"quarantine", "condemned", "emptied"} =>
       ~Whole(committed) /\ ~Whole(journal) /\ ~Whole(seen)
  /\ pc = "read" => seen.value = Selected.value
  /\ pc = "journal" => /\ Whole(mine)
                       /\ mine.sequence > committed.sequence
                       /\ committed.value < mine.value /\ journal.value < mine.value
                       /\ served < mine.value
  /\ pc = "commit" => /\ journal = mine /\ Whole(mine)
                      /\ mine.sequence > committed.sequence
                      /\ committed.value < mine.value
  /\ pc \in {"verify", "clean"} => committed = mine /\ journal = mine /\ Whole(mine)
  /\ pc = "clear" => committed = mine /\ Whole(mine)

EnvelopeInv == EnvelopeTypeOK /\ Pair /\ Numbered /\ Operation

-----------------------------------------------------------------------------
\* What the proofs need of the items, without their definition.
LEMMA ItemFacts ==
  /\ Missing \in Item /\ Broken \in Item /\ ~Whole(Missing) /\ ~Whole(Broken)
  /\ \A n \in Nat \ {0}, v \in Nat \ {0} :
       /\ Envelope(n, v) \in Item /\ Whole(Envelope(n, v))
       /\ Envelope(n, v).sequence = n /\ Envelope(n, v).value = v
  /\ \A e \in Item :
       /\ e.sequence \in Nat /\ e.value \in Nat
       /\ Whole(e) => e.sequence > 0 /\ e.value > 0
       /\ ~Whole(e) => e.sequence = 0 /\ e.value = 0
BY DEF Missing, Broken, Envelope, Item, Whole,
    Nothing

\* selectRecoveryEnvelope answers with one of the two items, the newest whole
\* one when there is one.
LEMMA SelectedFacts ==
  ASSUME committed \in Item, journal \in Item
  PROVE  /\ Selected \in Item
         /\ Selected = committed \/ Selected = journal
         /\ Whole(Selected) <=> Whole(committed) \/ Whole(journal)
         /\ Selected.sequence >= committed.sequence
         /\ Selected.sequence >= journal.sequence
         /\ JournalWins => Selected = journal
         /\ ~JournalWins /\ Whole(committed) => Selected = committed
<1>1. \/ JournalWins /\ Selected = journal
      \/ ~JournalWins /\ Whole(committed) /\ Selected = committed
      \/ ~JournalWins /\ ~Whole(committed) /\ Selected \in {committed, journal}
  BY DEF Selected
<1>2. committed.sequence \in Nat /\ journal.sequence \in Nat
  BY ItemFacts
<1>3. ~JournalWins => ~Whole(journal) \/ journal.sequence <= committed.sequence
  BY <1>2 DEF JournalWins
<1>4. ~Whole(journal) => journal.sequence = 0
  BY ItemFacts
<1>5. ~Whole(committed) => committed.sequence = 0
  BY ItemFacts
<1>6. Whole(journal) => journal.sequence > 0
  BY ItemFacts
<1> QED BY <1>1, <1>2, <1>3, <1>4, <1>5, <1>6 DEF JournalWins

LEMMA EnvelopeInitInv == EnvelopeInit => EnvelopeInv
<1> SUFFICES ASSUME EnvelopeInit PROVE EnvelopeInv
  OBVIOUS
<1>1. Missing \in Item /\ ~Whole(Missing) /\ Missing.value = 0
  BY ItemFacts
<1>2. EnvelopeTypeOK
  BY <1>1 DEF EnvelopeInit, EnvelopeTypeOK, Phase, Nothing
<1>3. Pair /\ Numbered
  BY <1>1 DEF EnvelopeInit, Pair, Numbered, Nothing
<1>4. Operation
  BY <1>1 DEF EnvelopeInit, Operation
<1> QED BY <1>2, <1>3, <1>4 DEF EnvelopeInv
LEMMA NextInv == EnvelopeInv /\ [EnvelopeNext]_envelopeVars => EnvelopeInv'
<1> SUFFICES ASSUME EnvelopeInv, [EnvelopeNext]_envelopeVars PROVE EnvelopeInv'
  OBVIOUS
<1> USE DEF EnvelopeInv, Items, Locals, history, Goto
<1>a. /\ committed \in Item /\ journal \in Item /\ seen \in Item /\ mine \in Item
      /\ committed.value \in Nat /\ journal.value \in Nat /\ seen.value \in Nat /\ mine.value \in Nat
      /\ committed.sequence \in Nat /\ journal.sequence \in Nat /\ mine.sequence \in Nat
  BY ItemFacts DEF EnvelopeTypeOK
<1>1. CASE BeginLoad
  <2>1. EnvelopeTypeOK'
    BY <1>a, <1>1, ItemFacts, SelectedFacts DEF BeginLoad, EnvelopeTypeOK,
        Phase, Nothing
  <2>2. Pair'
    BY <1>a, <1>1, ItemFacts, SelectedFacts DEF BeginLoad, EnvelopeTypeOK, Pair,
        Operation, JournalWins
  <2>3. Numbered'
    BY <1>a, <1>1, ItemFacts, SelectedFacts DEF BeginLoad, EnvelopeTypeOK, Numbered,
        Operation, Nothing
  <2>4. Operation'
    BY <1>a, <1>1, ItemFacts, SelectedFacts DEF BeginLoad, EnvelopeTypeOK, Operation,
        JournalWins, Numbered, Nothing, Selected
  <2> QED BY <2>1, <2>2, <2>3, <2>4
<1>2. CASE BeginSave
  <2>1. EnvelopeTypeOK'
    BY <1>a, <1>2, ItemFacts, SelectedFacts DEF BeginSave, EnvelopeTypeOK,
        Phase, Nothing
  <2>2. Pair'
    BY <1>a, <1>2, ItemFacts, SelectedFacts DEF BeginSave, EnvelopeTypeOK, Pair,
        Operation, JournalWins
  <2>3. Numbered'
    BY <1>a, <1>2, ItemFacts, SelectedFacts DEF BeginSave, EnvelopeTypeOK, Numbered,
        Operation, Nothing
  <2>4. Operation'
    BY <1>a, <1>2, ItemFacts, SelectedFacts DEF BeginSave, EnvelopeTypeOK, Operation,
        JournalWins, Numbered, Nothing, Selected
  <2> QED BY <2>1, <2>2, <2>3, <2>4
<1>3. CASE Inspect
  <2>1. EnvelopeTypeOK'
    BY <1>a, <1>3, ItemFacts, SelectedFacts DEF Inspect, EnvelopeTypeOK,
        Phase, Nothing
  <2>2. Pair'
    BY <1>a, <1>3, ItemFacts, SelectedFacts DEF Inspect, EnvelopeTypeOK, Pair,
        Operation, JournalWins
  <2>3. Numbered'
    BY <1>a, <1>3, ItemFacts, SelectedFacts DEF Inspect, EnvelopeTypeOK, Numbered,
        Operation, Nothing
  <2>4. Operation'
    <3>1. Selected' = Selected /\ seen' = Selected /\ (JournalWins => Selected = journal)
      BY <1>a, <1>3, SelectedFacts DEF Inspect, Selected, JournalWins
    <3>2. pc' \in {"promote", "quarantine", "read"}
      BY <1>3 DEF Inspect
    <3>3. pc' = "promote" => JournalWins'
      BY <1>3 DEF Inspect, JournalWins
    <3>4. pc' = "quarantine" => ~Whole(committed) /\ ~Whole(journal) /\ ~Whole(seen')
      BY <1>a, <1>3, <3>1, SelectedFacts DEF Inspect, Whole
    <3> QED BY <1>3, <3>1, <3>2, <3>3, <3>4 DEF Inspect, Operation
  <2> QED BY <2>1, <2>2, <2>3, <2>4
<1>4. CASE Promote
  <2>1. EnvelopeTypeOK'
    BY <1>a, <1>4, ItemFacts, SelectedFacts DEF Promote, EnvelopeTypeOK,
        Phase, Nothing
  <2>2. Pair'
    BY <1>a, <1>4, ItemFacts, SelectedFacts DEF Promote, EnvelopeTypeOK, Pair,
        Operation, JournalWins
  <2>3. Numbered'
    BY <1>a, <1>4, ItemFacts, SelectedFacts DEF Promote, EnvelopeTypeOK, Numbered,
        Operation, Nothing
  <2>4. Operation'
    BY <1>a, <1>4, ItemFacts, SelectedFacts DEF Promote, EnvelopeTypeOK, Operation,
        JournalWins, Numbered, Nothing, Selected
  <2> QED BY <2>1, <2>2, <2>3, <2>4
<1>5. CASE Promoted
  <2>1. EnvelopeTypeOK'
    BY <1>a, <1>5, ItemFacts, SelectedFacts DEF Promoted, EnvelopeTypeOK,
        Phase, Nothing
  <2>2. Pair'
    BY <1>a, <1>5, ItemFacts, SelectedFacts DEF Promoted, EnvelopeTypeOK, Pair,
        Operation, JournalWins
  <2>3. Numbered'
    BY <1>a, <1>5, ItemFacts, SelectedFacts DEF Promoted, EnvelopeTypeOK, Numbered,
        Operation, Nothing
  <2>4. Operation'
    BY <1>a, <1>5, ItemFacts, SelectedFacts DEF Promoted, EnvelopeTypeOK, Operation,
        JournalWins, Numbered, Nothing, Selected
  <2> QED BY <2>1, <2>2, <2>3, <2>4
<1>6. CASE Quarantine
  <2>1. EnvelopeTypeOK'
    BY <1>a, <1>6, ItemFacts, SelectedFacts DEF Quarantine, EnvelopeTypeOK,
        Phase, Nothing
  <2>2. Pair'
    BY <1>a, <1>6, ItemFacts, SelectedFacts DEF Quarantine, EnvelopeTypeOK, Pair,
        Operation, JournalWins
  <2>3. Numbered'
    BY <1>a, <1>6, ItemFacts, SelectedFacts DEF Quarantine, EnvelopeTypeOK, Numbered,
        Operation, Nothing
  <2>4. Operation'
    BY <1>a, <1>6, ItemFacts, SelectedFacts DEF Quarantine, EnvelopeTypeOK, Operation,
        JournalWins, Numbered, Nothing, Selected
  <2> QED BY <2>1, <2>2, <2>3, <2>4
<1>7. CASE Condemned
  <2>1. EnvelopeTypeOK'
    BY <1>a, <1>7, ItemFacts, SelectedFacts DEF Condemned, EnvelopeTypeOK,
        Phase, Nothing
  <2>2. Pair'
    BY <1>a, <1>7, ItemFacts, SelectedFacts DEF Condemned, EnvelopeTypeOK, Pair,
        Operation, JournalWins
  <2>3. Numbered'
    BY <1>a, <1>7, ItemFacts, SelectedFacts DEF Condemned, EnvelopeTypeOK, Numbered,
        Operation, Nothing
  <2>4. Operation'
    BY <1>a, <1>7, ItemFacts, SelectedFacts DEF Condemned, EnvelopeTypeOK, Operation,
        JournalWins, Numbered, Nothing, Selected
  <2> QED BY <2>1, <2>2, <2>3, <2>4
<1>8. CASE Emptied
  <2>1. EnvelopeTypeOK'
    BY <1>a, <1>8, ItemFacts, SelectedFacts DEF Emptied, EnvelopeTypeOK,
        Phase, Nothing
  <2>2. Pair'
    BY <1>a, <1>8, ItemFacts, SelectedFacts DEF Emptied, EnvelopeTypeOK, Pair,
        Operation, JournalWins
  <2>3. Numbered'
    BY <1>a, <1>8, ItemFacts, SelectedFacts DEF Emptied, EnvelopeTypeOK, Numbered,
        Operation, Nothing
  <2>4. Operation'
    BY <1>a, <1>8, ItemFacts, SelectedFacts DEF Emptied, EnvelopeTypeOK, Operation,
        JournalWins, Numbered, Nothing, Selected
  <2> QED BY <2>1, <2>2, <2>3, <2>4
<1>9. CASE ServeRead
  <2>1. EnvelopeTypeOK'
    BY <1>a, <1>9, ItemFacts, SelectedFacts DEF ServeRead, EnvelopeTypeOK,
        Phase, Nothing
  <2>2. Pair'
    BY <1>a, <1>9, ItemFacts, SelectedFacts DEF ServeRead, EnvelopeTypeOK, Pair,
        Operation, JournalWins
  <2>3. Numbered'
    BY <1>a, <1>9, ItemFacts, SelectedFacts DEF ServeRead, EnvelopeTypeOK, Numbered,
        Operation, Nothing
  <2>4. Operation'
    BY <1>a, <1>9, ItemFacts, SelectedFacts DEF ServeRead, EnvelopeTypeOK, Operation,
        JournalWins, Numbered, Nothing, Selected
  <2> QED BY <2>1, <2>2, <2>3, <2>4
<1>10. CASE SaveRead
  <2>1. EnvelopeTypeOK'
    BY <1>a, <1>10, ItemFacts, SelectedFacts DEF SaveRead, EnvelopeTypeOK,
        Phase, Nothing
  <2>2. Pair'
    BY <1>a, <1>10, ItemFacts, SelectedFacts DEF SaveRead, EnvelopeTypeOK, Pair,
        Operation, JournalWins
  <2>3. Numbered'
    BY <1>a, <1>10, ItemFacts, SelectedFacts DEF SaveRead, EnvelopeTypeOK, Numbered,
        Operation, Nothing
  <2>4. Operation'
    BY <1>a, <1>10, ItemFacts, SelectedFacts DEF SaveRead, EnvelopeTypeOK, Operation,
        JournalWins, Numbered, Nothing, Selected
  <2> QED BY <2>1, <2>2, <2>3, <2>4
<1>11. CASE BeginCache
  <2>1. EnvelopeTypeOK'
    BY <1>a, <1>11, ItemFacts, SelectedFacts DEF BeginCache, EnvelopeTypeOK,
        Phase, Nothing
  <2>2. Pair'
    BY <1>a, <1>11, ItemFacts, SelectedFacts DEF BeginCache, EnvelopeTypeOK, Pair,
        Operation, JournalWins
  <2>3. Numbered'
    BY <1>a, <1>11, ItemFacts, SelectedFacts DEF BeginCache, EnvelopeTypeOK, Numbered,
        Operation, Nothing
  <2>4. Operation'
    BY <1>a, <1>11, ItemFacts, SelectedFacts DEF BeginCache, EnvelopeTypeOK, Operation,
        JournalWins, Numbered, Nothing, Selected
  <2> QED BY <2>1, <2>2, <2>3, <2>4
<1>12. CASE Prior
  <2>1. EnvelopeTypeOK'
    BY <1>a, <1>12, ItemFacts, SelectedFacts DEF Prior, EnvelopeTypeOK, Phase,
        Nothing
  <2>2. Pair'
    BY <1>a, <1>12, ItemFacts, SelectedFacts DEF Prior, EnvelopeTypeOK, Pair,
        Operation, JournalWins
  <2>3. Numbered'
    BY <1>a, <1>12, ItemFacts, SelectedFacts DEF Prior, EnvelopeTypeOK, Numbered,
        Operation, Nothing
  <2>4. Operation'
    BY <1>a, <1>12, ItemFacts, SelectedFacts DEF Prior, EnvelopeTypeOK, Operation,
        JournalWins, Numbered, Nothing, Selected
  <2> QED BY <2>1, <2>2, <2>3, <2>4
<1>13. CASE WriteJournal
  <2>1. EnvelopeTypeOK'
    BY <1>a, <1>13, ItemFacts, SelectedFacts DEF WriteJournal, EnvelopeTypeOK,
        Phase, Nothing
  <2>2. Pair'
    BY <1>a, <1>13, ItemFacts, SelectedFacts DEF WriteJournal, EnvelopeTypeOK, Pair,
        Operation, JournalWins
  <2>3. Numbered'
    BY <1>a, <1>13, ItemFacts, SelectedFacts DEF WriteJournal, EnvelopeTypeOK,
        Numbered, Operation, Nothing
  <2>4. Operation'
    BY <1>a, <1>13, ItemFacts, SelectedFacts DEF WriteJournal, EnvelopeTypeOK,
        Operation, JournalWins, Numbered, Nothing, Selected
  <2> QED BY <2>1, <2>2, <2>3, <2>4
<1>14. CASE Commit
  <2>1. EnvelopeTypeOK'
    BY <1>a, <1>14, ItemFacts, SelectedFacts DEF Commit, EnvelopeTypeOK,
        Phase, Nothing
  <2>2. Pair'
    BY <1>a, <1>14, ItemFacts, SelectedFacts DEF Commit, EnvelopeTypeOK, Pair,
        Operation, JournalWins
  <2>3. Numbered'
    BY <1>a, <1>14, ItemFacts, SelectedFacts DEF Commit, EnvelopeTypeOK, Numbered,
        Operation, Nothing
  <2>4. Operation'
    BY <1>a, <1>14, ItemFacts, SelectedFacts DEF Commit, EnvelopeTypeOK, Operation,
        JournalWins, Numbered, Nothing, Selected
  <2> QED BY <2>1, <2>2, <2>3, <2>4
<1>15. CASE Verify
  <2>1. EnvelopeTypeOK'
    BY <1>a, <1>15, ItemFacts, SelectedFacts DEF Verify, EnvelopeTypeOK,
        Phase, Nothing
  <2>2. Pair'
    BY <1>a, <1>15, ItemFacts, SelectedFacts DEF Verify, EnvelopeTypeOK, Pair,
        Operation, JournalWins
  <2>3. Numbered'
    BY <1>a, <1>15, ItemFacts, SelectedFacts DEF Verify, EnvelopeTypeOK, Numbered,
        Operation, Nothing
  <2>4. Operation'
    BY <1>a, <1>15, ItemFacts, SelectedFacts DEF Verify, EnvelopeTypeOK, Operation,
        JournalWins, Numbered, Nothing, Selected
  <2> QED BY <2>1, <2>2, <2>3, <2>4
<1>16. CASE Clean
  <2>1. EnvelopeTypeOK'
    BY <1>a, <1>16, ItemFacts, SelectedFacts DEF Clean, EnvelopeTypeOK, Phase,
        Nothing
  <2>2. Pair'
    BY <1>a, <1>16, ItemFacts, SelectedFacts DEF Clean, EnvelopeTypeOK, Pair,
        Operation, JournalWins
  <2>3. Numbered'
    BY <1>a, <1>16, ItemFacts, SelectedFacts DEF Clean, EnvelopeTypeOK, Numbered,
        Operation, Nothing
  <2>4. Operation'
    BY <1>a, <1>16, ItemFacts, SelectedFacts DEF Clean, EnvelopeTypeOK, Operation,
        JournalWins, Numbered, Nothing, Selected
  <2> QED BY <2>1, <2>2, <2>3, <2>4
<1>17. CASE Clear
  <2>1. EnvelopeTypeOK'
    BY <1>a, <1>17, ItemFacts, SelectedFacts DEF Clear, EnvelopeTypeOK, Phase,
        Nothing
  <2>2. Pair'
    BY <1>a, <1>17, ItemFacts, SelectedFacts DEF Clear, EnvelopeTypeOK, Pair,
        Operation, JournalWins
  <2>3. Numbered'
    BY <1>a, <1>17, ItemFacts, SelectedFacts DEF Clear, EnvelopeTypeOK, Numbered,
        Operation, Nothing
  <2>4. Operation'
    BY <1>a, <1>17, ItemFacts, SelectedFacts DEF Clear, EnvelopeTypeOK, Operation,
        JournalWins, Numbered, Nothing, Selected
  <2> QED BY <2>1, <2>2, <2>3, <2>4
<1>18. CASE BeginPurge
  <2>1. EnvelopeTypeOK'
    BY <1>a, <1>18, ItemFacts, SelectedFacts DEF BeginPurge, EnvelopeTypeOK,
        Phase, Nothing
  <2>2. Pair'
    BY <1>a, <1>18, ItemFacts, SelectedFacts DEF BeginPurge, EnvelopeTypeOK, Pair,
        Operation, JournalWins
  <2>3. Numbered'
    BY <1>a, <1>18, ItemFacts, SelectedFacts DEF BeginPurge, EnvelopeTypeOK, Numbered,
        Operation, Nothing
  <2>4. Operation'
    BY <1>a, <1>18, ItemFacts, SelectedFacts DEF BeginPurge, EnvelopeTypeOK, Operation,
        JournalWins, Numbered, Nothing, Selected
  <2> QED BY <2>1, <2>2, <2>3, <2>4
<1>19. CASE Forget
  <2>1. EnvelopeTypeOK'
    BY <1>a, <1>19, ItemFacts, SelectedFacts DEF Forget, EnvelopeTypeOK,
        Phase, Nothing
  <2>2. Pair'
    BY <1>a, <1>19, ItemFacts, SelectedFacts DEF Forget, EnvelopeTypeOK, Pair,
        Operation, JournalWins
  <2>3. Numbered'
    BY <1>a, <1>19, ItemFacts, SelectedFacts DEF Forget, EnvelopeTypeOK, Numbered,
        Operation, Nothing
  <2>4. Operation'
    BY <1>a, <1>19, ItemFacts, SelectedFacts DEF Forget, EnvelopeTypeOK, Operation,
        JournalWins, Numbered, Nothing, Selected
  <2> QED BY <2>1, <2>2, <2>3, <2>4
<1>20. CASE Forgot
  <2>1. EnvelopeTypeOK'
    BY <1>a, <1>20, ItemFacts, SelectedFacts DEF Forgot, EnvelopeTypeOK,
        Phase, Nothing
  <2>2. Pair'
    BY <1>a, <1>20, ItemFacts, SelectedFacts DEF Forgot, EnvelopeTypeOK, Pair,
        Operation, JournalWins
  <2>3. Numbered'
    BY <1>a, <1>20, ItemFacts, SelectedFacts DEF Forgot, EnvelopeTypeOK, Numbered,
        Operation, Nothing
  <2>4. Operation'
    BY <1>a, <1>20, ItemFacts, SelectedFacts DEF Forgot, EnvelopeTypeOK, Operation,
        JournalWins, Numbered, Nothing, Selected
  <2> QED BY <2>1, <2>2, <2>3, <2>4
<1>21. CASE Forgotten
  <2>1. EnvelopeTypeOK'
    BY <1>a, <1>21, ItemFacts, SelectedFacts DEF Forgotten, EnvelopeTypeOK,
        Phase, Nothing
  <2>2. Pair'
    BY <1>a, <1>21, ItemFacts, SelectedFacts DEF Forgotten, EnvelopeTypeOK, Pair,
        Operation, JournalWins
  <2>3. Numbered'
    BY <1>a, <1>21, ItemFacts, SelectedFacts DEF Forgotten, EnvelopeTypeOK, Numbered,
        Operation, Nothing
  <2>4. Operation'
    BY <1>a, <1>21, ItemFacts, SelectedFacts DEF Forgotten, EnvelopeTypeOK, Operation,
        JournalWins, Numbered, Nothing, Selected
  <2> QED BY <2>1, <2>2, <2>3, <2>4
<1>22. CASE Throw
  <2>1. EnvelopeTypeOK'
    BY <1>a, <1>22, ItemFacts, SelectedFacts DEF Throw, EnvelopeTypeOK, Phase,
        Nothing
  <2>2. Pair'
    BY <1>a, <1>22, ItemFacts, SelectedFacts DEF Throw, EnvelopeTypeOK, Pair,
        Operation, JournalWins
  <2>3. Numbered'
    BY <1>a, <1>22, ItemFacts, SelectedFacts DEF Throw, EnvelopeTypeOK, Numbered,
        Operation, Nothing
  <2>4. Operation'
    BY <1>a, <1>22, ItemFacts, SelectedFacts DEF Throw, EnvelopeTypeOK, Operation,
        JournalWins, Numbered, Nothing, Selected
  <2> QED BY <2>1, <2>2, <2>3, <2>4
<1>23. CASE Crash
  <2>1. EnvelopeTypeOK'
    BY <1>a, <1>23, ItemFacts, SelectedFacts DEF Crash, EnvelopeTypeOK, Phase,
        Nothing
  <2>2. Pair'
    BY <1>a, <1>23, ItemFacts, SelectedFacts DEF Crash, EnvelopeTypeOK, Pair,
        Operation, JournalWins
  <2>3. Numbered'
    BY <1>a, <1>23, ItemFacts, SelectedFacts DEF Crash, EnvelopeTypeOK, Numbered,
        Operation, Nothing
  <2>4. Operation'
    BY <1>a, <1>23, ItemFacts, SelectedFacts DEF Crash, EnvelopeTypeOK, Operation,
        JournalWins, Numbered, Nothing, Selected
  <2> QED BY <2>1, <2>2, <2>3, <2>4
<1>24. CASE Tear
  <2>1. EnvelopeTypeOK'
    <3>1. committed' \in Item /\ journal' \in Item /\ evidence' \in BOOLEAN
      BY <1>24, ItemFacts DEF Tear, EnvelopeTypeOK
    <3>2. tears' \in Nat /\ pc' \in Phase
      BY <1>24 DEF Tear, EnvelopeTypeOK, Phase
    <3> QED BY <1>24, <3>1, <3>2 DEF Tear, EnvelopeTypeOK
  <2>2. Pair'
    BY <1>a, <1>24, ItemFacts, SelectedFacts DEF Tear, EnvelopeTypeOK, Pair, Operation,
        JournalWins
  <2>3. Numbered'
    BY <1>a, <1>24, ItemFacts, SelectedFacts DEF Tear, EnvelopeTypeOK, Numbered,
        Operation, Nothing
  <2>4. Operation'
    BY <1>a, <1>24, ItemFacts, SelectedFacts DEF Tear, EnvelopeTypeOK, Operation,
        JournalWins, Numbered, Nothing, Selected
  <2> QED BY <2>1, <2>2, <2>3, <2>4
<1>25. CASE Damage
  <2>1. EnvelopeTypeOK'
    BY <1>a, <1>25, ItemFacts, SelectedFacts DEF Damage, EnvelopeTypeOK,
        Phase, Nothing
  <2>2. Pair'
    BY <1>a, <1>25, ItemFacts, SelectedFacts DEF Damage, EnvelopeTypeOK, Pair,
        Operation, JournalWins
  <2>3. Numbered'
    BY <1>a, <1>25, ItemFacts, SelectedFacts DEF Damage, EnvelopeTypeOK, Numbered,
        Operation, Nothing
  <2>4. Operation'
    BY <1>a, <1>25, ItemFacts, SelectedFacts DEF Damage, EnvelopeTypeOK, Operation,
        JournalWins, Numbered, Nothing, Selected
  <2> QED BY <2>1, <2>2, <2>3, <2>4
<1>26. CASE UNCHANGED envelopeVars
  BY <1>26 DEF envelopeVars, EnvelopeTypeOK, Pair, Numbered, Operation, JournalWins,
      Selected
<1> QED
  BY <1>1, <1>2, <1>3, <1>4, <1>5, <1>6, <1>7, <1>8, <1>9, <1>10, <1>11, <1>12, <1>13, <1>14,
      <1>15, <1>16, <1>17, <1>18, <1>19, <1>20, <1>21, <1>22, <1>23, <1>24, <1>25,
      <1>26 DEF EnvelopeNext, ReadLocal, Write, PurgeLocal, Fault

\* Every variable keeps its type, for any number of writes and torn items.
THEOREM EnvelopeTypeCorrect == EnvelopeSpec => []EnvelopeTypeOK
<1>1. EnvelopeInv => EnvelopeTypeOK
  BY DEF EnvelopeInv
<1> QED BY <1>1, EnvelopeInitInv, NextInv, PTL DEF EnvelopeSpec

-----------------------------------------------------------------------------
(* Refinement *)

\* Losing the journal, whatever it held, brings the committed envelope back.
LEMMA JournalGoes ==
  ASSUME EnvelopeInv, committed' = committed, journal' \in {Missing, Broken}, served' = served
  PROVE  [Copy!CopyNext]_Copy!copyVars
<1>1. ~Whole(journal') /\ journal'.value = 0 /\ journal' \in Item
  BY ItemFacts
<1>2. ~JournalWins'
  BY <1>1 DEF JournalWins
<1>3. Selected'.value = committed.value
  BY <1>1, <1>2, ItemFacts DEF Selected, EnvelopeInv, EnvelopeTypeOK
<1>4. CASE JournalWins
  BY <1>2, <1>3, <1>4 DEF Copy!CopyNext, Copy!Lose, Nothing,
      Copy!Nothing
<1>5. CASE ~JournalWins
  <2>1. Selected.value = committed.value
    <3>1. CASE Whole(committed)
      BY <1>5, <3>1 DEF Selected
    <3>2. CASE ~Whole(committed)
      <4>1. ~Whole(journal)
        BY <1>5, <3>2, ItemFacts DEF JournalWins, EnvelopeInv, EnvelopeTypeOK
      <4> QED BY <3>2, <4>1, SelectedFacts, ItemFacts DEF EnvelopeInv, EnvelopeTypeOK
    <3> QED BY <3>1, <3>2
  <2> QED BY <1>2, <1>3, <1>5, <2>1 DEF Copy!copyVars
<1> QED BY <1>4, <1>5

\* Losing the committed envelope leaves the journal, which holds the same
\* record or a later one when there is one.
LEMMA LocalGoes ==
  ASSUME EnvelopeInv, committed' \in {Missing, Broken}, journal' = journal, served' = served
  PROVE  [Copy!CopyNext]_Copy!copyVars
<1>1. ~Whole(committed') /\ committed'.value = 0 /\ committed'.sequence = 0 /\ committed' \in Item
  BY ItemFacts
<1>2. committed \in Item /\ journal \in Item
  BY DEF EnvelopeInv, EnvelopeTypeOK
<1>3. Copy!Nothing = 0 /\ Nothing = 0
  BY DEF Copy!Nothing, Nothing
<1>4. (IF JournalWins' THEN committed'.value ELSE Nothing) = 0
  BY <1>1, <1>3
<1>5. CASE Whole(journal)
  <2>1. JournalWins' /\ Selected'.value = journal.value
    BY <1>1, <1>2, <1>5, ItemFacts DEF JournalWins, Selected
  <2>2. Selected.value = journal.value
    <3>1. CASE JournalWins
      BY <3>1 DEF Selected
    <3>2. CASE ~JournalWins
      <4>1. Whole(committed)
        BY <1>2, <1>5, <3>2, ItemFacts DEF JournalWins
      <4>2. journal.sequence = committed.sequence
        BY <1>2, <1>5, <3>2, <4>1, ItemFacts DEF JournalWins, EnvelopeInv, Pair
      <4> QED BY <1>5, <3>2, <4>1, <4>2 DEF Selected, EnvelopeInv, Pair
    <3> QED BY <3>1, <3>2
  <2> QED BY <1>3, <1>4, <2>1, <2>2 DEF Copy!CopyNext, Copy!Settle
<1>6. CASE ~Whole(journal)
  <2>1. Selected' \in {committed', journal'} /\ Selected'.value = 0
    BY <1>1, <1>2, <1>6, ItemFacts DEF JournalWins, Selected
  <2> QED BY <1>3, <1>4, <2>1 DEF Copy!CopyNext, Copy!Lose
<1> QED BY <1>5, <1>6

\* With all its steps, crashes and damaged bytes, the envelope is one record
\* that is replaced at once and read back as it is (ImplementsCopy).
THEOREM EnvelopeImplementsCopy == EnvelopeSpec => ImplementsCopy
<1>1. EnvelopeInit => Copy!CopyInit
  BY ItemFacts DEF EnvelopeInit, Copy!CopyInit, Selected,
      JournalWins, Nothing, Copy!Nothing
<1>2. EnvelopeInv /\ [EnvelopeNext]_envelopeVars => [Copy!CopyNext]_Copy!copyVars
  <2> SUFFICES ASSUME EnvelopeInv, [EnvelopeNext]_envelopeVars PROVE [Copy!CopyNext]_Copy!copyVars
    OBVIOUS
  <2> USE DEF Items, Locals, history, Goto
  <2>1. CASE UNCHANGED <<committed, journal, served>>
    BY <2>1 DEF Copy!copyVars, Selected, JournalWins
  <2>2. CASE journal' \in {Missing, Broken} /\ committed' = committed /\ served' = served
    BY <2>2, JournalGoes
  <2>3. CASE committed' \in {Missing, Broken} /\ journal' = journal /\ served' = served
    BY <2>3, LocalGoes
  <2>4. CASE Promote \/ Commit
    <3>1. committed' = journal /\ journal' = journal /\ served' = served /\ Whole(journal)
      BY <2>4 DEF Promote, Commit, EnvelopeInv, Operation, JournalWins
    <3>2. JournalWins
      BY <2>4 DEF Promote, Commit, EnvelopeInv, Operation, JournalWins
    <3>3. ~JournalWins' /\ Selected' = journal /\ Selected = journal
      BY <3>1, <3>2, ItemFacts DEF JournalWins, Selected, EnvelopeInv,
          EnvelopeTypeOK
    <3> QED BY <3>1, <3>3 DEF Copy!CopyNext, Copy!Settle, Nothing,
        Copy!Nothing
  <2>5. CASE WriteJournal
    <3>1. journal' = mine /\ committed' = committed /\ served' = served /\ Whole(mine)
      BY <2>5 DEF WriteJournal, EnvelopeInv, Operation
    <3>2. JournalWins' /\ Selected' = mine
      BY <2>5, <3>1 DEF WriteJournal, EnvelopeInv, Operation, JournalWins,
          Selected
    <3>3. mine.value > committed.value /\ mine.value > journal.value /\ mine.value > served
      BY <2>5, ItemFacts DEF WriteJournal, EnvelopeInv, Operation, EnvelopeTypeOK
    <3>4. mine.value \in Nat /\ mine.value > 0
      BY <2>5, <3>1, ItemFacts DEF EnvelopeInv, EnvelopeTypeOK
    <3>5. Selected = committed \/ Selected = journal
      BY SelectedFacts DEF EnvelopeInv, EnvelopeTypeOK
    <3>6. committed.value \in {Selected.value, IF JournalWins THEN committed.value ELSE Nothing, Nothing}
      <4>1. CASE JournalWins
        BY <4>1
      <4>2. CASE ~JournalWins /\ Whole(committed)
        BY <4>2 DEF Selected
      <4>3. CASE ~Whole(committed)
        BY <4>3, ItemFacts DEF EnvelopeInv, EnvelopeTypeOK, Nothing
      <4> QED BY <4>1, <4>2, <4>3
    <3> QED BY <3>1, <3>2, <3>3, <3>4, <3>5, <3>6
            DEF Copy!CopyNext, Copy!Replace, Nothing,
            Copy!Nothing
  <2>6. CASE ServeRead
    <3>1. committed' = committed /\ journal' = journal /\ served' = Selected.value
      BY <2>6 DEF ServeRead, EnvelopeInv, Operation
    <3> QED BY <3>1 DEF Copy!CopyNext, Copy!Serve, Selected,
        JournalWins
  <2>7. CASE ReadLocal
    BY <2>1, <2>2, <2>3, <2>4, <2>6, <2>7
       DEF ReadLocal, BeginLoad, BeginSave, Inspect,
       Promoted, Quarantine, Condemned, Emptied,
       SaveRead
  <2>8. CASE Write
    BY <2>1, <2>2, <2>4, <2>5, <2>8
       DEF Write, BeginCache, Prior, Verify, Clean,
       Clear
  <2>9. CASE PurgeLocal
    BY <2>1, <2>2, <2>3, <2>9 DEF PurgeLocal, BeginPurge, Forget,
        Forgot, Forgotten
  <2>10. CASE Fault
    BY <2>1, <2>2, <2>3, <2>10 DEF Fault, Throw, Crash, Tear,
        Damage
  <2>11. CASE UNCHANGED envelopeVars
    BY <2>1, <2>11 DEF envelopeVars
  <2> QED BY <2>7, <2>8, <2>9, <2>10, <2>11 DEF EnvelopeNext
<1> QED BY <1>1, <1>2, EnvelopeInitInv, NextInv, PTL DEF EnvelopeSpec, ImplementsCopy,
    Copy!CopySpec

-----------------------------------------------------------------------------
(* Durability *)

\* Durable is not inductive.  With nothing torn since the last record was
\* stored whole, that record or a later one is in the committed envelope
\* itself, so that tearing either item leaves the other.
Stored ==
  kept # Nothing /\ ~hurt =>
    /\ tears = 0 => Whole(committed) /\ committed.value >= kept
    /\ tears = 1 => Whole(Selected) /\ Selected.value >= kept

\* A purge begins by giving the record up.
Forgiven == pc \in {"forget", "forgot", "forgotten"} => kept = Nothing

\* Once a record was stored whole, a page that ends anywhere finds it or a
\* later one again, unless two items were torn or bytes changed since (Durable).
THEOREM EnvelopeDurable == EnvelopeSpec => []Durable
<1>1. EnvelopeInit => Stored /\ Forgiven
  BY DEF EnvelopeInit, Stored, Forgiven, Nothing
<1>4. Forgiven /\ [EnvelopeNext]_envelopeVars => Forgiven'
  BY DEF Forgiven, EnvelopeNext, envelopeVars, history, Goto,
         ReadLocal, BeginLoad, BeginSave, Inspect,
         Promote, Promoted, Quarantine, Condemned,
         Emptied, ServeRead, SaveRead,
         Write, BeginCache, Prior, WriteJournal,
         Commit, Verify, Clean, Clear,
         PurgeLocal, BeginPurge, Forget, Forgot,
         Forgotten,
         Fault, Throw, Crash, Tear, Damage
<1>2. EnvelopeInv /\ EnvelopeInv' /\ Stored /\ Forgiven /\ [EnvelopeNext]_envelopeVars => Stored'
  <2> SUFFICES ASSUME EnvelopeInv, EnvelopeInv', Stored, Forgiven, [EnvelopeNext]_envelopeVars PROVE Stored'
    OBVIOUS
  <2> USE DEF Items, Locals, history, Goto
  <2>a. /\ committed \in Item /\ journal \in Item /\ mine \in Item /\ seen \in Item
        /\ committed' \in Item /\ journal' \in Item
        /\ kept \in Nat /\ tears \in Nat
    BY DEF EnvelopeInv, EnvelopeTypeOK
  <2>b. /\ committed.value \in Nat /\ journal.value \in Nat /\ mine.value \in Nat
        /\ ~Whole(Missing) /\ ~Whole(Broken)
    BY <2>a, ItemFacts
  <2>c. Whole(committed) => Whole(Selected) /\ Selected.value >= committed.value
    BY <2>a, <2>b, SelectedFacts DEF JournalWins, Selected, EnvelopeInv, Pair
  <2>1. CASE UNCHANGED <<committed, journal, kept, hurt, tears>>
    BY <2>1 DEF Stored, Selected, JournalWins
  <2>2. CASE Promote \/ Commit
    <3>1. Whole(committed') /\ committed'.value = kept' /\ tears' = 0
      BY <2>2 DEF Promote, Commit, EnvelopeInv, Operation, JournalWins
    <3> QED BY <2>a, <2>b, <2>2, <3>1, ItemFacts DEF Stored
  <2>3. CASE WriteJournal
    <3>1. JournalWins' /\ Selected' = mine /\ Whole(mine)
      BY <2>3 DEF WriteJournal, EnvelopeInv, Operation, JournalWins,
          Selected
    <3>2. Selected.value < mine.value
      BY <2>a, <2>3, SelectedFacts DEF WriteJournal, EnvelopeInv, Operation
    <3>3. Selected.value \in Nat
      BY <2>a, <2>b, SelectedFacts
    <3> QED BY <2>a, <2>b, <2>3, <3>1, <3>2, <3>3 DEF WriteJournal, Stored
  <2>4. CASE Promoted \/ Clean
    <3>1. Whole(committed) /\ committed = journal /\ committed' = committed /\ journal' = Missing
      BY <2>4 DEF Promoted, Clean, EnvelopeInv, Operation
    <3>2. Selected' = committed /\ Selected = committed
      BY <2>b, <3>1 DEF Selected, JournalWins
    <3> QED BY <2>4, <3>1, <3>2 DEF Promoted, Clean, Stored
  <2>5. CASE Condemned \/ Emptied
    <3>1. ~Whole(committed) /\ ~Whole(Selected)
      BY <2>a, <2>5, SelectedFacts DEF Condemned, Emptied, EnvelopeInv,
          Operation
    <3>2. UNCHANGED <<kept, hurt, tears>>
      BY <2>5 DEF Condemned, Emptied
    <3> QED BY <3>1, <3>2 DEF Stored
  <2>6. CASE PurgeLocal
    BY <2>6 DEF PurgeLocal, BeginPurge, Forget, Forgot,
        Forgotten, Forgiven, Stored
  <2>7. CASE Tear
    <3> SUFFICES ASSUME kept # Nothing, ~hurt, tears = 0
                 PROVE  Whole(Selected') /\ Selected'.value >= kept
      BY <2>a, <2>7 DEF Tear, Stored
    <3>1. Whole(committed) /\ committed.value >= kept
      BY DEF Stored
    <3>2. CASE pc = "journal"
      <4>1. committed' = committed /\ journal' = Broken
        BY <2>7, <3>2 DEF Tear
      <4>2. Selected' = committed
        BY <2>b, <3>1, <4>1 DEF Selected, JournalWins
      <4> QED BY <3>1, <4>2
    <3>3. CASE pc \in {"promote", "commit"}
      <4>1. Whole(journal) /\ journal.value >= committed.value /\ journal' = journal /\ committed' = Broken
        BY <2>a, <2>b, <2>7, <3>1, <3>3 DEF Tear, EnvelopeInv, Operation, Pair,
            JournalWins
      <4>2. journal.sequence > committed'.sequence
        BY <2>a, <4>1, ItemFacts
      <4>3. Selected' = journal
        BY <4>1, <4>2 DEF Selected, JournalWins
      <4> QED BY <2>a, <2>b, <3>1, <4>1, <4>3
    <3>4. CASE pc = "quarantine"
      BY <3>1, <3>4 DEF EnvelopeInv, Operation
    <3> QED BY <2>7, <3>2, <3>3, <3>4 DEF Tear
  <2>8. CASE Damage
    BY <2>8 DEF Damage, Stored
  <2>9. CASE ReadLocal
    BY <2>1, <2>2, <2>4, <2>5, <2>9
       DEF ReadLocal, BeginLoad, BeginSave, Inspect,
       Quarantine, ServeRead, SaveRead
  <2>10. CASE Write
    BY <2>1, <2>2, <2>3, <2>4, <2>10 DEF Write, BeginCache, Prior,
        Verify, Clear
  <2>11. CASE Fault
    BY <2>1, <2>7, <2>8, <2>11 DEF Fault, Throw, Crash
  <2>12. CASE UNCHANGED envelopeVars
    BY <2>1, <2>12 DEF envelopeVars
  <2> QED BY <2>6, <2>9, <2>10, <2>11, <2>12 DEF EnvelopeNext
<1>3. EnvelopeInv /\ Stored => Durable
  <2> SUFFICES ASSUME EnvelopeInv, Stored, kept # Nothing, ~hurt, tears <= 1
               PROVE  Whole(Selected) /\ Selected.value >= kept
    BY DEF Durable
  <2>1. committed \in Item /\ journal \in Item /\ kept \in Nat /\ tears \in Nat
    BY DEF EnvelopeInv, EnvelopeTypeOK
  <2>2. committed.value \in Nat /\ journal.value \in Nat
    BY <2>1, ItemFacts
  <2>3. CASE tears = 0
    <3>1. Whole(committed) /\ committed.value >= kept
      BY <2>3 DEF Stored
    <3> QED BY <2>1, <2>2, <3>1, SelectedFacts DEF JournalWins, Selected,
        EnvelopeInv, Pair
  <2>4. CASE tears = 1
    BY <2>4 DEF Stored
  <2> QED BY <2>1, <2>3, <2>4
<1> QED BY <1>1, <1>2, <1>3, <1>4, EnvelopeInitInv, NextInv, PTL DEF EnvelopeSpec

-----------------------------------------------------------------------------
(* No replacement *)

\* A copy that was had and not purged has left a trace, and the steps that take
\* items away come after what replaces them or says that they were there.
Traced ==
  /\ owned => evidence \/ committed # Missing \/ journal # Missing
  /\ pc = "quarantine" => committed # Missing \/ journal # Missing
  /\ pc \in {"condemned", "emptied"} => evidence
  /\ pc \in {"forget", "forgot", "forgotten"} => ~owned

\* A page that opens without the worker starts a new record in the place of one
\* it has had only when that one was purged (NoReplacement).
THEOREM EnvelopeNotReplaced == EnvelopeSpec => NoReplacement
<1> USE DEF Items, Locals, history, Goto
<1>1. EnvelopeInit => Traced
  BY DEF EnvelopeInit, Traced
<1>2. EnvelopeInv /\ Traced /\ [EnvelopeNext]_envelopeVars => Traced'
  <2> SUFFICES ASSUME EnvelopeInv, Traced, [EnvelopeNext]_envelopeVars PROVE Traced'
    OBVIOUS
  <2>a. ~Whole(Missing) /\ Broken # Missing
    BY DEF Whole, Missing, Broken
  <2>1. CASE Inspect
    <3>1. Selected.state = "quarantined" => committed # Missing \/ journal # Missing
      BY DEF Selected, Missing
    <3> QED BY <2>1, <3>1 DEF Inspect, Traced
  <2>2. CASE Promote \/ Promoted \/ WriteJournal \/ Commit \/ Clean \/ Clear
    BY <2>a, <2>2 DEF Promote, Promoted, WriteJournal,
        Commit, Clean, Clear,
                      Traced, EnvelopeInv, Operation, JournalWins
  <2>3. CASE Quarantine \/ Condemned \/ Emptied
    BY <2>3 DEF Quarantine, Condemned, Emptied, Traced
  <2>4. CASE BeginLoad \/ BeginSave \/ ServeRead \/ SaveRead
    BY <2>4 DEF BeginLoad, BeginSave, ServeRead, SaveRead,
        Traced
  <2>5. CASE BeginCache \/ Prior \/ Verify
    BY <2>5 DEF BeginCache, Prior, Verify, Traced
  <2>6. CASE PurgeLocal
    BY <2>6 DEF PurgeLocal, BeginPurge, Forget, Forgot,
        Forgotten, Traced
  <2>7. CASE Throw \/ Crash
    BY <2>7 DEF Throw, Crash, Traced
  <2>8. CASE Tear \/ Damage
    BY <2>a, <2>8 DEF Tear, Damage, Traced
  <2>9. CASE UNCHANGED envelopeVars
    BY <2>9 DEF envelopeVars, Traced
  <2> QED BY <2>1, <2>2, <2>3, <2>4, <2>5, <2>6, <2>7, <2>8, <2>9
          DEF EnvelopeNext, ReadLocal, Write, Fault
<1>3. EnvelopeInv /\ Traced /\ [EnvelopeNext]_envelopeVars => [pc = "read" /\ pc' = "inspect" => ~owned]_envelopeVars
  <2> SUFFICES ASSUME EnvelopeInv, Traced, [EnvelopeNext]_envelopeVars, pc = "read", pc' = "inspect"
               PROVE  ~owned
    OBVIOUS
  <2>1. ServeRead
    BY DEF EnvelopeNext, envelopeVars, ReadLocal, BeginLoad, BeginSave,
        Inspect, Promote, Promoted, Quarantine,
           Condemned, Emptied, SaveRead, Write,
           BeginCache, Prior, WriteJournal, Commit,
           Verify,
           Clean, Clear, PurgeLocal, BeginPurge,
           Forget, Forgot, Forgotten,
           Fault, Throw, Crash, Tear, Damage
  <2>2. ~Whole(seen) /\ Selected.state # "quarantined" /\ ~evidence
    BY <2>1 DEF ServeRead
  <2>3. ~Whole(Selected)
    BY <2>2, ItemFacts, SelectedFacts DEF EnvelopeInv, EnvelopeTypeOK, Operation
  <2>4. ~Whole(committed) /\ ~Whole(journal) /\ committed \in Item /\ journal \in Item
    BY <2>3, SelectedFacts DEF EnvelopeInv, EnvelopeTypeOK
  <2>5. committed.state # "quarantined" /\ Selected = journal
    BY <2>2, <2>4 DEF Selected, JournalWins
  <2>6. \A e \in Item : ~Whole(e) /\ e.state # "quarantined" => e = Missing
    BY DEF Item, Whole, Missing, Nothing
  <2> QED BY <2>2, <2>4, <2>5, <2>6 DEF Traced
<1> QED BY <1>1, <1>2, <1>3, EnvelopeInitInv, NextInv, PTL DEF EnvelopeSpec,
    NoReplacement
=============================================================================
