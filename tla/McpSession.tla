----------------------------- MODULE McpSession -----------------------------
(***************************************************************************)
(* The session of an MCP server process and the file it keeps Projects in: *)
(*   packages/mcp-server/src/project-session.ts     createProjectSession   *)
(*   packages/mcp-server/src/project-repository.ts  the file repository    *)
(*                                                                         *)
(* The server answers the tool calls of its client side by side; what a    *)
(* call does between two awaits is one step, and so is each access to the  *)
(* file.  The process may end anywhere and is started again by its client. *)
(*                                                                         *)
(* A snapshot is the set of commands in it, an Incident Register the set   *)
(* of reports in it; registers of deviations and reviews go the same way   *)
(* through the session and are left out, as are cancellation, commands     *)
(* that end after they have awaited (scenario runs), reads, and dates.     *)
(***************************************************************************)
EXTENDS Naturals, Sequences

CONSTANTS
    Project, Default,    \* DEFAULT_PROJECT_ID, opened when a session begins
    Change, Report,      \* idempotency keys of commands and of reports
    Locked,              \* commands the planner refuses over a Lock, with a receipt
    Operational,         \* Projects with an accepted Plan to make a Runbook from
    Known,               \* Projects in the file at the start
    Call, Boot,          \* calls that may run side by side; the initialization
    Null,
    MaxCalls, MaxFailures, MaxRestarts      \* bounds

Request ==      [kind : {"open"}, project : Project]
           \cup [kind : {"change"}, key : Change]
           \cup [kind : {"report"}, key : Report]
           \cup [kind : {"inspect"}]

Caller   == Call \cup {Boot}
Register == (SUBSET Report) \cup {Null}
Record   == [id : Project, changes : SUBSET Change, register : Register]
Planner  == [id : Project, changes : SUBSET Change]

ASSUME SessionConstants ==
  /\ Default \in Project /\ Known \subseteq Project /\ Operational \subseteq Project
  /\ Locked \subseteq Change /\ Boot \notin Call
  /\ \A x \in Record \cup Planner \cup (SUBSET Report) : x # Null
  /\ {MaxCalls, MaxFailures, MaxRestarts} \subseteq Nat

VARIABLES
    file,        \* projects.json: the record of each Project, or Null
    queue,       \* writeQueue: callers whose save is queued or at work
    call,        \* where each call and the initialization are
    active,      \* activeProjectId
    record,      \* activeRecord
    planner,     \* the planner of the Project that was opened
    registers,   \* incidentRegisters
    started, failures, restarts,      \* bounded counters
    answered,    \* history: commands and reports that were answered without an error
    crossed,     \* history: calls were under way side by side that are not all commands
    mending      \* history: the call that began last is an open that began alone

memory == <<active, record, planner, registers>>
bounds == <<started, failures, restarts>>
manner == <<crossed, mending>>
vars   == <<file, queue, call, memory, bounds, answered, manner>>

Fresh(p) == [id |-> p, changes |-> {}, register |-> Null]

Idle == [pc |-> "idle", request |-> Null, rec |-> Fresh(Default), read |-> Null, then |-> "idle",
         before |-> Null, project |-> Default, as |-> "new", register |-> {}]

NoRegisters == [p \in Project |-> Null]

Init ==
  /\ file = [p \in Project |-> IF p \in Known THEN Fresh(p) ELSE Null]
  /\ queue = <<>> /\ call = [c \in Caller |-> Idle]
  /\ active = Default /\ record = Null /\ planner = Null /\ registers = NoRegisters
  /\ started = 0 /\ failures = 0 /\ restarts = 0 /\ answered = {}
  /\ crossed = FALSE /\ mending = FALSE

At(c, pc)   == call[c].pc = pc
Asks(c, k)  == call[c].request.kind = k
Goto(c, pc) == call' = [call EXCEPT ![c].pc = pc]

Busy == {c \in Call : ~At(c, "idle")}

\* A call that fails is answered with the error; initialize keeps its rejection.
Reject(c) == IF c = Boot THEN Goto(c, "failed") ELSE call' = [call EXCEPT ![c] = Idle]

Fails(c) ==
  /\ failures < MaxFailures /\ failures' = failures + 1
  /\ Reject(c)
  /\ UNCHANGED <<started, restarts>>

Answer(c) == call' = [call EXCEPT ![c] = Idle]

Done(c) == answered' = answered \cup
             {[project |-> call[c].project, key |-> call[c].request.key, as |-> call[c].as]}

-----------------------------------------------------------------------------
(* The file repository                                                     *)

\* save: the caller awaits its turn in the queue, then goes on at `then`.
Save(c, to) ==
  /\ queue' = Append(queue, c)
  /\ call' = [call EXCEPT ![c] = to]

ToSave(c, rec, then) == [call[c] EXCEPT !.pc = "queued", !.rec = rec, !.then = then]

\* The caller of the save before has gone on by then: its promise settles before
\* the file system answers again.
Turn(c) ==
  /\ queue # <<>> /\ Head(queue) = c
  /\ \A d \in Caller : call[d].pc \notin {"opened", "persisted", "created", "reported"}

\* readAll
ReadFile(c) ==
  /\ At(c, "queued") /\ Turn(c)
  /\ call' = [call EXCEPT ![c].pc = "writing", ![c].read = file]
  /\ UNCHANGED <<file, queue, memory, bounds, answered, manner>>

\* writeAll: a temporary file, renamed.
WriteFile(c) ==
  /\ At(c, "writing")
  /\ file' = [call[c].read EXCEPT ![call[c].rec.id] = call[c].rec]
  /\ queue' = Tail(queue)
  /\ call' = [call EXCEPT ![c].pc = call[c].then, ![c].read = Null]
  /\ UNCHANGED <<memory, bounds, answered, manner>>

\* Mutant: the queue does not go on after a save that failed.
SaveFailsForAll(c) ==
  /\ \/ At(c, "queued") /\ Turn(c)
     \/ At(c, "writing")
  /\ Fails(c)
  /\ UNCHANGED <<file, queue, memory, answered, manner>>

\* Reading or writing throws; the queue goes on.
SaveFails(c) ==
  /\ \/ At(c, "queued") /\ Turn(c)
     \/ At(c, "writing")
  /\ Fails(c)
  /\ queue' = Tail(queue)
  /\ UNCHANGED <<file, memory, answered, manner>>

-----------------------------------------------------------------------------
(* initialize and openProject                                              *)

\* A tool call arrives, whatever else is under way; the first one starts the
\* initialization.
Begin(c, r) ==
  /\ At(c, "idle") /\ started < MaxCalls
  /\ started' = started + 1
  /\ crossed' = (crossed \/ \E d \in Busy : {r.kind, call[d].request.kind} # {"change"})
  /\ mending' = (At(Boot, "ready") /\ Busy = {} /\ r.kind = "open")
  /\ call' = [call EXCEPT ![c].pc = "initialize", ![c].request = r,
                          ![Boot].pc = IF At(Boot, "idle") THEN "load" ELSE @]
  /\ UNCHANGED <<file, queue, memory, failures, restarts, answered>>

\* repository.load in initialize; a Project that is not there is seeded.
LoadDefault ==
  /\ At(Boot, "load")
  /\ IF file[Default] # Null
     THEN /\ call' = [call EXCEPT ![Boot].pc = "hydrate", ![Boot].rec = file[Default]]
          /\ UNCHANGED queue
     ELSE Save(Boot, ToSave(Boot, Fresh(Default), "hydrate"))
  /\ UNCHANGED <<file, memory, bounds, answered, manner>>

LoadFails(c) ==
  /\ At(c, "load")
  /\ Fails(c)
  /\ UNCHANGED <<file, queue, memory, answered, manner>>

First == [kind \in {"open", "change", "report", "inspect"} |->
            CASE kind = "open" -> "load" [] kind = "change" -> "execute" [] OTHER -> "bus"]

\* The call goes on once the session is initialized, or is answered the error
\* of the initialization.
Initialized(c) ==
  /\ At(c, "initialize")
  /\ \/ At(Boot, "ready") /\ Goto(c, First[call[c].request.kind])
     \/ At(Boot, "failed") /\ Answer(c)
  /\ UNCHANGED <<file, queue, memory, bounds, answered, manner>>

\* repository.load in openProject
LoadProject(c) ==
  /\ At(c, "load") /\ c # Boot
  /\ LET p == call[c].request.project
     IN  IF file[p] # Null
         THEN call' = [call EXCEPT ![c].pc = "hydrate", ![c].rec = file[p]]
         ELSE Answer(c)
  /\ UNCHANGED <<file, queue, memory, bounds, answered, manner>>

\* The session is what the file has again.
Mend == crossed' = FALSE /\ answered' = IF crossed THEN {} ELSE answered

\* Mutant: the record of the Project that was open stays.
HydratePlanner(c) ==
  /\ At(c, "hydrate")
  /\ LET rec == call[c].rec
     IN  /\ active' = rec.id
         /\ record' = IF record = Null THEN rec ELSE record
         /\ registers' = [registers EXCEPT ![rec.id] = rec.register]
         /\ planner' = [id |-> rec.id, changes |-> rec.changes]
  /\ Goto(c, IF c = Boot THEN "ready" ELSE "hydrated")
  /\ IF mending THEN Mend ELSE UNCHANGED <<answered, crossed>>
  /\ UNCHANGED <<file, queue, bounds, mending>>

\* hydrate, after it has awaited restore_snapshot.
Hydrate(c) ==
  /\ At(c, "hydrate")
  /\ LET rec == call[c].rec
     IN  /\ active' = rec.id
         /\ record' = rec
         /\ registers' = [registers EXCEPT ![rec.id] = rec.register]
         /\ planner' = [id |-> rec.id, changes |-> rec.changes]
  /\ Goto(c, IF c = Boot THEN "ready" ELSE "hydrated")
  /\ IF mending THEN Mend ELSE UNCHANGED <<answered, crossed>>
  /\ UNCHANGED <<file, queue, bounds, mending>>

\* lastOpenedAt is saved with what the session has by now.
SaveOpened(c) ==
  /\ At(c, "hydrated")
  /\ Save(c, ToSave(c, record, "opened"))
  /\ UNCHANGED <<file, memory, bounds, answered, manner>>

Opened(c) ==
  /\ At(c, "opened")
  /\ record' = call[c].rec
  /\ Answer(c)
  /\ UNCHANGED <<file, queue, active, planner, registers, bounds, answered, manner>>

-----------------------------------------------------------------------------
(* execute                                                                 *)

\* currentPlanner.execute: a key that is known gets its receipt; a refusal over
\* a Lock leaves its receipt in the planner and throws.
Execute(c) ==
  LET k == call[c].request.key
      as == IF k \in planner.changes THEN "known" ELSE "new"
  IN  /\ At(c, "execute")
      /\ planner' = [planner EXCEPT !.changes = @ \cup {k}]
      /\ IF k \in Locked THEN Answer(c)
         ELSE call' = [call EXCEPT ![c].pc = "persist", ![c].before = planner,
                                   ![c].project = planner.id, ![c].as = as]
      /\ UNCHANGED <<file, queue, active, record, registers, bounds, answered, manner>>

\* Mutant: what is saved is the snapshot the command returned with.
PersistOwn(c) ==
  /\ At(c, "persist")
  /\ IF planner = call[c].before
     THEN Answer(c) /\ Done(c) /\ UNCHANGED queue
     ELSE /\ Save(c, ToSave(c, [record EXCEPT !.changes =
                                  call[c].before.changes \cup {call[c].request.key}], "persisted"))
          /\ UNCHANGED answered
  /\ UNCHANGED <<file, memory, bounds, manner>>

\* persistIfChanged: the planner of now goes into the record of now.
Persist(c) ==
  /\ At(c, "persist")
  /\ IF planner = call[c].before
     THEN Answer(c) /\ Done(c) /\ UNCHANGED queue
     ELSE /\ Save(c, ToSave(c, [record EXCEPT !.changes = planner.changes], "persisted"))
          /\ UNCHANGED answered
  /\ UNCHANGED <<file, memory, bounds, manner>>

Persisted(c) ==
  /\ At(c, "persisted")
  /\ record' = call[c].rec
  /\ Answer(c) /\ Done(c)
  /\ UNCHANGED <<file, queue, active, planner, registers, bounds, manner>>

-----------------------------------------------------------------------------
(* reportIncident and inspectIncidents                                     *)

\* persistIncidentRegister, up to its await.
SaveRegister(c, reg, then) ==
  Save(c, [ToSave(c, [record EXCEPT !.register = reg], then) EXCEPT !.register = reg])

\* incidentBusForCurrentProject: a register the session has, or a new one, which
\* is saved first.
Bus(c) ==
  /\ At(c, "bus")
  /\ \/ /\ registers[active] # Null
        /\ call' = [call EXCEPT ![c].pc = "report", ![c].register = registers[active],
                                ![c].project = active]
        /\ UNCHANGED queue
     \/ /\ registers[active] = Null /\ active \in Operational
        /\ SaveRegister(c, {}, "created")
     \/ /\ registers[active] = Null /\ active \notin Operational
        /\ Answer(c) /\ UNCHANGED queue
  /\ UNCHANGED <<file, memory, bounds, answered, manner>>

\* The bus of the call takes the report; inspection ends here.
Incident(c) ==
  /\ At(c, "report")
  /\ IF Asks(c, "inspect") THEN Answer(c) /\ UNCHANGED queue
     ELSE SaveRegister(c, call[c].register \cup {call[c].request.key}, "reported")
  /\ UNCHANGED <<file, memory, bounds, answered, manner>>

\* persistIncidentRegister, after its await.
Registered(c) ==
  /\ record' = call[c].rec
  /\ registers' = [registers EXCEPT ![active] = call[c].register]
  /\ UNCHANGED <<active, planner>>

Created(c) ==
  /\ At(c, "created")
  /\ Registered(c)
  /\ call' = [call EXCEPT ![c].pc = "report", ![c].project = active]
  /\ UNCHANGED <<file, queue, bounds, answered, manner>>

Reported(c) ==
  /\ At(c, "reported")
  /\ Registered(c)
  /\ Answer(c) /\ Done(c)
  /\ UNCHANGED <<file, queue, bounds, manner>>

-----------------------------------------------------------------------------
\* The process ends, in the middle of whatever it does, and is started again.
Restart ==
  /\ restarts < MaxRestarts /\ restarts' = restarts + 1
  /\ queue' = <<>> /\ call' = [c \in Caller |-> Idle]
  /\ active' = Default /\ record' = Null /\ planner' = Null /\ registers' = NoRegisters
  /\ Mend /\ mending' = FALSE
  /\ UNCHANGED <<file, started, failures>>

Step(c) ==
  \/ ReadFile(c) \/ WriteFile(c) \/ Hydrate(c)
  \/ Initialized(c) \/ LoadProject(c) \/ SaveOpened(c) \/ Opened(c)
  \/ Execute(c) \/ Persist(c) \/ Persisted(c)
  \/ Bus(c) \/ Created(c) \/ Incident(c) \/ Reported(c)

Next ==
  \/ \E c \in Call, r \in Request : Begin(c, r)
  \/ LoadDefault
  \/ \E c \in Caller : Step(c) \/ SaveFails(c) \/ LoadFails(c)
  \/ Restart

\* Promises settle and the file system answers.
Fairness == WF_vars(LoadDefault) /\ \A c \in Caller : WF_vars(Step(c))

Spec == Init /\ [][Next]_vars /\ Fairness

-----------------------------------------------------------------------------
(* Properties                                                              *)

Has(p, k) ==
  /\ file[p] # Null
  /\ \/ k \in file[p].changes
     \/ file[p].register # Null /\ k \in file[p].register

\* A command or a report that was answered as done is in the file, in the
\* record of the Project it was for, whatever the process does later, whichever
\* saves fail and wherever it ends: persistIfChanged takes the record and the
\* planner of now, and both are saved in one record.  Calls that cross and are not
\* all commands may lose what was answered, and leave a session that loses more;
\* an open that runs alone mends it, and so does a new process, and what is
\* answered from then on stays.  (A command whose key had a receipt is left out:
\* see the README.)
AnsweredIsDurable ==
  ~crossed => \A a \in answered : a.as = "new" => Has(a.project, a.key)

\* Between calls, the parts of the session are about one Project and are what is
\* stored of it; the planner alone may be ahead, after a save that failed or a
\* refusal over a Lock.  After calls that crossed this is so again once an open
\* has run alone.
SessionAgrees ==
  At(Boot, "ready") /\ ~crossed /\ (\A c \in Call : At(c, "idle")) =>
    /\ record = file[active] /\ record.id = active
    /\ registers[active] = record.register
    /\ planner.id = active /\ record.changes \subseteq planner.changes

\* However saves run together, each changes the record of one Project, to the
\* record that was handed to it: the file is read and replaced in turn.
SavesOneRecord ==
  \A p \in Project : file'[p] # file[p] =>
    \E c \in Caller : At(c, "writing") /\ call[c].rec.id = p /\ file'[p] = call[c].rec

EachSaveOneRecord == [][SavesOneRecord]_vars

\* Every tool call is answered: one that waits for the initialization, for its
\* turn behind saves that fail, or for its own.
Ends == \A c \in Call : call[c].pc # "idle" ~> call[c].pc = "idle"
=============================================================================
