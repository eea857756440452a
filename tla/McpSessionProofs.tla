-------------------------- MODULE McpSessionProofs --------------------------
(***************************************************************************)
(* Proofs about McpSession, for any calls side by side: its types; that a  *)
(* save changes one record of the file; and that what was answered as done *)
(* stays in the file and the session is of one Project, unless calls that  *)
(* are not all commands have crossed, and again once an open has run alone *)
(* or the process was started again.                                       *)
(***************************************************************************)
EXTENDS McpSession, TLAPS

Opening   == {"load", "hydrate", "hydrated", "opened"}
Changing  == {"execute", "persist", "persisted"}
Reporting == {"bus", "created", "report", "reported"}
Saving    == {"queued", "writing"}
Phase     == {"idle", "initialize", "ready", "failed"} \cup Opening \cup Changing
               \cup Reporting \cup Saving

File     == [Project -> Record \cup {Null}]
CallType == [pc : Phase, request : Request \cup {Null}, rec : Record, read : File \cup {Null},
             then : Phase \ Saving, before : Planner \cup {Null}, project : Project, as : {"known", "new"},
             register : SUBSET Report]

Types ==
  /\ file \in File /\ queue \in Seq(Caller) /\ call \in [Caller -> CallType]
  /\ active \in Project /\ record \in Record \cup {Null} /\ planner \in Planner \cup {Null}
  /\ registers \in [Project -> Register]
  /\ started \in Nat /\ failures \in Nat /\ restarts \in Nat
  /\ answered \subseteq [project : Project, key : Change \cup Report, as : {"known", "new"}]

Modes == crossed \in BOOLEAN /\ mending \in BOOLEAN

\* Where a caller is, or goes on after its save.
Stage(r) == IF r.pc \in Saving THEN r.then ELSE r.pc

\* A call is where its request takes it.
Fits(r) ==
  \/ Stage(r) = "idle"
  \/ Stage(r) = "initialize" /\ r.request \in Request
  \/ Stage(r) \in Opening /\ r.request \in [kind : {"open"}, project : Project]
  \/ Stage(r) \in Changing /\ r.request \in [kind : {"change"}, key : Change]
  \/ Stage(r) \in Reporting /\ r.request \in [kind : {"report"}, key : Report]
  \/ Stage(r) \in Reporting \ {"reported"} /\ r.request \in [kind : {"inspect"}]

\* The initialization only loads, saves and hydrates.
BootFits ==
  /\ Stage(call[Boot]) \in {"idle", "load", "hydrate", "ready", "failed"}
  /\ call[Boot].pc \in Saving => call[Boot].then = "hydrate"

\* Calls work on a session that is initialized, which has a record and a planner.
Begun ==
  /\ \A c \in Call : ~At(c, "idle") /\ ~At(c, "initialize") => At(Boot, "ready")
  /\ At(Boot, "ready") => record # Null /\ planner # Null

Shapes == BootFits /\ (\A c \in Call : Fits(call[c])) /\ Begun

\* One caller writes, whose turn it is, and what it read is still the file.
OneWriter ==
  \A c \in Caller : At(c, "writing") =>
    queue # <<>> /\ Head(queue) = c /\ call[c].read = file

Inv == Types /\ Shapes /\ OneWriter

-----------------------------------------------------------------------------
LEMMA NullFacts ==
  /\ Null \notin Record /\ Null \notin Planner /\ Null \notin SUBSET Report
  /\ Boot \notin Call /\ Default \in Project
  BY SessionConstants

LEMMA FreshIsRecord ==
  ASSUME NEW p \in Project
  PROVE  Fresh(p) \in Record
  BY DEF Fresh, Record, Register

LEMMA PhaseFacts ==
  /\ Saving \subseteq Phase
  /\ {"idle", "initialize", "ready", "failed"} \cup Opening \cup Changing \cup Reporting
       = Phase \ Saving
  BY DEF Phase, Saving, Opening, Changing, Reporting

LEMMA PhaseNames ==
  /\ {"idle", "initialize", "ready", "failed", "load", "hydrate", "hydrated", "persist", "report"}
       \subseteq Phase \ Saving
  /\ {"queued", "writing"} \subseteq Phase
  BY PhaseFacts DEF Opening, Changing, Reporting, Saving

LEMMA IdleFacts == Idle \in CallType /\ Idle.pc = "idle" /\ Fits(Idle)
<1>1. Fresh(Default) \in Record
  BY NullFacts, FreshIsRecord
<1> QED
  BY <1>1, NullFacts, PhaseNames DEF Idle, CallType, Saving, Fits, Stage

\* A call goes somewhere its request takes it, in a session that has begun.
LEMMA CallMoves ==
  ASSUME Types, Shapes, NEW c \in Call, NEW r \in CallType,
         call' = [call EXCEPT ![c] = r], Fits(r),
         r.pc \in {"idle", "initialize"} \/ At(Boot, "ready"),
         record' # Null \/ record' = record, planner' # Null \/ planner' = planner
  PROVE  call' \in [Caller -> CallType] /\ Shapes'
<1>1. c # Boot /\ c \in Caller /\ Boot \in Caller /\ Call \subseteq Caller
  BY NullFacts DEF Caller
<1>2. call' \in [Caller -> CallType]
  BY <1>1 DEF Types
<1>3. call'[c] = r /\ \A d \in Caller \ {c} : call'[d] = call[d]
  BY <1>1 DEF Types
<1>4. BootFits'
  BY <1>1, <1>3 DEF Shapes, BootFits
<1>5. \A d \in Call : Fits(call'[d])
  BY <1>1, <1>3 DEF Shapes
<1>6. Begun'
  BY <1>1, <1>3 DEF Shapes, Begun, At
<1> QED
  BY <1>2, <1>4, <1>5, <1>6 DEF Shapes

\* The initialization goes on.
LEMMA BootMoves ==
  ASSUME Types, Shapes, NEW r \in CallType, call' = [call EXCEPT ![Boot] = r],
         ~At(Boot, "ready"), Stage(r) \in {"idle", "load", "hydrate", "ready", "failed"},
         r.pc \in Saving => r.then = "hydrate",
         r.pc = "ready" => record' # Null /\ planner' # Null
  PROVE  call' \in [Caller -> CallType] /\ Shapes'
<1>1. Boot \notin Call /\ Boot \in Caller /\ Call \subseteq Caller
  BY NullFacts DEF Caller
<1>2. call' \in [Caller -> CallType]
  BY <1>1 DEF Types
<1>3. call'[Boot] = r /\ \A d \in Call : call'[d] = call[d]
  BY <1>1 DEF Types
<1>4. BootFits' /\ \A d \in Call : Fits(call'[d])
  BY <1>3 DEF Shapes, BootFits
<1>5. Begun'
  BY <1>3 DEF Shapes, Begun, At
<1> QED
  BY <1>2, <1>4, <1>5 DEF Shapes

\* A caller that does not write leaves the writer alone, and so does one that
\* joins the queue.
LEMMA WriterStays ==
  ASSUME Types, OneWriter, NEW c \in Caller, NEW r \in CallType,
         call' = [call EXCEPT ![c] = r], r.pc # "writing", file' = file,
         queue' = queue \/ \E d \in Caller : queue' = Append(queue, d)
  PROVE  OneWriter'
<1> SUFFICES ASSUME NEW d \in Caller, At(d, "writing")'
             PROVE  queue' # <<>> /\ Head(queue') = d /\ call'[d].read = file'
  BY DEF OneWriter
<1>1. d # c /\ call'[d] = call[d]
  BY DEF At, Types
<1>2. queue # <<>> /\ Head(queue) = d /\ call[d].read = file
  BY <1>1 DEF At, OneWriter
<1>3. queue' # <<>> /\ Head(queue') = Head(queue)
  BY <1>2 DEF Types
<1> QED
  BY <1>1, <1>2, <1>3

\* The head of the queue leaves it, and with it the only writer there may be.
LEMMA WriterLeaves ==
  ASSUME Types, OneWriter, NEW c \in Caller, NEW r \in CallType,
         call' = [call EXCEPT ![c] = r], r.pc # "writing",
         Head(queue) = c \/ At(c, "writing")
  PROVE  OneWriter'
<1> SUFFICES ASSUME NEW d \in Caller, At(d, "writing")'
             PROVE  FALSE
  BY DEF OneWriter
<1>1. d # c /\ At(d, "writing")
  BY DEF At, Types
<1>2. Head(queue) = d /\ (At(c, "writing") => Head(queue) = c)
  BY <1>1 DEF OneWriter
<1> QED
  BY <1>1, <1>2

LEMMA Initial == Init => Inv
<1> SUFFICES ASSUME Init PROVE Inv
  OBVIOUS
<1>1. file \in File
  BY FreshIsRecord DEF Init, File
<1>2. call \in [Caller -> CallType] /\ \A c \in Caller : call[c] = Idle
  BY IdleFacts DEF Init
<1>3. Types
  BY <1>1, <1>2, NullFacts DEF Init, Types, NoRegisters, Register
<1>4. Boot \in Caller /\ Call \subseteq Caller
  BY DEF Caller
<1>5. Shapes
  BY <1>2, <1>4, IdleFacts DEF Shapes, BootFits, Begun, At, Stage, Saving
<1>6. OneWriter
  BY <1>2, IdleFacts DEF OneWriter, At
<1> QED
  BY <1>3, <1>5, <1>6 DEF Inv

-----------------------------------------------------------------------------
(* The steps                                                               *)

LEMMA ReadFileStep ==
  ASSUME Inv, NEW c \in Caller, ReadFile(c) PROVE Inv'
<1> DEFINE r == [call[c] EXCEPT !.pc = "writing", !.read = file]
<1>1. call' = [call EXCEPT ![c] = r] /\ call[c] \in CallType
  BY DEF ReadFile, Inv, Types
<1>2. r \in CallType /\ r.pc = "writing" /\ Stage(r) = Stage(call[c]) /\ r.request = call[c].request
  <2>1. file \in File
    BY DEF Inv, Types
  <2>2. r \in CallType
    BY <1>1, <2>1, PhaseNames DEF CallType
  <2> QED
    BY <1>1, <2>2 DEF CallType, Saving, Stage, ReadFile, At
<1>3. call' \in [Caller -> CallType] /\ Shapes'
  <2>1. CASE c \in Call
    <3>1. At(Boot, "ready")
      BY <2>1 DEF Inv, Shapes, Begun, ReadFile, At
    <3>2. Fits(r)
      BY <1>2, <2>1 DEF Inv, Shapes, Fits
    <3> QED
      BY <1>1, <1>2, <2>1, <3>1, <3>2, CallMoves DEF Inv, ReadFile, memory
  <2>2. CASE c = Boot
    <3>1. ~At(Boot, "ready") /\ Stage(r) \in {"idle", "load", "hydrate", "ready", "failed"}
          /\ r.then = "hydrate"
      BY <1>1, <1>2, <2>2 DEF Inv, Shapes, BootFits, ReadFile, At, Saving, CallType
    <3> QED
      BY <1>1, <1>2, <2>2, <3>1, BootMoves DEF Inv
  <2> QED
    BY <2>1, <2>2 DEF Caller
<1>4. Types'
  BY <1>3 DEF Inv, Types, ReadFile, memory, bounds
<1>5. OneWriter'
  <2> SUFFICES ASSUME NEW d \in Caller, At(d, "writing")'
               PROVE  queue # <<>> /\ Head(queue) = d /\ call'[d].read = file
    BY DEF OneWriter, ReadFile
  <2>1. queue # <<>> /\ Head(queue) = c
    BY DEF ReadFile, Turn
  <2>2. CASE d = c
    BY <1>1, <2>1, <2>2 DEF Inv, Types, CallType
  <2>3. CASE d # c
    BY <1>1, <2>1, <2>3 DEF Inv, Types, OneWriter, At
  <2> QED
    BY <2>2, <2>3
<1> QED
  BY <1>3, <1>4, <1>5 DEF Inv

\* What the file is replaced by: the same file with the record of the save.
LEMMA WriteFileReplaces ==
  ASSUME Inv, NEW c \in Caller, WriteFile(c)
  PROVE  file' = [file EXCEPT ![call[c].rec.id] = call[c].rec] /\ call[c].rec \in Record
<1>1. call[c].read = file
  BY DEF Inv, OneWriter, WriteFile
<1>2. call[c] \in CallType
  BY DEF Inv, Types
<1> QED
  BY <1>1, <1>2 DEF WriteFile, CallType

LEMMA WriteFileStep ==
  ASSUME Inv, NEW c \in Caller, WriteFile(c) PROVE Inv'
<1> DEFINE r == [call[c] EXCEPT !.pc = call[c].then, !.read = Null]
<1>1. call' = [call EXCEPT ![c] = r] /\ call[c] \in CallType
  BY DEF WriteFile, Inv, Types
<1>2. r \in CallType /\ r.pc \notin Saving /\ Stage(r) = Stage(call[c])
      /\ r.request = call[c].request
  BY <1>1 DEF CallType, Saving, Stage, WriteFile, At
<1>3. call' \in [Caller -> CallType] /\ Shapes'
  <2>1. CASE c \in Call
    <3>1. At(Boot, "ready")
      BY <2>1 DEF Inv, Shapes, Begun, WriteFile, At
    <3>2. Fits(r)
      BY <1>2, <2>1 DEF Inv, Shapes, Fits
    <3> QED
      BY <1>1, <1>2, <2>1, <3>1, <3>2, CallMoves DEF Inv, WriteFile, memory
  <2>2. CASE c = Boot
    <3>1. ~At(Boot, "ready") /\ Stage(r) = "hydrate"
      BY <1>2, <2>2 DEF Inv, Shapes, BootFits, WriteFile, At, Saving, Stage
    <3>2. r.pc # "ready"
      BY <1>2, <3>1 DEF Stage
    <3> QED
      BY <1>1, <1>2, <2>2, <3>1, <3>2, BootMoves DEF Inv
  <2> QED
    BY <2>1, <2>2 DEF Caller
<1>4. file' \in File
  BY WriteFileReplaces DEF Inv, Types, File, Record
<1>5. queue' \in Seq(Caller)
  <2>1. queue # <<>>
    BY DEF Inv, OneWriter, WriteFile
  <2> QED
    BY <2>1 DEF Inv, Types, WriteFile
<1>6. Types'
  BY <1>3, <1>4, <1>5 DEF Inv, Types, WriteFile, memory, bounds
<1>7. OneWriter'
  BY <1>1, <1>2, WriterLeaves DEF Inv, WriteFile, Saving
<1> QED
  BY <1>3, <1>6, <1>7 DEF Inv

\* What a caller becomes that fails.
LEMMA RejectMoves ==
  ASSUME Types, Shapes, NEW c \in Caller, Reject(c), ~At(Boot, "ready") \/ c # Boot,
         UNCHANGED <<record, planner>>
  PROVE  /\ call' \in [Caller -> CallType] /\ Shapes'
         /\ \E r \in CallType : r.pc # "writing" /\ call' = [call EXCEPT ![c] = r]
<1>1. CASE c = Boot
  <2> DEFINE r == [call[c] EXCEPT !.pc = "failed"]
  <2>1. /\ r \in CallType /\ r.pc = "failed" /\ r.pc \notin Saving /\ Stage(r) = "failed"
        /\ call' = [call EXCEPT ![c] = r]
    <3>1. call[c] \in CallType
      BY DEF Types
    <3>2. r \in CallType
      BY <3>1, PhaseNames DEF CallType
    <3> QED
      BY <1>1, <3>1, <3>2 DEF CallType, Saving, Stage, Reject, Goto
  <2> HIDE DEF r
  <2>2. call' \in [Caller -> CallType] /\ Shapes'
    BY <1>1, <2>1, BootMoves
  <2> QED
    BY <2>1, <2>2
<1>2. CASE c \in Call
  <2>1. call' = [call EXCEPT ![c] = Idle]
    BY <1>2, NullFacts DEF Reject
  <2> QED
    BY <1>2, <2>1, IdleFacts, CallMoves
<1> QED
  BY <1>1, <1>2 DEF Caller

LEMMA SaveFailsStep ==
  ASSUME Inv, NEW c \in Caller, SaveFails(c) PROVE Inv'
<1>1. queue # <<>> /\ (Head(queue) = c \/ At(c, "writing")) /\ (At(Boot, "ready") => c # Boot)
  BY DEF SaveFails, Turn, Inv, OneWriter, At
<1>2. PICK r \in CallType : r.pc # "writing" /\ call' = [call EXCEPT ![c] = r]
  BY <1>1, RejectMoves DEF Inv, SaveFails, Fails, memory
<1>3. call' \in [Caller -> CallType] /\ Shapes'
  BY <1>1, RejectMoves DEF Inv, SaveFails, Fails, memory
<1>4. queue' \in Seq(Caller)
  BY <1>1 DEF Inv, Types, SaveFails
<1>5. Types'
  BY <1>3, <1>4 DEF Inv, Types, SaveFails, Fails, memory
<1>6. OneWriter'
  BY <1>1, <1>2, WriterLeaves DEF Inv
<1> QED
  BY <1>3, <1>5, <1>6 DEF Inv

LEMMA LoadFailsStep ==
  ASSUME Inv, NEW c \in Caller, LoadFails(c) PROVE Inv'
<1>1. At(Boot, "ready") => c # Boot
  BY DEF LoadFails, At
<1>2. PICK r \in CallType : r.pc # "writing" /\ call' = [call EXCEPT ![c] = r]
  BY <1>1, RejectMoves DEF Inv, LoadFails, Fails, memory
<1>3. call' \in [Caller -> CallType] /\ Shapes'
  BY <1>1, RejectMoves DEF Inv, LoadFails, Fails, memory
<1>4. Types'
  BY <1>3 DEF Inv, Types, LoadFails, Fails, memory
<1>5. OneWriter'
  BY <1>2, WriterStays DEF Inv, LoadFails
<1> QED
  BY <1>3, <1>4, <1>5 DEF Inv

\* A call that moves within a session that has begun, and does not write.
LEMMA CallStep ==
  ASSUME Inv, NEW c \in Call, NEW r \in CallType, call' = [call EXCEPT ![c] = r], Fits(r),
         r.pc \in {"idle", "initialize"} \/ At(Boot, "ready"), r.pc # "writing",
         queue' = queue \/ queue' = Append(queue, c),
         active' \in Project, record' \in Record \/ record' = record,
         planner' \in Planner \/ planner' = planner, registers' \in [Project -> Register],
         \/ answered' \in {{}, answered}
         \/ \E a \in [project : Project, key : Change \cup Report, as : {"known", "new"}] :
              answered' = answered \cup {a},
         UNCHANGED <<file, bounds>>
  PROVE  Inv'
<1>1. record' # Null \/ record' = record
  BY NullFacts
<1>2. planner' # Null \/ planner' = planner
  BY NullFacts
<1>3. call' \in [Caller -> CallType] /\ Shapes'
  BY <1>1, <1>2, CallMoves DEF Inv
<1>4. c \in Caller
  BY DEF Caller
<1>5. queue' \in Seq(Caller)
  BY <1>4 DEF Inv, Types
<1>6. Types'
  BY <1>3, <1>5 DEF Inv, Types, bounds
<1>7. OneWriter'
  BY <1>4, WriterStays DEF Inv
<1> QED
  BY <1>3, <1>6, <1>7 DEF Inv

\* The initialization of a session is never where calls are.
LEMMA BootElsewhere ==
  ASSUME Inv
  PROVE  call[Boot].pc \notin ({"initialize", "hydrated", "opened"} \cup Changing \cup Reporting)
  BY DEF Inv, Shapes, BootFits, Stage, Saving, Changing, Reporting

\* Where a call is says that the session has begun and what it was asked.
LEMMA CallFacts ==
  ASSUME Inv, NEW c \in Call, ~At(c, "idle"), ~At(c, "initialize")
  PROVE  At(Boot, "ready") /\ record \in Record /\ planner \in Planner
         /\ call[c] \in CallType /\ Fits(call[c])
<1>1. At(Boot, "ready")
  BY DEF Inv, Shapes, Begun
<1>2. record \in Record /\ planner \in Planner
  BY <1>1 DEF Inv, Shapes, Begun, Types
<1>3. call[c] \in CallType
  BY DEF Inv, Types, Caller
<1> QED
  BY <1>1, <1>2, <1>3 DEF Inv, Shapes

LEMMA BeginStep ==
  ASSUME Inv, NEW c \in Call, NEW q \in Request, Begin(c, q) PROVE Inv'
<1> DEFINE r == [call[c] EXCEPT !.pc = "initialize", !.request = q]
           b == [call[Boot] EXCEPT !.pc = IF At(Boot, "idle") THEN "load" ELSE @]
<1>1. /\ c # Boot /\ Boot \notin Call /\ q \in Request
      /\ c \in Caller /\ Boot \in Caller /\ Call \subseteq Caller
  BY SessionConstants DEF Caller
<1>2. call[c] \in CallType /\ call[Boot] \in CallType
  BY <1>1 DEF Inv, Types
<1>3. /\ call'[c] = r /\ call'[Boot] = b
      /\ \A d \in Caller \ {c, Boot} : call'[d] = call[d]
      /\ call' = [[call EXCEPT ![c] = r] EXCEPT ![Boot] = b]
  BY <1>1 DEF Inv, Types, Begin, At
<1>4. r \in CallType /\ r.pc = "initialize" /\ Stage(r) = "initialize" /\ r.request = q
  <2>1. r \in CallType
    BY <1>1, <1>2, PhaseNames DEF CallType
  <2> QED
    BY <1>2, <2>1 DEF CallType, Saving, Stage
<1>5. /\ b \in CallType /\ b.pc = (IF At(Boot, "idle") THEN "load" ELSE call[Boot].pc)
      /\ b.then = call[Boot].then /\ b.read = call[Boot].read
  <2>1. b \in CallType
    BY <1>2, PhaseNames DEF CallType
  <2> QED
    BY <1>2, <2>1 DEF CallType
<1> HIDE DEF r, b
<1>6. call' \in [Caller -> CallType]
  BY <1>1, <1>3, <1>4, <1>5 DEF Inv, Types
<1>7. Types'
  <2>1. /\ started' = started + 1
        /\ UNCHANGED <<file, queue, active, record, planner, registers, failures, restarts, answered>>
    BY DEF Begin, memory
  <2> QED
    BY <1>6, <2>1 DEF Inv, Types
<1>8. BootFits'
  BY <1>3, <1>5 DEF Inv, Shapes, BootFits, Stage, Saving, At
<1>9. Fits(r)
  BY <1>1, <1>4 DEF Fits
<1>10. \A d \in Call : Fits(call'[d])
  BY <1>1, <1>3, <1>9 DEF Inv, Shapes
<1>11. At(Boot, "ready")' <=> At(Boot, "ready")
  BY <1>3, <1>5 DEF At
<1>12. \A d \in Call : ~At(d, "idle")' /\ ~At(d, "initialize")' => At(Boot, "ready")'
  BY <1>1, <1>3, <1>4, <1>11 DEF Inv, Shapes, Begun, At
<1>13. Begun'
  BY <1>11, <1>12 DEF Inv, Shapes, Begun, Begin, memory
<1>14. OneWriter'
  <2> SUFFICES ASSUME NEW d \in Caller, At(d, "writing")'
               PROVE  queue # <<>> /\ Head(queue) = d /\ call'[d].read = file
    BY DEF OneWriter, Begin
  <2>1. d # c
    BY <1>3, <1>4 DEF At
  <2>2. At(d, "writing") /\ call'[d].read = call[d].read
    BY <1>3, <1>5, <2>1 DEF At
  <2> QED
    BY <2>2 DEF Inv, OneWriter
<1> QED
  BY <1>7, <1>8, <1>10, <1>13, <1>14 DEF Inv, Shapes

LEMMA LoadDefaultStep ==
  ASSUME Inv, LoadDefault PROVE Inv'
<1>1. Boot \in Caller /\ ~At(Boot, "ready") /\ call[Boot] \in CallType /\ Default \in Project
  BY NullFacts DEF LoadDefault, At, Caller, Inv, Types
<1>2. \E r \in CallType :
        /\ call' = [call EXCEPT ![Boot] = r] /\ r.pc \notin {"writing", "ready"}
        /\ Stage(r) = "hydrate" /\ (r.pc \in Saving => r.then = "hydrate")
  <2>1. CASE file[Default] # Null
    <3> DEFINE r == [call[Boot] EXCEPT !.pc = "hydrate", !.rec = file[Default]]
    <3>1. file[Default] \in Record
      BY <1>1, <2>1 DEF Inv, Types, File
    <3>2. /\ r \in CallType /\ r.pc = "hydrate" /\ Stage(r) = "hydrate" /\ r.pc \notin Saving
          /\ call' = [call EXCEPT ![Boot] = r]
      <4>1. r \in CallType
        BY <1>1, <3>1, PhaseNames DEF CallType
      <4>2. r.pc = "hydrate" /\ Stage(r) = "hydrate" /\ r.pc \notin Saving
        BY <1>1 DEF CallType, Stage, Saving
      <4> QED
        BY <2>1, <4>1, <4>2 DEF LoadDefault
    <3> QED
      BY <3>2
  <2>2. CASE file[Default] = Null
    <3> DEFINE r == ToSave(Boot, Fresh(Default), "hydrate")
    <3>1. Fresh(Default) \in Record
      BY <1>1, FreshIsRecord
    <3>2. /\ r \in CallType /\ r.pc = "queued" /\ r.then = "hydrate" /\ Stage(r) = "hydrate"
      <4>1. "hydrate" \in Phase \ Saving
        BY PhaseNames
      <4>2. r = [call[Boot] EXCEPT !.pc = "queued", !.rec = Fresh(Default), !.then = "hydrate"]
        BY DEF ToSave
      <4>3. r \in CallType
        BY <1>1, <3>1, <4>1, <4>2, PhaseNames DEF CallType
      <4> QED
        BY <1>1, <4>2, <4>3 DEF CallType, Stage, Saving
    <3>3. call' = [call EXCEPT ![Boot] = r]
      BY <2>2 DEF LoadDefault, Save
    <3> QED
      BY <3>2, <3>3
  <2> QED
    BY <2>1, <2>2
<1>3. PICK r \in CallType :
        /\ call' = [call EXCEPT ![Boot] = r] /\ r.pc \notin {"writing", "ready"}
        /\ Stage(r) = "hydrate" /\ (r.pc \in Saving => r.then = "hydrate")
  BY <1>2
<1>4. call' \in [Caller -> CallType] /\ Shapes'
  BY <1>1, <1>3, BootMoves DEF Inv
<1>5. queue' = queue \/ queue' = Append(queue, Boot)
  BY DEF LoadDefault, Save
<1>6. queue' \in Seq(Caller)
  BY <1>1, <1>5 DEF Inv, Types
<1>7. Types'
  BY <1>4, <1>6 DEF Inv, Types, LoadDefault, memory, bounds
<1>8. OneWriter'
  BY <1>1, <1>3, <1>5, WriterStays DEF Inv, LoadDefault
<1> QED
  BY <1>4, <1>7, <1>8 DEF Inv

\* A call that is answered is idle again.
LEMMA AnswerStep ==
  ASSUME Inv, NEW c \in Call, Answer(c),
         active' \in Project, record' \in Record \/ record' = record,
         planner' \in Planner \/ planner' = planner, registers' \in [Project -> Register],
         answered' = answered \/ \E a \in [project : Project, key : Change \cup Report, as : {"known", "new"}] :
                                   answered' = answered \cup {a},
         UNCHANGED <<file, queue, bounds>>
  PROVE  Inv'
  BY IdleFacts, CallStep DEF Answer

\* What a call that is answered as done adds to the history.
LEMMA DoneFacts ==
  ASSUME Inv, NEW c \in Call, Done(c), Stage(call[c]) \in {"persist", "persisted", "reported"}
  PROVE  \E a \in [project : Project, key : Change \cup Report, as : {"known", "new"}] :
           answered' = answered \cup {a}
<1>1. call[c] \in CallType /\ Fits(call[c])
  BY DEF Inv, Types, Shapes, Caller
<1>2. call[c].request.key \in Change \cup Report
  BY <1>1 DEF Fits, Opening, Changing, Reporting
<1> QED
  BY <1>1, <1>2 DEF Done, CallType

\* What a call becomes that saves a record: it joins the queue.
LEMMA SaveStep ==
  ASSUME Inv, NEW c \in Call, At(Boot, "ready"), NEW then \in Phase \ Saving,
         NEW r \in CallType, r.pc = "queued", r.then = then, r.request = call[c].request,
         Save(c, r), Fits([call[c] EXCEPT !.pc = then]), UNCHANGED <<file, memory, bounds, answered>>
  PROVE  Inv'
<1>1. call[c] \in CallType
  BY DEF Inv, Types, Caller
<1>2. Stage(r) = then
  BY DEF Stage, Saving
<1>3. Stage([call[c] EXCEPT !.pc = then]) = then /\ [call[c] EXCEPT !.pc = then].request = call[c].request
  BY <1>1 DEF CallType, Stage
<1>4. Fits(r)
  BY <1>2, <1>3 DEF Fits
<1>5. /\ active' \in Project /\ registers' \in [Project -> Register]
      /\ record' = record /\ planner' = planner
  BY DEF Inv, Types, memory
<1> QED
  BY <1>2, <1>4, <1>5, CallStep DEF Save

LEMMA InitializedStep ==
  ASSUME Inv, NEW c \in Caller, Initialized(c) PROVE Inv'
<1>1. c \in Call
  BY BootElsewhere DEF Initialized, At, Caller
<1>2. UNCHANGED <<file, queue, memory, bounds, answered>>
  BY DEF Initialized
<1>3. active' \in Project /\ registers' \in [Project -> Register] /\ record' = record /\ planner' = planner
  BY <1>2 DEF Inv, Types, memory
<1>4. CASE Answer(c)
  BY <1>1, <1>2, <1>3, <1>4, AnswerStep
<1>5. CASE At(Boot, "ready") /\ Goto(c, First[call[c].request.kind])
  <2> DEFINE pc == First[call[c].request.kind]
             r  == [call[c] EXCEPT !.pc = pc]
  <2>1. call[c] \in CallType /\ Fits(call[c]) /\ Stage(call[c]) = "initialize"
    BY <1>1 DEF Inv, Types, Shapes, Caller, Initialized, At, Stage, Saving
  <2>2. call[c].request \in Request
    BY <2>1 DEF Fits, Opening, Changing, Reporting
  <2>3. \/ call[c].request \in [kind : {"open"}, project : Project] /\ pc = "load"
        \/ call[c].request \in [kind : {"change"}, key : Change] /\ pc = "execute"
        \/ call[c].request \in [kind : {"report"}, key : Report] /\ pc = "bus"
        \/ call[c].request \in [kind : {"inspect"}] /\ pc = "bus"
    BY <2>2 DEF Request, First
  <2>4. pc \in Phase /\ pc \notin Saving
    BY <2>3 DEF Phase, Saving, Opening, Changing, Reporting
  <2> HIDE DEF pc
  <2>5. r \in CallType /\ Stage(r) = pc /\ r.request = call[c].request /\ r.pc = pc
    BY <2>1, <2>4 DEF CallType, Stage
  <2>6. Fits(r)
    BY <2>3, <2>5 DEF Fits, Opening, Changing, Reporting
  <2>7. call' = [call EXCEPT ![c] = r]
    BY <1>5 DEF Goto, pc
  <2>8. r.pc # "writing"
    BY <2>4, <2>5 DEF Saving
  <2> HIDE DEF r
  <2> QED
    BY <1>1, <1>2, <1>3, <1>5, <2>5, <2>6, <2>7, <2>8, CallStep
<1> QED
  BY <1>4, <1>5 DEF Initialized

LEMMA LoadProjectStep ==
  ASSUME Inv, NEW c \in Caller, LoadProject(c) PROVE Inv'
<1>1. c \in Call
  BY DEF LoadProject, Caller
<1>2. UNCHANGED <<file, queue, memory, bounds, answered>>
  BY DEF LoadProject
<1>3. active' \in Project /\ registers' \in [Project -> Register] /\ record' = record /\ planner' = planner
  BY <1>2 DEF Inv, Types, memory
<1> DEFINE p == call[c].request.project
<1>4. CASE file[p] = Null
  <2>1. Answer(c)
    BY <1>4 DEF LoadProject
  <2> QED
    BY <1>1, <1>2, <1>3, <2>1, AnswerStep
<1>5. CASE file[p] # Null
  <2> DEFINE r == [call[c] EXCEPT !.pc = "hydrate", !.rec = file[p]]
  <2>1. At(Boot, "ready") /\ call[c] \in CallType /\ Fits(call[c]) /\ Stage(call[c]) = "load"
    BY <1>1, CallFacts DEF LoadProject, At, Stage, Saving
  <2>2. call[c].request \in [kind : {"open"}, project : Project]
    BY <2>1 DEF Fits, Opening, Changing, Reporting
  <2>3. file[p] \in Record
    BY <1>5, <2>2 DEF Inv, Types, File
  <2>4. r \in CallType /\ Stage(r) = "hydrate" /\ r.request = call[c].request /\ r.pc = "hydrate"
    <3>1. r \in CallType
      BY <2>1, <2>3, PhaseNames DEF CallType
    <3> QED
      BY <2>1, <3>1 DEF CallType, Stage, Saving
  <2>5. Fits(r)
    BY <2>2, <2>4 DEF Fits, Opening
  <2>6. call' = [call EXCEPT ![c] = r]
    BY <1>5 DEF LoadProject
  <2> HIDE DEF r
  <2> QED
    BY <1>1, <1>2, <1>3, <2>1, <2>4, <2>5, <2>6, CallStep
<1> QED
  BY <1>4, <1>5

LEMMA HydrateStep ==
  ASSUME Inv, NEW c \in Caller, Hydrate(c) PROVE Inv'
<1> DEFINE pc  == IF c = Boot THEN "ready" ELSE "hydrated"
           r   == [call[c] EXCEPT !.pc = pc]
<1>1. call[c] \in CallType /\ Stage(call[c]) = "hydrate"
  BY DEF Inv, Types, Hydrate, At, Stage, Saving
<1>2. call[c].rec \in Record
  BY <1>1 DEF CallType
<1>3. /\ active' \in Project /\ record' \in Record /\ planner' \in Planner
      /\ registers' \in [Project -> Register]
  BY <1>2 DEF Hydrate, Record, Planner, Inv, Types
<1>4. r \in CallType /\ Stage(r) = pc /\ r.request = call[c].request /\ r.pc = pc
      /\ pc \notin Saving /\ call' = [call EXCEPT ![c] = r]
  <2>1. r \in CallType
    BY <1>1, PhaseNames DEF CallType
  <2> QED
    BY <1>1, <2>1 DEF CallType, Saving, Stage, Hydrate, Goto
<1> HIDE DEF r
<1>5. answered' \in {{}, answered} /\ UNCHANGED <<file, queue, bounds>>
  BY DEF Hydrate, Mend
<1>6. CASE c \in Call
  <2>1. At(Boot, "ready") /\ Fits(call[c])
    BY <1>6, CallFacts DEF Hydrate, At
  <2>2. c # Boot
    BY <1>6, NullFacts
  <2>3. Fits(r)
    BY <1>1, <1>4, <2>1, <2>2 DEF Fits, Opening, Changing, Reporting
  <2> QED
    BY <1>3, <1>4, <1>6, <1>5, <2>1, <2>2, <2>3, CallStep
<1>7. CASE c = Boot
  <2>1. ~At(Boot, "ready") /\ record' # Null /\ planner' # Null
    BY <1>3, <1>7, NullFacts DEF Hydrate, At
  <2>2. call' \in [Caller -> CallType] /\ Shapes'
    BY <1>4, <1>7, <2>1, BootMoves DEF Inv
  <2>3. Types'
    BY <1>3, <1>5, <2>2 DEF Inv, Types, bounds
  <2>4. OneWriter'
    BY <1>4, <1>7, <1>5, WriterStays DEF Inv
  <2> QED
    BY <2>2, <2>3, <2>4 DEF Inv
<1> QED
  BY <1>6, <1>7 DEF Caller

LEMMA SaveOpenedStep ==
  ASSUME Inv, NEW c \in Caller, SaveOpened(c) PROVE Inv'
<1>1. c \in Call
  BY BootElsewhere DEF SaveOpened, At, Caller
<1>2. /\ At(Boot, "ready") /\ record \in Record /\ call[c] \in CallType /\ Fits(call[c])
      /\ Stage(call[c]) = "hydrated"
  BY <1>1, CallFacts DEF SaveOpened, At, Stage, Saving
<1> DEFINE r == ToSave(c, record, "opened")
<1>3. /\ r \in CallType /\ r.pc = "queued" /\ r.then = "opened" /\ r.request = call[c].request
      /\ "opened" \in Phase \ Saving
  <2>1. "opened" \in Phase \ Saving
    BY PhaseFacts DEF Opening
  <2>2. r = [call[c] EXCEPT !.pc = "queued", !.rec = record, !.then = "opened"]
    BY DEF ToSave
  <2>3. r \in CallType
    BY <1>2, <2>1, <2>2, PhaseNames DEF CallType
  <2> QED
    BY <1>2, <2>1, <2>2, <2>3 DEF CallType
<1>4. Fits([call[c] EXCEPT !.pc = "opened"])
  BY <1>2 DEF Fits, Stage, CallType, Opening, Changing, Reporting, Saving
<1>5. Save(c, r) /\ UNCHANGED <<file, memory, bounds, answered>>
  BY DEF SaveOpened
<1> HIDE DEF r
<1> QED
  BY <1>1, <1>2, <1>3, <1>4, <1>5, SaveStep

LEMMA OpenedStep ==
  ASSUME Inv, NEW c \in Caller, Opened(c) PROVE Inv'
<1>1. c \in Call
  BY BootElsewhere DEF Opened, At, Caller
<1>2. record' \in Record /\ active' \in Project /\ registers' \in [Project -> Register]
  BY <1>1, CallFacts DEF Opened, At, CallType, Inv, Types
<1> QED
  BY <1>1, <1>2, AnswerStep DEF Opened

LEMMA ExecuteStep ==
  ASSUME Inv, NEW c \in Caller, Execute(c) PROVE Inv'
<1>1. c \in Call
  BY BootElsewhere DEF Execute, At, Caller, Changing
<1>2. /\ At(Boot, "ready") /\ planner \in Planner /\ call[c] \in CallType /\ Fits(call[c])
      /\ Stage(call[c]) = "execute"
  BY <1>1, CallFacts DEF Execute, At, Stage, Saving
<1>3. call[c].request \in [kind : {"change"}, key : Change]
  BY <1>2 DEF Fits, Opening, Changing, Reporting
<1> DEFINE k == call[c].request.key
           as == IF k \in planner.changes THEN "known" ELSE "new"
           r == [call[c] EXCEPT !.pc = "persist", !.before = planner, !.project = planner.id, !.as = as]
<1>4. planner' \in Planner
  BY <1>2, <1>3 DEF Execute, Planner
<1>5. /\ active' \in Project /\ record' = record /\ registers' \in [Project -> Register]
      /\ UNCHANGED <<file, queue, bounds, answered>>
  BY DEF Execute, Inv, Types
<1>6. CASE k \in Locked
  <2>1. Answer(c)
    BY <1>6 DEF Execute
  <2> QED
    BY <1>1, <1>4, <1>5, <2>1, AnswerStep
<1>7. CASE k \notin Locked
  <2>1. call' = [call EXCEPT ![c] = r]
    BY <1>7 DEF Execute
  <2>2. as \in {"known", "new"} /\ planner.id \in Project
    BY <1>2 DEF Planner
  <2> HIDE DEF as
  <2>3. /\ r \in CallType
        /\ r.pc = "persist" /\ Stage(r) = "persist" /\ r.request = call[c].request
    <3>1. r \in CallType
      BY <1>2, <2>2, PhaseNames DEF CallType
    <3> QED
      BY <1>2, <3>1 DEF CallType, Stage, Saving
  <2>4. Fits(r)
    BY <1>3, <2>3 DEF Fits, Changing
  <2> HIDE DEF r
  <2> QED
    BY <1>1, <1>2, <1>4, <1>5, <2>1, <2>3, <2>4, CallStep
<1> QED
  BY <1>6, <1>7

LEMMA PersistStep ==
  ASSUME Inv, NEW c \in Caller, Persist(c) PROVE Inv'
<1>1. c \in Call
  BY BootElsewhere DEF Persist, At, Caller, Changing
<1>2. /\ At(Boot, "ready") /\ planner \in Planner /\ record \in Record /\ call[c] \in CallType
      /\ Fits(call[c]) /\ Stage(call[c]) = "persist"
  BY <1>1, CallFacts DEF Persist, At, Stage, Saving
<1>3. CASE planner = call[c].before
  <2>1. Answer(c) /\ Done(c) /\ UNCHANGED queue /\ UNCHANGED <<file, memory, bounds>>
    BY <1>3 DEF Persist
  <2>2. active' \in Project /\ record' = record /\ planner' = planner /\ registers' \in [Project -> Register]
    BY <2>1 DEF Inv, Types, memory
  <2> QED
    BY <1>1, <1>2, <2>1, <2>2, DoneFacts, AnswerStep
<1>4. CASE planner # call[c].before
  <2> DEFINE rec == [record EXCEPT !.changes = planner.changes]
             r   == ToSave(c, rec, "persisted")
  <2>1. rec \in Record
    BY <1>2 DEF Record, Planner
  <2> HIDE DEF rec
  <2>2. /\ r \in CallType /\ r.pc = "queued" /\ r.then = "persisted"
        /\ r.request = call[c].request /\ "persisted" \in Phase \ Saving
    <3>1. "persisted" \in Phase \ Saving
      BY PhaseFacts DEF Changing
    <3>2. r = [call[c] EXCEPT !.pc = "queued", !.rec = rec, !.then = "persisted"]
      BY DEF ToSave
    <3>3. r \in CallType
      BY <1>2, <2>1, <3>1, <3>2, PhaseNames DEF CallType
    <3> QED
      BY <1>2, <3>1, <3>2, <3>3 DEF CallType
  <2>3. Fits([call[c] EXCEPT !.pc = "persisted"])
    BY <1>2 DEF Fits, Stage, CallType, Opening, Changing, Reporting, Saving
  <2>4. Save(c, r) /\ UNCHANGED <<file, memory, bounds, answered>>
    BY <1>4 DEF Persist, rec
  <2> HIDE DEF r
  <2> QED
    BY <1>1, <1>2, <2>1, <2>2, <2>3, <2>4, SaveStep
<1> QED
  BY <1>3, <1>4

LEMMA PersistedStep ==
  ASSUME Inv, NEW c \in Caller, Persisted(c) PROVE Inv'
<1>1. c \in Call
  BY BootElsewhere DEF Persisted, At, Caller, Changing
<1>2. record' \in Record /\ active' \in Project /\ registers' \in [Project -> Register]
  BY <1>1, CallFacts DEF Persisted, At, CallType, Inv, Types
<1>3. Done(c) /\ Stage(call[c]) = "persisted"
  BY DEF Persisted, At, Stage, Saving
<1> QED
  BY <1>1, <1>2, <1>3, DoneFacts, AnswerStep DEF Persisted

\* persistIncidentRegister, up to its await.
LEMMA SaveRegisterStep ==
  ASSUME Inv, NEW c \in Call, At(Boot, "ready"), record \in Record, NEW reg \in SUBSET Report,
         NEW then \in Phase \ Saving, SaveRegister(c, reg, then),
         Fits([call[c] EXCEPT !.pc = then]), UNCHANGED <<file, memory, bounds, answered>>
  PROVE  Inv'
<1> DEFINE rec == [record EXCEPT !.register = reg]
           r   == [ToSave(c, rec, then) EXCEPT !.register = reg]
<1>1. rec \in Record /\ call[c] \in CallType
  BY DEF Record, Register, Inv, Types, Caller
<1> HIDE DEF rec
<1>2. r \in CallType /\ r.pc = "queued" /\ r.then = then /\ r.request = call[c].request
  <2>1. r = [call[c] EXCEPT !.pc = "queued", !.rec = rec, !.then = then, !.register = reg]
    BY DEF ToSave
  <2>2. r \in CallType
    BY <1>1, <2>1, PhaseNames DEF CallType
  <2> QED
    BY <1>1, <2>1, <2>2 DEF CallType
<1>3. Save(c, r)
  BY DEF SaveRegister, rec
<1> HIDE DEF r
<1> QED
  BY <1>1, <1>2, <1>3, SaveStep

LEMMA BusStep ==
  ASSUME Inv, NEW c \in Caller, Bus(c) PROVE Inv'
<1>1. c \in Call
  BY BootElsewhere DEF Bus, At, Caller, Reporting
<1>2. /\ At(Boot, "ready") /\ record \in Record /\ call[c] \in CallType /\ Fits(call[c])
      /\ Stage(call[c]) = "bus"
  BY <1>1, CallFacts DEF Bus, At, Stage, Saving
<1>3. /\ active' \in Project /\ registers' \in [Project -> Register]
      /\ record' = record /\ planner' = planner /\ UNCHANGED <<file, memory, bounds, answered>>
  BY DEF Bus, memory, Inv, Types
<1>4. \/ call[c].request \in [kind : {"report"}, key : Report]
      \/ call[c].request \in [kind : {"inspect"}]
  BY <1>2 DEF Fits, Opening, Changing, Reporting
<1>5. CASE registers[active] # Null
  <2> DEFINE r == [call[c] EXCEPT !.pc = "report", !.register = registers[active], !.project = active]
  <2>1. call' = [call EXCEPT ![c] = r] /\ queue' = queue
    BY <1>5 DEF Bus
  <2>2. registers[active] \in SUBSET Report /\ active \in Project
    BY <1>5 DEF Inv, Types, Register
  <2>3. r \in CallType /\ r.pc = "report" /\ Stage(r) = "report" /\ r.request = call[c].request
    <3>1. r \in CallType
      BY <1>2, <2>2, PhaseNames DEF CallType
    <3> QED
      BY <1>2, <3>1 DEF CallType, Stage, Saving
  <2>4. Fits(r)
    BY <1>4, <2>3 DEF Fits, Reporting
  <2> HIDE DEF r
  <2> QED
    BY <1>1, <1>2, <1>3, <2>1, <2>3, <2>4, CallStep
<1>6. CASE registers[active] = Null /\ active \in Operational
  <2>1. SaveRegister(c, {}, "created") /\ "created" \in Phase \ Saving
    BY <1>6, PhaseFacts DEF Bus, Reporting
  <2>2. /\ Stage([call[c] EXCEPT !.pc = "created"]) = "created"
        /\ [call[c] EXCEPT !.pc = "created"].request = call[c].request
    BY <1>2 DEF Stage, CallType, Saving
  <2>3. Fits([call[c] EXCEPT !.pc = "created"])
    BY <1>4, <2>2 DEF Fits, Reporting
  <2> QED
    BY <1>1, <1>2, <1>3, <2>1, <2>3, SaveRegisterStep
<1>7. CASE registers[active] = Null /\ active \notin Operational
  <2>1. Answer(c) /\ queue' = queue
    BY <1>7 DEF Bus
  <2> QED
    BY <1>1, <1>3, <2>1, AnswerStep
<1> QED
  BY <1>5, <1>6, <1>7

LEMMA IncidentStep ==
  ASSUME Inv, NEW c \in Caller, Incident(c) PROVE Inv'
<1>1. c \in Call
  BY BootElsewhere DEF Incident, At, Caller, Reporting
<1>2. /\ At(Boot, "ready") /\ record \in Record /\ call[c] \in CallType /\ Fits(call[c])
      /\ Stage(call[c]) = "report"
  BY <1>1, CallFacts DEF Incident, At, Stage, Saving
<1>3. /\ active' \in Project /\ registers' \in [Project -> Register]
      /\ record' = record /\ planner' = planner /\ UNCHANGED <<file, memory, bounds, answered>>
  BY DEF Incident, memory, Inv, Types
<1>4. CASE Asks(c, "inspect")
  <2>1. Answer(c) /\ queue' = queue
    BY <1>4 DEF Incident
  <2> QED
    BY <1>1, <1>3, <2>1, AnswerStep
<1>5. CASE ~Asks(c, "inspect")
  <2> DEFINE reg == call[c].register \cup {call[c].request.key}
  <2>1. call[c].request \in [kind : {"report"}, key : Report]
    BY <1>2, <1>5 DEF Fits, Opening, Changing, Reporting, Asks
  <2>2. reg \in SUBSET Report
    BY <1>2, <2>1 DEF CallType
  <2>3. SaveRegister(c, reg, "reported") /\ "reported" \in Phase \ Saving
    BY <1>5, PhaseFacts DEF Incident, Reporting
  <2>4. Fits([call[c] EXCEPT !.pc = "reported"])
    BY <1>2, <2>1 DEF Fits, Stage, CallType, Reporting, Saving
  <2> HIDE DEF reg
  <2> QED
    BY <1>1, <1>2, <1>3, <2>2, <2>3, <2>4, SaveRegisterStep
<1> QED
  BY <1>4, <1>5

\* persistIncidentRegister, after its await.
LEMMA RegisteredFacts ==
  ASSUME Inv, NEW c \in Call, Registered(c)
  PROVE  /\ active' \in Project /\ record' \in Record /\ planner' = planner
         /\ registers' \in [Project -> Register]
<1>1. call[c] \in CallType
  BY DEF Inv, Types, Caller
<1>2. call[c].rec \in Record /\ call[c].register \in Register
  BY <1>1 DEF CallType, Register
<1> QED
  BY <1>2 DEF Registered, Inv, Types

LEMMA CreatedStep ==
  ASSUME Inv, NEW c \in Caller, Created(c) PROVE Inv'
<1>1. c \in Call
  BY BootElsewhere DEF Created, At, Caller, Reporting
<1>2. At(Boot, "ready") /\ call[c] \in CallType /\ Fits(call[c]) /\ Stage(call[c]) = "created"
  BY <1>1, CallFacts DEF Created, At, Stage, Saving
<1> DEFINE r == [call[c] EXCEPT !.pc = "report", !.project = active]
<1>3. call' = [call EXCEPT ![c] = r] /\ Registered(c) /\ UNCHANGED <<file, queue, bounds, answered>>
  BY DEF Created
<1>4. r \in CallType /\ r.pc = "report" /\ Stage(r) = "report" /\ r.request = call[c].request
  <2>1. active \in Project
    BY DEF Inv, Types
  <2> QED
    <3>1. r \in CallType
      BY <1>2, <2>1, PhaseNames DEF CallType
    <3> QED
      BY <1>2, <3>1 DEF CallType, Stage, Saving
<1>5. Fits(r)
  BY <1>2, <1>4 DEF Fits, Opening, Changing, Reporting
<1>6. /\ active' \in Project /\ record' \in Record /\ planner' = planner
      /\ registers' \in [Project -> Register]
  BY <1>1, <1>3, RegisteredFacts
<1> HIDE DEF r
<1> QED
  BY <1>1, <1>2, <1>3, <1>4, <1>5, <1>6, CallStep

LEMMA ReportedStep ==
  ASSUME Inv, NEW c \in Caller, Reported(c) PROVE Inv'
<1>1. c \in Call
  BY BootElsewhere DEF Reported, At, Caller, Reporting
<1>2. Answer(c) /\ Done(c) /\ Registered(c) /\ Stage(call[c]) = "reported" /\ UNCHANGED <<file, queue, bounds>>
  BY DEF Reported, At, Stage, Saving
<1>3. /\ active' \in Project /\ record' \in Record /\ planner' = planner
      /\ registers' \in [Project -> Register]
  BY <1>1, <1>2, RegisteredFacts
<1> QED
  BY <1>1, <1>2, <1>3, DoneFacts, AnswerStep

LEMMA RestartStep ==
  ASSUME Inv, Restart PROVE Inv'
<1>1. call' \in [Caller -> CallType] /\ \A c \in Caller : call'[c] = Idle
  BY IdleFacts DEF Restart
<1>2. Types'
  <2>1. answered' \in {{}, answered}
    BY DEF Restart, Mend
  <2> QED
    BY <1>1, <2>1, NullFacts DEF Inv, Types, Restart, NoRegisters, Register
<1>3. Boot \in Caller /\ Call \subseteq Caller
  BY DEF Caller
<1>4. Shapes'
  BY <1>1, <1>3, IdleFacts DEF Shapes, BootFits, Begun, At, Stage, Saving
<1>5. OneWriter'
  BY <1>1, IdleFacts DEF OneWriter, At
<1> QED
  BY <1>2, <1>4, <1>5 DEF Inv

-----------------------------------------------------------------------------
(* The theorems                                                            *)

LEMMA Inductive == Inv /\ [Next]_vars => Inv'
<1> SUFFICES ASSUME Inv, [Next]_vars PROVE Inv'
  OBVIOUS
<1>1. ASSUME NEW c \in Call, NEW r \in Request, Begin(c, r) PROVE Inv'
  BY <1>1, BeginStep
<1>2. CASE LoadDefault
  BY <1>2, LoadDefaultStep
<1>3. ASSUME NEW c \in Caller, Step(c) PROVE Inv'
  <2>1. CASE ReadFile(c)
    BY <2>1, ReadFileStep
  <2>2. CASE WriteFile(c)
    BY <2>2, WriteFileStep
  <2>3. CASE Hydrate(c)
    BY <2>3, HydrateStep
  <2>4. CASE Initialized(c)
    BY <2>4, InitializedStep
  <2>5. CASE LoadProject(c)
    BY <2>5, LoadProjectStep
  <2>6. CASE SaveOpened(c)
    BY <2>6, SaveOpenedStep
  <2>7. CASE Opened(c)
    BY <2>7, OpenedStep
  <2>8. CASE Execute(c)
    BY <2>8, ExecuteStep
  <2>9. CASE Persist(c)
    BY <2>9, PersistStep
  <2>10. CASE Persisted(c)
    BY <2>10, PersistedStep
  <2>11. CASE Bus(c)
    BY <2>11, BusStep
  <2>12. CASE Created(c)
    BY <2>12, CreatedStep
  <2>13. CASE Incident(c)
    BY <2>13, IncidentStep
  <2>14. CASE Reported(c)
    BY <2>14, ReportedStep
  <2> QED
    BY <1>3, <2>1, <2>2, <2>3, <2>4, <2>5, <2>6, <2>7, <2>8, <2>9, <2>10, <2>11, <2>12, <2>13,
       <2>14 DEF Step
<1>4. ASSUME NEW c \in Caller, SaveFails(c) PROVE Inv'
  BY <1>4, SaveFailsStep
<1>5. ASSUME NEW c \in Caller, LoadFails(c) PROVE Inv'
  BY <1>5, LoadFailsStep
<1>6. CASE Restart
  BY <1>6, RestartStep
<1>7. CASE UNCHANGED vars
  <2>1. UNCHANGED <<file, queue, call, active, record, planner, registers, started, failures,
                    restarts, answered>>
    BY <1>7 DEF vars, memory, bounds
  <2>2. Types' /\ OneWriter'
    BY <2>1 DEF Inv, Types, OneWriter, At
  <2>3. Shapes'
    BY <2>1 DEF Inv, Shapes, BootFits, Begun, At
  <2> QED
    BY <2>2, <2>3 DEF Inv
<1> QED
  BY <1>1, <1>2, <1>3, <1>4, <1>5, <1>6, <1>7 DEF Next

LEMMA Invariance == Spec => []Inv
  BY Initial, Inductive, PTL DEF Spec

LEMMA ModesInductive == Modes /\ [Next]_vars => Modes'
<1> SUFFICES ASSUME Modes, [Next]_vars PROVE Modes'
  OBVIOUS
<1>1. CASE UNCHANGED manner
  BY <1>1 DEF Modes, manner
<1>2. ASSUME NEW c \in Call, NEW r \in Request, Begin(c, r) PROVE Modes'
  <2>1. /\ crossed' = (crossed \/ \E d \in Busy : {r.kind, call[d].request.kind} # {"change"})
        /\ mending' = (At(Boot, "ready") /\ Busy = {} /\ r.kind = "open")
    BY <1>2 DEF Begin
  <2> QED
    BY <2>1 DEF Modes
<1>3. ASSUME NEW c \in Caller, Hydrate(c) PROVE Modes'
  BY <1>3 DEF Modes, Hydrate, Mend
<1>4. CASE Restart
  BY <1>4 DEF Modes, Restart, Mend
<1>5. UNCHANGED manner \/ Restart \/ (\E c \in Caller : Hydrate(c))
      \/ \E c \in Call, r \in Request : Begin(c, r)
  BY DEF Next, Step, vars, LoadDefault, SaveFails, LoadFails, ReadFile, WriteFile,
         Initialized, LoadProject, SaveOpened, Opened, Execute, Persist, Persisted, Bus, Created,
         Incident, Reported
<1> QED
  BY <1>1, <1>2, <1>3, <1>4, <1>5

\* The session keeps its types: what is saved and read back is a record, the
\* file has records and no others, whatever calls run side by side or fail.
THEOREM SessionTypeCorrect == Spec => [](Types /\ Modes)
<1>1. Inv => Types
  BY DEF Inv
<1>2. Init => Modes
  BY DEF Init, Modes
<1> QED
  BY <1>1, <1>2, Invariance, ModesInductive, PTL DEF Spec

\* The queue of saves: one caller at a time is between its read of the file and
\* its write, and nothing changes the file between the two.
THEOREM SavesInTurn == Spec => []OneWriter
<1>1. Inv => OneWriter
  BY DEF Inv
<1> QED
  BY <1>1, Invariance, PTL

\* What a step does to the file is what one save does to one record.
LEMMA StepSavesOneRecord == Inv /\ [Next]_vars => SavesOneRecord
<1> SUFFICES ASSUME Inv, [Next]_vars, NEW p \in Project, file'[p] # file[p]
             PROVE  \E c \in Caller : At(c, "writing") /\ call[c].rec.id = p /\ file'[p] = call[c].rec
  BY DEF SavesOneRecord
<1>1. PICK c \in Caller : WriteFile(c)
  BY DEF Next, Step, vars, Begin, LoadDefault, SaveFails, LoadFails, Restart, ReadFile, Hydrate,
         Initialized, LoadProject, SaveOpened, Opened, Execute, Persist, Persisted, Bus, Created,
         Incident, Reported
<1>2. file' = [file EXCEPT ![call[c].rec.id] = call[c].rec]
  BY <1>1, WriteFileReplaces
<1>3. file \in [Project -> Record \cup {Null}]
  BY DEF Inv, Types, File
<1>4. call[c].rec.id = p /\ file'[p] = call[c].rec
  BY <1>2, <1>3
<1> QED
  BY <1>1, <1>4 DEF WriteFile

\* A save of one Project leaves the records of the others as they are stored,
\* though it writes them all from what it read before it awaited.
THEOREM RecordsApart == Spec => EachSaveOneRecord
<1>1. Inv /\ [Next]_vars => [SavesOneRecord]_vars
  BY StepSavesOneRecord
<1> QED
  BY <1>1, Invariance, PTL DEF Spec, EachSaveOneRecord

-----------------------------------------------------------------------------
(* What is answered, and what the session says between calls, while those  *)
(* side by side are commands.                                              *)

After == {"opened", "persisted", "created", "reported"}

Alone ==
  \A c, d \in Call : c # d /\ ~At(c, "idle") /\ ~At(d, "idle") =>
    Asks(c, "change") /\ Asks(d, "change")

OwnRecords == \A p \in Project : file[p] # Null => file[p].id = p

\* Who is in the queue saves, and is there once.
InQueue ==
  \A i \in 1..Len(queue) :
    /\ call[queue[i]].pc \in Saving
    /\ \A j \in 1..Len(queue) : queue[i] = queue[j] => i = j

\* What the initialization loaded or seeds.
BootLoads ==
  /\ At(Boot, "hydrate") => call[Boot].rec = file[Default]
  /\ call[Boot].pc \in Saving => call[Boot].rec = Fresh(Default) /\ file[Default] = Null

\* The parts of the session are about one Project, which is stored.
OneProject ==
  /\ record.id = active /\ planner.id = active /\ file[active] # Null
  /\ registers[active] = record.register /\ record.changes \subseteq planner.changes

\* The record is what is stored, but between a write and the end of its call.
Stored ==
  /\ (\A c \in Call : call[c].pc \notin After) => record = file[active]
  /\ \A c \in Call : call[c].pc \in After =>
       /\ call[c].rec = file[active]
       /\ \A d \in Call \ {c} : call[d].pc \notin After \cup {"writing"}

\* The commands that are saved ascend along the queue, from those in the file.
Ascends ==
  \A i \in 1..Len(queue) :
    /\ file[active].changes \subseteq call[queue[i]].rec.changes
    /\ \A j \in 1..Len(queue) : i < j => call[queue[i]].rec.changes \subseteq call[queue[j]].rec.changes

\* What a call has in hand, by where it is or goes on after its save.
Holds(r) ==
  /\ r.pc \in Saving => r.then \in After
  /\ r.pc = "hydrate" => r.rec = file[r.rec.id]
  /\ Stage(r) \in After => r.rec.id = active /\ r.rec.changes \subseteq planner.changes
  /\ Stage(r) \in {"opened", "persisted"} => r.rec.register = registers[active]
  /\ Stage(r) \in {"created", "reported"} => r.rec.register = r.register
  /\ Stage(r) = "created" => registers[active] = Null
  /\ Stage(r) \in {"report", "reported"} => registers[active] # Null /\ registers[active] \subseteq r.register
  /\ Stage(r) \in {"persist", "persisted", "report", "reported"} => r.project = active
  /\ Stage(r) = "persist" => /\ r.request.key \in planner.changes
                             /\ r.as = "new" => r.request.key \notin r.before.changes
  /\ Stage(r) = "persisted" => r.request.key \in r.rec.changes
  /\ Stage(r) = "reported" => r.request.key \in r.register

InSession == At(Boot, "ready") => OneProject /\ Stored /\ Ascends /\ \A c \in Call : Holds(call[c])

\* What was answered as done is in the file.
Settled == \A a \in answered : a.as = "new" => Has(a.project, a.key)

Durable == Alone /\ OwnRecords /\ InQueue /\ BootLoads /\ InSession /\ Settled

\* What the invariants say of a session that has begun.
LEMMA SessionFacts ==
  ASSUME Inv, Durable, At(Boot, "ready")
  PROVE  /\ OneProject /\ Stored /\ Ascends /\ \A c \in Call : Holds(call[c])
         /\ active \in Project /\ record \in Record /\ planner \in Planner /\ file[active] \in Record
<1>1. OneProject /\ Stored /\ Ascends /\ \A c \in Call : Holds(call[c])
  BY DEF Durable, InSession
<1>2. active \in Project /\ record \in Record /\ planner \in Planner
  BY DEF Inv, Types, Shapes, Begun
<1>3. file[active] \in Record
  BY <1>1, <1>2 DEF OneProject, Inv, Types, File
<1> QED
  BY <1>1, <1>2, <1>3

\* Who saves in a session that has begun is a call.
LEMMA Queued ==
  ASSUME Inv, Durable, At(Boot, "ready"), NEW i \in 1..Len(queue)
  PROVE  queue[i] \in Call /\ call[queue[i]].pc \in Saving /\ Stage(call[queue[i]]) \in After
<1>1. queue[i] \in Caller /\ call[queue[i]].pc \in Saving
  BY DEF Inv, Types, Durable, InQueue
<1>2. queue[i] \in Call
  BY <1>1 DEF Saving, At, Caller
<1>3. Holds(call[queue[i]])
  BY <1>2, SessionFacts
<1> QED
  BY <1>1, <1>2, <1>3 DEF Holds, Stage

\* A call that is no command is alone.
LEMMA OthersIdle ==
  ASSUME Inv, Durable, NEW c \in Call, ~At(c, "idle"), ~Asks(c, "change")
  PROVE  \A d \in Call \ {c} : At(d, "idle")
  BY DEF Durable, Alone

LEMMA NoneQueued ==
  ASSUME Inv, Durable, At(Boot, "ready"), \A d \in Call : call[d].pc \notin Saving
  PROVE  queue = <<>>
<1>1. Len(queue) \in Nat /\ ~(1 \in 1..Len(queue))
  <2>1. Len(queue) \in Nat
    BY DEF Inv, Types
  <2> QED
    BY <2>1, Queued
<1> QED
  BY <1>1 DEF Inv, Types

\* Who is no command, by where it is.
LEMMA NoCommand ==
  ASSUME Inv, NEW c \in Call, Stage(call[c]) \in Opening \cup Reporting
  PROVE  ~Asks(c, "change") /\ ~At(c, "idle")
<1>1. Fits(call[c])
  BY DEF Inv, Shapes
<1> QED
  BY <1>1 DEF Fits, Opening, Changing, Reporting, Asks, At, Stage, Saving

\* The planner has the commands of the file, and of all that is being saved.
LEMMA PlannerHasAll ==
  ASSUME Inv, Durable, At(Boot, "ready")
  PROVE  /\ file[active].changes \subseteq planner.changes
         /\ \A i \in 1..Len(queue) : call[queue[i]].rec.changes \subseteq planner.changes
<1>1. file[active].changes \subseteq planner.changes
  <2>1. CASE \A c \in Call : call[c].pc \notin After
    <3>1. record = file[active] /\ record.changes \subseteq planner.changes
      BY <2>1, SessionFacts DEF Stored, OneProject
    <3> QED
      BY <3>1
  <2>2. CASE \E c \in Call : call[c].pc \in After
    <3>1. PICK c \in Call : call[c].pc \in After
      BY <2>2
    <3>2. Holds(call[c]) /\ call[c].rec = file[active]
      BY <3>1, SessionFacts DEF Stored
    <3>3. Stage(call[c]) \in After
      BY <3>1 DEF Stage, After, Saving
    <3> QED
      BY <3>2, <3>3 DEF Holds
  <2> QED
    BY <2>1, <2>2
<1>3. ASSUME NEW i \in 1..Len(queue) PROVE call[queue[i]].rec.changes \subseteq planner.changes
  BY Queued, SessionFacts DEF Holds
<1> QED
  BY <1>1, <1>3

\* The file and the history as they were.
LEMMA StillDurable ==
  ASSUME Settled, file' = file, answered' = answered
  PROVE  Settled'
  BY DEF Settled, Has

\* A call that is answered is no more in the way of others.
LEMMA AloneStays ==
  ASSUME Types, Alone, NEW c \in Call, \A d \in Call \ {c} : call'[d] = call[d],
         \/ call'[c].pc = "idle"
         \/ ~At(c, "idle") /\ call'[c].request = call[c].request
  PROVE  Alone'
<1> SUFFICES ASSUME NEW d \in Call, NEW e \in Call, d # e, call'[d].pc # "idle", call'[e].pc # "idle"
             PROVE  call'[d].request.kind = "change" /\ call'[e].request.kind = "change"
  BY DEF Alone, At, Asks
<1>1. ~At(d, "idle") /\ ~At(e, "idle") /\ call'[d].request = call[d].request /\ call'[e].request = call[e].request
  BY DEF At
<1> QED
  BY <1>1 DEF Alone, Asks

LEMMA DurableInitial == Init => Durable
<1> SUFFICES ASSUME Init PROVE Durable
  OBVIOUS
<1>1. \A c \in Caller : call[c] = Idle
  BY DEF Init
<1>2. Boot \in Caller /\ Call \subseteq Caller
  BY DEF Caller
<1>3. Idle.pc = "idle"
  BY IdleFacts
<1>4. Alone
  BY <1>1, <1>2, <1>3 DEF Alone, At
<1>5. OwnRecords
  BY DEF OwnRecords, Init, Fresh
<1>6. InQueue
  BY DEF InQueue, Init
<1>7. BootLoads /\ InSession
  BY <1>1, <1>2, <1>3 DEF BootLoads, InSession, At, Saving
<1>8. Settled
  BY DEF Settled, Init
<1> QED
  BY <1>4, <1>5, <1>6, <1>7, <1>8 DEF Durable

-----------------------------------------------------------------------------
(* Where calls go                                                          *)

\* A call goes on without a save: what it holds is all there is to say.
LEMMA CallGoesOn ==
  ASSUME Inv, Durable, NEW c \in Call, NEW r \in CallType,
         call'[c] = r, \A d \in Call \ {c} : call'[d] = call[d],
         Alone', BootLoads', Settled', At(Boot, "ready")' => At(Boot, "ready"),
         call'[Boot].pc \in Saving <=> call[Boot].pc \in Saving,
         call[c].pc \notin Saving \cup After, r.pc \notin Saving \cup After,
         At(Boot, "ready") => Holds(r),
         UNCHANGED <<file, queue, memory>>
  PROVE  Durable'
<1> USE DEF memory
<1>1. OwnRecords'
  BY DEF Durable, OwnRecords
<1>2. InQueue' /\ \A i \in 1..Len(queue) : queue[i] # c
  <2> SUFFICES ASSUME NEW i \in 1..Len(queue)
               PROVE  /\ call'[queue[i]].pc \in Saving /\ queue[i] # c
                      /\ \A j \in 1..Len(queue) : queue[i] = queue[j] => i = j
    BY DEF InQueue
  <2>1. queue[i] \in Caller
    BY DEF Inv, Types
  <2>2. call[queue[i]].pc \in Saving /\ \A j \in 1..Len(queue) : queue[i] = queue[j] => i = j
    BY DEF Durable, InQueue
  <2> QED
    BY <2>1, <2>2 DEF Caller
<1>3. ASSUME At(Boot, "ready")'
      PROVE  OneProject' /\ Stored' /\ Ascends' /\ \A d \in Call : Holds(call[d])'
  <2>1. At(Boot, "ready")
    BY <1>3
  <2>2. OneProject'
    BY <2>1, SessionFacts DEF OneProject
  <2>3. Stored'
    BY <2>1, SessionFacts DEF Stored, Saving
  <2>4. \A i \in 1..Len(queue) : call'[queue[i]] = call[queue[i]]
    BY <1>2, <2>1, Queued
  <2>5. Ascends'
    BY <2>1, <2>4, SessionFacts DEF Ascends
  <2>6. \A d \in Call : Holds(call[d])'
    BY <2>1, SessionFacts DEF Holds
  <2> QED
    BY <2>2, <2>3, <2>5, <2>6
<1> QED
  BY <1>1, <1>2, <1>3 DEF Durable, InSession

\* A call saves a record: it joins the queue behind all whose commands it has.
LEMMA CallSaves ==
  ASSUME Inv, Durable, NEW c \in Call, NEW r \in CallType, At(Boot, "ready"),
         Save(c, r), r.pc = "queued", r.request = call[c].request, Holds(r),
         call[c].pc \notin Saving \cup After \cup {"idle"},
         file[active].changes \subseteq r.rec.changes,
         \A i \in 1..Len(queue) : call[queue[i]].rec.changes \subseteq r.rec.changes,
         UNCHANGED <<file, memory, answered>>
  PROVE  Durable'
<1> USE DEF memory
<1>1. /\ c \in Caller /\ c # Boot /\ Boot \in Caller /\ Call \subseteq Caller
      /\ queue \in Seq(Caller) /\ call \in [Caller -> CallType]
  BY NullFacts DEF Caller, Inv, Types
<1>2. /\ call'[c] = r /\ call'[Boot] = call[Boot] /\ \A d \in Call \ {c} : call'[d] = call[d]
      /\ queue' = Append(queue, c)
  BY <1>1 DEF Save
<1>3. /\ Len(queue) \in Nat /\ Len(queue') = Len(queue) + 1 /\ queue'[Len(queue) + 1] = c
      /\ \A i \in 1..Len(queue) : queue'[i] = queue[i]
  BY <1>1, <1>2
<1>4. \A i \in 1..Len(queue) : /\ queue[i] \in Call \ {c} /\ call'[queue[i]] = call[queue[i]]
                               /\ call[queue[i]].pc \in Saving
  BY <1>2, Queued
<1>5. Alone'
  BY <1>2, AloneStays DEF Durable, Inv, At
<1>6. OwnRecords' /\ Settled'
  BY StillDurable DEF Durable, OwnRecords
<1>7. InQueue'
  <2> SUFFICES ASSUME NEW i \in 1..Len(queue) + 1, NEW j \in 1..Len(queue) + 1
               PROVE  call'[queue'[i]].pc \in Saving /\ (queue'[i] = queue'[j] => i = j)
    BY <1>3 DEF InQueue
  <2>1. \A k \in 1..Len(queue) + 1 : k \in 1..Len(queue) \/ k = Len(queue) + 1
    BY <1>3
  <2>2. call'[queue'[i]].pc \in Saving
    BY <1>2, <1>3, <1>4, <2>1 DEF Saving
  <2>3. i \in 1..Len(queue) /\ j \in 1..Len(queue) => (queue[i] = queue[j] => i = j)
    BY DEF Durable, InQueue
  <2> QED
    BY <1>3, <1>4, <2>1, <2>2, <2>3
<1>8. BootLoads'
  BY <1>2 DEF Durable, BootLoads, At
<1>9. OneProject'
  BY SessionFacts DEF OneProject
<1>10. Stored'
  <2>1. r.pc \notin After \cup {"writing"}
    BY DEF After
  <2> QED
    BY <1>2, <2>1, SessionFacts DEF Stored
<1>11. Ascends'
  <2> SUFFICES ASSUME NEW i \in 1..Len(queue) + 1, NEW j \in 1..Len(queue) + 1
               PROVE  /\ file[active].changes \subseteq call'[queue'[i]].rec.changes
                      /\ i < j => call'[queue'[i]].rec.changes \subseteq call'[queue'[j]].rec.changes
    BY <1>3 DEF Ascends
  <2>1. \A k \in 1..Len(queue) + 1 : k \in 1..Len(queue) \/ k = Len(queue) + 1
    BY <1>3
  <2>2. CASE i \in 1..Len(queue)
    <3>1. file[active].changes \subseteq call[queue[i]].rec.changes
      BY <2>2, SessionFacts DEF Ascends
    <3>2. CASE j \in 1..Len(queue)
      <4>1. i < j => call[queue[i]].rec.changes \subseteq call[queue[j]].rec.changes
        BY <2>2, <3>2, SessionFacts DEF Ascends
      <4> QED
        BY <1>3, <1>4, <2>2, <3>1, <3>2, <4>1
    <3>3. CASE j = Len(queue) + 1
      BY <1>2, <1>3, <1>4, <2>2, <3>1, <3>3
    <3> QED
      BY <2>1, <3>2, <3>3
  <2>3. CASE i = Len(queue) + 1
    BY <1>2, <1>3, <2>1, <2>3
  <2> QED
    BY <2>1, <2>2, <2>3
<1>12. \A d \in Call : Holds(call[d])'
  BY <1>2, SessionFacts DEF Holds
<1> QED
  BY <1>5, <1>6, <1>7, <1>8, <1>9, <1>10, <1>11, <1>12 DEF Durable, InSession

\* A call that has nothing in hand.
LEMMA HoldsNothing ==
  ASSUME NEW r, r.pc \in {"idle", "initialize", "load", "hydrated", "execute", "bus"}
  PROVE  Holds(r) /\ r.pc \notin Saving \cup After
  BY DEF Holds, Stage, Saving, After

\* The same of a call whose initialization is as it was.
LEMMA CallGoes ==
  ASSUME Inv, Durable, NEW c \in Call, NEW r \in CallType, call' = [call EXCEPT ![c] = r],
         r.pc = "idle" \/ (~At(c, "idle") /\ r.request = call[c].request),
         Settled', call[c].pc \notin Saving \cup After, r.pc \notin Saving \cup After,
         At(Boot, "ready") => Holds(r), UNCHANGED <<file, queue, memory>>
  PROVE  Durable'
<1>1. c \in Caller /\ c # Boot /\ Boot \in Caller /\ Call \subseteq Caller /\ call \in [Caller -> CallType]
  BY NullFacts DEF Caller, Inv, Types
<1>2. call'[c] = r /\ call'[Boot] = call[Boot] /\ \A d \in Call \ {c} : call'[d] = call[d]
  BY <1>1
<1>3. Alone'
  BY <1>2, AloneStays DEF Durable, Inv, At
<1>4. BootLoads' /\ (At(Boot, "ready")' => At(Boot, "ready"))
  BY <1>2 DEF Durable, BootLoads, At
<1> QED
  BY <1>2, <1>3, <1>4, CallGoesOn

LEMMA CallEnds ==
  ASSUME Inv, Durable, NEW c \in Call, Answer(c), Settled',
         call[c].pc \notin Saving \cup After, UNCHANGED <<file, queue, memory>>
  PROVE  Durable'
<1>1. Idle \in CallType /\ Idle.pc = "idle"
  BY IdleFacts
<1>2. Holds(Idle) /\ Idle.pc \notin Saving \cup After
  BY <1>1, HoldsNothing
<1> QED
  BY <1>1, <1>2, CallGoes DEF Answer

\* A call is on its way back from a save: the record it has is the one it saved.
LEMMA CallLands ==
  ASSUME Inv, Durable, NEW c \in Call, NEW r \in CallType, call' = [call EXCEPT ![c] = r],
         call[c].pc \in After,
         \/ r.pc = "idle"
         \/ /\ r.pc = "report" /\ call[c].pc = "created" /\ r.request = call[c].request
            /\ r.project = active /\ r.register = call[c].register,
         record' = call[c].rec, registers'[active] = call[c].rec.register,
         Settled', UNCHANGED <<file, queue, active, planner>>
  PROVE  Durable'
<1>1. c \in Caller /\ c # Boot /\ Boot \in Caller /\ Call \subseteq Caller /\ call \in [Caller -> CallType]
  BY NullFacts DEF Caller, Inv, Types
<1>2. call'[c] = r /\ call'[Boot] = call[Boot] /\ \A d \in Call \ {c} : call'[d] = call[d]
  BY <1>1
<1>3. /\ At(Boot, "ready") /\ call[c] \in CallType /\ call[c].pc \notin Saving
      /\ Stage(call[c]) = call[c].pc /\ ~At(c, "idle")
  <2>1. ~At(c, "idle") /\ ~At(c, "initialize") /\ call[c].pc \notin Saving
    BY DEF After, At, Saving
  <2> QED
    BY <2>1, CallFacts DEF Stage
<1>4. /\ call[c].rec = file[active] /\ Holds(call[c])
      /\ \A d \in Call \ {c} : call[d].pc \notin After \cup {"writing"}
  BY <1>3, SessionFacts DEF Stored
<1>5. r.pc \notin Saving \cup After /\ r.pc # "hydrate"
  BY DEF Saving, After
<1>6. Alone'
  BY <1>2, <1>3, AloneStays DEF Durable, Inv, At
<1>7. OwnRecords' /\ BootLoads'
  BY <1>2 DEF Durable, OwnRecords, BootLoads, At
<1>8. InQueue' /\ \A i \in 1..Len(queue) : queue[i] \in Call \ {c}
  <2>1. \A i \in 1..Len(queue) : queue[i] \in Call \ {c} /\ call[queue[i]].pc \in Saving
    BY <1>3, Queued
  <2> QED
    BY <1>2, <2>1 DEF Durable, InQueue
<1>9. OneProject'
  <2>1. call[c].rec.id = active /\ call[c].rec.changes \subseteq planner.changes
    BY <1>3, <1>4 DEF Holds
  <2> QED
    BY <1>3, <2>1, SessionFacts DEF OneProject
<1>10. Stored'
  BY <1>2, <1>4, <1>5 DEF Stored
<1>11. Ascends'
  <2>1. \A i \in 1..Len(queue) : call'[queue[i]] = call[queue[i]]
    BY <1>2, <1>8
  <2>2. Ascends
    BY <1>3, SessionFacts
  <2>3. queue' = queue /\ file' = file /\ active' = active
    OBVIOUS
  <2> SUFFICES ASSUME NEW i \in 1..Len(queue)
               PROVE  /\ file[active].changes \subseteq call'[queue[i]].rec.changes
                      /\ \A j \in 1..Len(queue) : i < j =>
                           call'[queue[i]].rec.changes \subseteq call'[queue[j]].rec.changes
    BY <2>3 DEF Ascends
  <2>4. /\ file[active].changes \subseteq call[queue[i]].rec.changes
        /\ \A j \in 1..Len(queue) : i < j =>
             call[queue[i]].rec.changes \subseteq call[queue[j]].rec.changes
    BY <2>2 DEF Ascends
  <2> QED
    BY <2>1, <2>4
<1>12. ASSUME NEW d \in Call PROVE Holds(call[d])'
  <2>1. CASE d = c
    <3>1. CASE r.pc = "idle"
      BY <1>2, <2>1, <3>1 DEF Holds, Stage, Saving, After
    <3>2. CASE r.pc = "report"
      <4>1. call[c].rec.register = call[c].register /\ call[c].pc = "created"
        BY <1>3, <1>4, <3>2 DEF Holds
      <4>2. call[c].register \in SUBSET Report
        BY <1>3 DEF CallType
      <4>3. registers'[active] = r.register /\ r.register # Null /\ r.project = active
        BY <3>2, <4>1, <4>2, NullFacts
      <4>4. Stage(r) = "report"
        BY <3>2 DEF Stage, Saving
      <4> QED
        BY <1>2, <2>1, <3>2, <4>3, <4>4 DEF Holds, Saving, After
    <3> QED
      BY <3>1, <3>2
  <2>2. CASE d # c /\ registers'[active] = registers[active]
    BY <1>2, <1>3, <2>2, SessionFacts DEF Holds
  <2>3. CASE d # c /\ registers'[active] # registers[active]
    <3>1. Stage(call[c]) \in Reporting
      BY <1>3, <1>4, <2>3 DEF Holds, After, Reporting
    <3>2. At(d, "idle")
      BY <2>3, <3>1, NoCommand, OthersIdle
    <3> QED
      BY <1>2, <2>3, <3>2 DEF At, Holds, Stage, Saving, After
  <2> QED
    BY <2>1, <2>2, <2>3
<1> QED
  BY <1>6, <1>7, <1>8, <1>9, <1>10, <1>11, <1>12 DEF Durable, InSession

-----------------------------------------------------------------------------
(* The steps of the calls                                                  *)

LEMMA BeginDurable ==
  ASSUME Inv, Durable, NEW c \in Call, NEW q \in Request, Begin(c, q), ~crossed'
  PROVE  Durable'
<1> DEFINE r == [call[c] EXCEPT !.pc = "initialize", !.request = q]
           b == [call[Boot] EXCEPT !.pc = IF At(Boot, "idle") THEN "load" ELSE @]
<1>1. /\ c # Boot /\ Boot \notin Call /\ c \in Caller /\ Boot \in Caller /\ Call \subseteq Caller
  BY SessionConstants DEF Caller
<1>2. call[c] \in CallType /\ call[Boot] \in CallType
  BY <1>1 DEF Inv, Types
<1>3. /\ call'[c] = r /\ call'[Boot] = b
      /\ \A d \in Call \ {c} : call'[d] = call[d]
  BY <1>1 DEF Inv, Types, Begin, At
<1>4. r \in CallType /\ r.pc = "initialize" /\ r.request = q
  <2>1. r \in CallType
    BY <1>2, PhaseNames DEF CallType
  <2> QED
    BY <1>2, <2>1 DEF CallType
<1>5. b.pc = (IF At(Boot, "idle") THEN "load" ELSE call[Boot].pc) /\ b.rec = call[Boot].rec
  BY <1>2 DEF CallType
<1> HIDE DEF r, b
<1>6. Alone'
  <2> SUFFICES ASSUME NEW d \in Call, NEW e \in Call, d # e, call'[d].pc # "idle", call'[e].pc # "idle"
               PROVE  call'[d].request.kind = "change" /\ call'[e].request.kind = "change"
    BY DEF Alone, At, Asks
  <2>1. \A x \in Call \ {c} : call'[x].pc # "idle" =>
          q.kind = "change" /\ call'[x].request.kind = "change"
    BY <1>3 DEF Begin, Busy, At
  <2>2. CASE d = c \/ e = c
    BY <1>3, <1>4, <2>1, <2>2
  <2>3. CASE d # c /\ e # c
    BY <2>1, <2>3
  <2> QED
    BY <2>2, <2>3
<1>7. BootLoads' /\ (At(Boot, "ready")' => At(Boot, "ready"))
      /\ (call'[Boot].pc \in Saving <=> call[Boot].pc \in Saving)
  <2>1. /\ b.pc = call[Boot].pc \/ (call[Boot].pc = "idle" /\ b.pc = "load")
        /\ file' = file
    <3>1. file' = file
      BY DEF Begin
    <3>2. CASE At(Boot, "idle")
      BY <1>5, <3>1, <3>2 DEF At
    <3>3. CASE ~At(Boot, "idle")
      BY <1>5, <3>1, <3>3
    <3> QED
      BY <3>2, <3>3
  <2>2. /\ call[Boot].pc = "hydrate" => call[Boot].rec = file[Default]
        /\ call[Boot].pc \in Saving => call[Boot].rec = Fresh(Default) /\ file[Default] = Null
    BY DEF Durable, BootLoads, At
  <2>3. call'[Boot].pc = b.pc /\ call'[Boot].rec = call[Boot].rec
    BY <1>3, <1>5
  <2>4. b.pc \in Saving <=> call[Boot].pc \in Saving
    BY <2>1 DEF Saving
  <2>5. b.pc = "hydrate" => call[Boot].pc = "hydrate"
    BY <2>1
  <2>6. BootLoads'
    BY <2>1, <2>2, <2>3, <2>4, <2>5 DEF BootLoads, At
  <2> QED
    BY <2>1, <2>3, <2>4, <2>6 DEF At
<1>8. Settled' /\ UNCHANGED <<file, queue, memory>>
  BY StillDurable DEF Durable, Begin
<1>9. Holds(r) /\ r.pc \notin Saving \cup After /\ call[c].pc \notin Saving \cup After
  BY <1>4, HoldsNothing DEF Begin, At, Saving, After
<1> QED
  BY <1>3, <1>4, <1>6, <1>7, <1>8, <1>9, CallGoesOn

LEMMA InitializedDurable ==
  ASSUME Inv, Durable, NEW c \in Caller, Initialized(c) PROVE Durable'
<1>1. c \in Call /\ call[c].pc \notin Saving \cup After /\ ~At(c, "idle")
  BY BootElsewhere DEF Initialized, At, Caller, Saving, After
<1>2. UNCHANGED <<file, queue, memory>> /\ Settled'
  BY StillDurable DEF Initialized, Durable
<1>3. CASE Answer(c)
  BY <1>1, <1>2, <1>3, CallEnds
<1>4. CASE At(Boot, "ready") /\ Goto(c, First[call[c].request.kind])
  <2> DEFINE pc == First[call[c].request.kind]
             r  == [call[c] EXCEPT !.pc = pc]
  <2>1. call[c] \in CallType /\ Fits(call[c]) /\ Stage(call[c]) = "initialize"
    BY <1>1 DEF Inv, Types, Shapes, Caller, Initialized, At, Stage, Saving
  <2>2. call[c].request \in Request
    BY <2>1 DEF Fits, Opening, Changing, Reporting
  <2>3. pc \in {"load", "execute", "bus"}
    BY <2>2 DEF Request, First
  <2> HIDE DEF pc
  <2>4. r \in CallType /\ r.request = call[c].request /\ r.pc = pc
    <3>1. pc \in Phase
      BY <2>3 DEF Phase, Opening, Changing, Reporting
    <3>2. r \in CallType
      BY <2>1, <3>1 DEF CallType
    <3> QED
      BY <2>1, <3>2 DEF CallType
  <2>5. call' = [call EXCEPT ![c] = r]
    BY <1>4 DEF Goto, pc
  <2> HIDE DEF r
  <2>6. Holds(r) /\ r.pc \notin Saving \cup After
    BY <2>3, <2>4, HoldsNothing
  <2> QED
    BY <1>1, <1>2, <2>4, <2>5, <2>6, CallGoes
<1> QED
  BY <1>3, <1>4 DEF Initialized

LEMMA LoadProjectDurable ==
  ASSUME Inv, Durable, NEW c \in Caller, LoadProject(c) PROVE Durable'
<1>1. c \in Call /\ call[c].pc \notin Saving \cup After /\ ~At(c, "idle")
  BY DEF LoadProject, At, Caller, Saving, After
<1>2. UNCHANGED <<file, queue, memory>> /\ Settled'
  BY StillDurable DEF LoadProject, Durable
<1> DEFINE p == call[c].request.project
<1>3. CASE file[p] = Null
  <2>1. Answer(c)
    BY <1>3 DEF LoadProject
  <2> QED
    BY <1>1, <1>2, <2>1, CallEnds
<1>4. CASE file[p] # Null
  <2> DEFINE r == [call[c] EXCEPT !.pc = "hydrate", !.rec = file[p]]
  <2>1. At(Boot, "ready") /\ call[c] \in CallType /\ Fits(call[c]) /\ Stage(call[c]) = "load"
    BY <1>1, CallFacts DEF LoadProject, At, Stage, Saving
  <2>2. p \in Project
    BY <2>1 DEF Fits, Opening, Changing, Reporting
  <2>3. file[p] \in Record /\ file[p].id = p
    BY <1>4, <2>2 DEF Inv, Types, File, Durable, OwnRecords
  <2>4. r \in CallType /\ r.request = call[c].request /\ r.pc = "hydrate" /\ r.rec = file[p]
    <3>1. r \in CallType
      BY <2>1, <2>3, PhaseNames DEF CallType
    <3> QED
      BY <2>1, <3>1 DEF CallType
  <2>5. call' = [call EXCEPT ![c] = r]
    BY <1>4 DEF LoadProject
  <2> HIDE DEF r
  <2>6. Holds(r) /\ r.pc \notin Saving \cup After
    BY <2>3, <2>4 DEF Holds, Stage, Saving, After
  <2> QED
    BY <1>1, <1>2, <2>4, <2>5, <2>6, CallGoes
<1> QED
  BY <1>3, <1>4

LEMMA SaveOpenedDurable ==
  ASSUME Inv, Durable, NEW c \in Caller, SaveOpened(c) PROVE Durable'
<1>1. c \in Call /\ call[c].pc \notin Saving \cup After \cup {"idle"} /\ ~At(c, "initialize") /\ ~At(c, "idle")
  BY BootElsewhere DEF SaveOpened, At, Caller, Saving, After
<1>2. /\ At(Boot, "ready") /\ record \in Record /\ call[c] \in CallType
      /\ Stage(call[c]) = "hydrated"
  BY <1>1, CallFacts DEF SaveOpened, At, Stage, Saving
<1>3. record = file[active] /\ queue = <<>>
  <2>1. \A d \in Call \ {c} : At(d, "idle")
    BY <1>1, <1>2, NoCommand, OthersIdle DEF Opening
  <2>2. \A d \in Call : call[d].pc \notin After \cup Saving
    BY <1>1, <2>1 DEF At, After, Saving
  <2> QED
    BY <1>2, <2>2, NoneQueued, SessionFacts DEF Stored
<1> DEFINE r == ToSave(c, record, "opened")
<1>4. /\ r \in CallType /\ r.pc = "queued" /\ r.then = "opened" /\ r.request = call[c].request
      /\ r.rec = record
  <2>1. "opened" \in Phase \ Saving
    BY PhaseFacts DEF Opening
  <2>2. r = [call[c] EXCEPT !.pc = "queued", !.rec = record, !.then = "opened"]
    BY DEF ToSave
  <2>3. r \in CallType
    BY <1>2, <2>1, <2>2, PhaseNames DEF CallType
  <2> QED
    BY <1>2, <2>1, <2>2, <2>3 DEF CallType
<1>5. Save(c, r) /\ UNCHANGED <<file, memory, answered>>
  BY DEF SaveOpened
<1> HIDE DEF r
<1>6. Holds(r)
  <2>1. Stage(r) = "opened" /\ r.pc # "hydrate"
    BY <1>4 DEF Stage, Saving
  <2> QED
    BY <1>2, <1>4, <2>1, SessionFacts DEF Holds, OneProject, After
<1>7. Len(queue) = 0
  BY <1>3
<1> QED
  BY <1>1, <1>2, <1>3, <1>4, <1>5, <1>6, <1>7, CallSaves

LEMMA OpenedDurable ==
  ASSUME Inv, Durable, NEW c \in Caller, Opened(c) PROVE Durable'
<1>1. c \in Call /\ call[c].pc \in After /\ Stage(call[c]) = "opened" /\ ~At(c, "idle") /\ ~At(c, "initialize")
  BY BootElsewhere DEF Opened, At, Caller, After, Stage, Saving
<1>2. registers[active] = call[c].rec.register
  BY <1>1, CallFacts, SessionFacts DEF Holds
<1>3. Settled'
  BY StillDurable DEF Opened, Durable
<1> QED
  BY <1>1, <1>2, <1>3, IdleFacts, CallLands DEF Opened, Answer

LEMMA ExecuteDurable ==
  ASSUME Inv, Durable, NEW c \in Caller, Execute(c) PROVE Durable'
<1>1. c \in Call /\ call[c].pc \notin Saving \cup After /\ ~At(c, "idle") /\ ~At(c, "initialize")
  BY BootElsewhere DEF Execute, At, Caller, Changing, Saving, After
<1>2. /\ At(Boot, "ready") /\ planner \in Planner /\ call[c] \in CallType
      /\ Fits(call[c]) /\ Stage(call[c]) = "execute"
  BY <1>1, CallFacts DEF Execute, At, Stage, Saving
<1> DEFINE k  == call[c].request.key
           as == IF k \in planner.changes THEN "known" ELSE "new"
           r  == IF k \in Locked THEN Idle
                 ELSE [call[c] EXCEPT !.pc = "persist", !.before = planner, !.project = planner.id, !.as = as]
<1>3. k \in Change
  BY <1>2 DEF Fits, Opening, Changing, Reporting
<1>4. planner' \in Planner /\ planner'.id = planner.id /\ planner'.changes = planner.changes \cup {k}
  BY <1>2, <1>3 DEF Execute, Planner
<1>5. call' = [call EXCEPT ![c] = r] /\ UNCHANGED <<file, queue, active, record, registers, answered>>
  BY DEF Execute, Answer
<1>6. c \in Caller /\ c # Boot /\ Boot \in Caller /\ Call \subseteq Caller /\ call \in [Caller -> CallType]
  BY <1>1, NullFacts DEF Caller, Inv, Types
<1>7. call'[c] = r /\ call'[Boot] = call[Boot] /\ \A d \in Call \ {c} : call'[d] = call[d]
  BY <1>5, <1>6
<1>8. \/ r.pc = "idle"
      \/ /\ r.pc = "persist" /\ r.request = call[c].request /\ r.project = planner.id
         /\ r.before = planner /\ (r.as = "new" => k \notin planner.changes)
  <2>1. CASE k \in Locked
    BY <2>1, IdleFacts
  <2>2. CASE k \notin Locked
    BY <1>2, <2>2 DEF CallType
  <2> QED
    BY <2>1, <2>2
<1> HIDE DEF r
<1>9. Alone'
  BY <1>1, <1>7, <1>8, AloneStays DEF Durable, Inv, At
<1>10. OwnRecords' /\ BootLoads' /\ Settled'
  BY <1>5, <1>7, StillDurable DEF Durable, OwnRecords, BootLoads, At
<1>11. InQueue' /\ \A i \in 1..Len(queue) : call'[queue[i]] = call[queue[i]]
  <2>1. \A i \in 1..Len(queue) : queue[i] \in Call \ {c} /\ call[queue[i]].pc \in Saving
    BY <1>1, <1>2, Queued
  <2> QED
    BY <1>5, <1>7, <2>1 DEF Durable, InQueue
<1>12. OneProject' /\ Ascends'
  BY <1>2, <1>4, <1>5, <1>11, SessionFacts DEF OneProject, Ascends
<1>13. Stored'
  <2>1. r.pc \notin After \cup {"writing"}
    BY <1>8 DEF After
  <2> QED
    BY <1>1, <1>2, <1>5, <1>7, <2>1, SessionFacts DEF Stored
<1>14. ASSUME NEW d \in Call PROVE Holds(call[d])'
  <2>1. CASE d = c
    <3>1. CASE r.pc = "idle"
      BY <1>7, <2>1, <3>1 DEF Holds, Stage, Saving, After
    <3>2. CASE r.pc # "idle"
      <4>1. Stage(r) = "persist" /\ planner.id = active
        BY <1>2, <1>8, <3>2, SessionFacts DEF Stage, Saving, OneProject
      <4> QED
        BY <1>4, <1>5, <1>7, <1>8, <2>1, <3>2, <4>1 DEF Holds, Saving, After
    <3> QED
      BY <3>1, <3>2
  <2>2. CASE d # c
    <3>1. Holds(call[d]) /\ call'[d] = call[d]
      BY <1>2, <1>7, <2>2, SessionFacts
    <3> QED
      BY <1>4, <1>5, <3>1 DEF Holds
  <2> QED
    BY <2>1, <2>2
<1> QED
  BY <1>9, <1>10, <1>11, <1>12, <1>13, <1>14 DEF Durable, InSession

LEMMA PersistDurable ==
  ASSUME Inv, Durable, NEW c \in Caller, Persist(c) PROVE Durable'
<1>1. c \in Call /\ call[c].pc \notin Saving \cup After \cup {"idle"} /\ ~At(c, "idle") /\ ~At(c, "initialize")
  BY BootElsewhere DEF Persist, At, Caller, Changing, Saving, After
<1>2. /\ At(Boot, "ready") /\ planner \in Planner /\ record \in Record /\ call[c] \in CallType
      /\ Stage(call[c]) = "persist"
  BY <1>1, CallFacts DEF Persist, At, Stage, Saving
<1>3. /\ call[c].project = active /\ call[c].request.key \in planner.changes
      /\ call[c].as = "new" => call[c].request.key \notin call[c].before.changes
  BY <1>1, <1>2, SessionFacts DEF Holds
<1>4. CASE planner = call[c].before
  <2>1. Answer(c) /\ Done(c) /\ UNCHANGED <<file, queue, memory>>
    BY <1>4 DEF Persist
  <2>2. call[c].as # "new"
    BY <1>3, <1>4
  <2>3. Settled'
    <3> SUFFICES ASSUME NEW a \in answered', a.as = "new" PROVE Has(a.project, a.key)'
      BY DEF Settled
    <3>1. a \in answered
      BY <2>1, <2>2 DEF Done
    <3> QED
      BY <2>1, <3>1 DEF Durable, Settled, Has
  <2> QED
    BY <1>1, <2>1, <2>3, CallEnds
<1>5. CASE planner # call[c].before
  <2> DEFINE rec == [record EXCEPT !.changes = planner.changes]
             r   == ToSave(c, rec, "persisted")
  <2>1. rec \in Record /\ rec.id = record.id /\ rec.register = record.register /\ rec.changes = planner.changes
    BY <1>2 DEF Record, Planner
  <2> HIDE DEF rec
  <2>2. /\ r \in CallType /\ r.pc = "queued" /\ r.then = "persisted" /\ r.rec = rec
        /\ r.request = call[c].request /\ r.project = call[c].project
    <3>1. "persisted" \in Phase \ Saving
      BY PhaseFacts DEF Changing
    <3>2. r = [call[c] EXCEPT !.pc = "queued", !.rec = rec, !.then = "persisted"]
      BY DEF ToSave
    <3>3. r \in CallType
      BY <1>2, <2>1, <3>1, <3>2, PhaseNames DEF CallType
    <3> QED
      BY <1>2, <3>1, <3>2, <3>3 DEF CallType
  <2>3. Save(c, r) /\ UNCHANGED <<file, memory, answered>>
    BY <1>5 DEF Persist, rec
  <2> HIDE DEF r
  <2>4. Stage(r) = "persisted" /\ r.pc # "hydrate"
    BY <2>2 DEF Stage, Saving
  <2>5. OneProject
    BY <1>2, SessionFacts
  <2>6. Holds(r)
    BY <1>3, <2>1, <2>2, <2>4, <2>5 DEF Holds, After, OneProject
  <2>7. /\ file[active].changes \subseteq r.rec.changes
        /\ \A i \in 1..Len(queue) : call[queue[i]].rec.changes \subseteq r.rec.changes
    BY <1>2, <2>1, <2>2, PlannerHasAll
  <2> QED
    BY <1>1, <1>2, <2>2, <2>3, <2>6, <2>7, CallSaves
<1> QED
  BY <1>4, <1>5

\* What is answered as done is in the file, now that its save has landed.
LEMMA DoneIsStored ==
  ASSUME Inv, Durable, NEW c \in Call, call[c].pc \in {"persisted", "reported"}, Done(c), file' = file
  PROVE  Settled'
<1>1. /\ At(Boot, "ready") /\ Stage(call[c]) = call[c].pc /\ call[c].pc \in After /\ call[c] \in CallType
  <2>1. ~At(c, "idle") /\ ~At(c, "initialize") /\ call[c].pc \notin Saving
    BY DEF At, Saving
  <2> QED
    BY <2>1, CallFacts DEF After, Stage
<1>2. Holds(call[c]) /\ call[c].rec = file[active] /\ file[active] # Null /\ call[c].project = active
  BY <1>1, SessionFacts DEF Stored, OneProject, Holds
<1>3. Has(call[c].project, call[c].request.key)
  <2>1. CASE call[c].pc = "persisted"
    BY <1>1, <1>2, <2>1 DEF Holds, Has
  <2>2. CASE call[c].pc = "reported"
    <3>1. call[c].rec.register = call[c].register /\ call[c].request.key \in call[c].register
      BY <1>1, <1>2, <2>2 DEF Holds
    <3>2. call[c].register # Null
      BY <1>1, NullFacts DEF CallType
    <3> QED
      BY <1>2, <3>1, <3>2 DEF Has
  <2> QED
    BY <2>1, <2>2
<1> SUFFICES ASSUME NEW a \in answered', a.as = "new" PROVE Has(a.project, a.key)'
  BY DEF Settled
<1>4. Has(a.project, a.key)
  <2>1. CASE a \in answered
    BY <2>1 DEF Durable, Settled
  <2>2. CASE a \notin answered
    BY <1>3, <2>2 DEF Done
  <2> QED
    BY <2>1, <2>2
<1> QED
  BY <1>4 DEF Has

LEMMA PersistedDurable ==
  ASSUME Inv, Durable, NEW c \in Caller, Persisted(c) PROVE Durable'
<1>1. /\ c \in Call /\ call[c].pc = "persisted" /\ call[c].pc \in After /\ Stage(call[c]) = "persisted"
      /\ ~At(c, "idle") /\ ~At(c, "initialize")
  BY BootElsewhere DEF Persisted, At, Caller, After, Stage, Saving, Changing
<1>2. registers[active] = call[c].rec.register
  BY <1>1, CallFacts, SessionFacts DEF Holds
<1>3. Settled'
  BY <1>1, DoneIsStored DEF Persisted
<1> QED
  BY <1>1, <1>2, <1>3, IdleFacts, CallLands DEF Persisted, Answer

\* A call about incidents has the session, and what is stored, to itself.
LEMMA IncidentsAlone ==
  ASSUME Inv, Durable, NEW c \in Call, Stage(call[c]) \in Reporting, call[c].pc \notin Saving \cup After
  PROVE  /\ At(Boot, "ready") /\ record = file[active] /\ queue = <<>> /\ OneProject
         /\ record \in Record /\ planner \in Planner /\ active \in Project /\ call[c] \in CallType
         /\ Fits(call[c]) /\ Holds(call[c]) /\ ~At(c, "idle")
<1>1. ~At(c, "idle") /\ ~Asks(c, "change") /\ ~At(c, "initialize")
  BY NoCommand DEF At, Stage, Reporting
<1>2. At(Boot, "ready") /\ call[c] \in CallType /\ Fits(call[c])
  BY <1>1, CallFacts
<1>3. \A d \in Call : call[d].pc \notin After \cup Saving
  BY <1>1, OthersIdle DEF At, After, Saving
<1> QED
  BY <1>1, <1>2, <1>3, NoneQueued, SessionFacts DEF Stored

\* persistIncidentRegister, up to its await.
LEMMA SaveRegisterDurable ==
  ASSUME Inv, Durable, NEW c \in Call, Stage(call[c]) \in Reporting, call[c].pc \notin Saving \cup After,
         NEW reg \in SUBSET Report, NEW then \in {"created", "reported"}, SaveRegister(c, reg, then),
         then = "created" => registers[active] = Null,
         then = "reported" => /\ registers[active] # Null /\ registers[active] \subseteq reg
                              /\ call[c].project = active /\ call[c].request.key \in reg,
         UNCHANGED <<file, memory, answered>>
  PROVE  Durable'
<1> DEFINE rec == [record EXCEPT !.register = reg]
           r   == [ToSave(c, rec, then) EXCEPT !.register = reg]
<1>1. /\ At(Boot, "ready") /\ record = file[active] /\ queue = <<>> /\ OneProject
      /\ record \in Record /\ planner \in Planner /\ call[c] \in CallType /\ ~At(c, "idle")
  BY IncidentsAlone
<1>2. rec \in Record /\ rec.id = record.id /\ rec.register = reg /\ rec.changes = record.changes
  BY <1>1 DEF Record, Register
<1> HIDE DEF rec
<1>3. /\ r \in CallType /\ r.pc = "queued" /\ r.then = then /\ r.rec = rec /\ r.register = reg
      /\ r.request = call[c].request /\ r.project = call[c].project
  <2>1. r = [call[c] EXCEPT !.pc = "queued", !.rec = rec, !.then = then, !.register = reg]
    BY DEF ToSave
  <2>2. then \in Phase \ Saving
    BY PhaseFacts DEF Reporting
  <2>3. r \in CallType
    BY <1>1, <1>2, <2>1, <2>2, PhaseNames DEF CallType
  <2> QED
    BY <1>1, <2>1, <2>3 DEF CallType
<1>4. Save(c, r)
  BY DEF SaveRegister, rec
<1> HIDE DEF r
<1>5. Stage(r) = then /\ r.pc # "hydrate"
  BY <1>3 DEF Stage, Saving
<1>6. Holds(r)
  BY <1>1, <1>2, <1>3, <1>5 DEF Holds, After, OneProject
<1>7. /\ file[active].changes \subseteq r.rec.changes
      /\ \A i \in 1..Len(queue) : call[queue[i]].rec.changes \subseteq r.rec.changes
  BY <1>1, <1>2, <1>3
<1>8. call[c].pc \notin Saving \cup After \cup {"idle"}
  BY <1>1 DEF At
<1> QED
  BY <1>1, <1>3, <1>4, <1>6, <1>7, <1>8, CallSaves

LEMMA BusDurable ==
  ASSUME Inv, Durable, NEW c \in Caller, Bus(c) PROVE Durable'
<1>1. c \in Call /\ call[c].pc \notin Saving \cup After /\ Stage(call[c]) \in Reporting
  BY BootElsewhere DEF Bus, At, Caller, Reporting, Saving, After, Stage
<1>2. /\ At(Boot, "ready") /\ call[c] \in CallType /\ ~At(c, "idle") /\ active \in Project
  BY <1>1, IncidentsAlone
<1>3. UNCHANGED <<file, memory, answered>> /\ Settled'
  BY StillDurable DEF Bus, Durable
<1>4. CASE registers[active] # Null
  <2> DEFINE r == [call[c] EXCEPT !.pc = "report", !.register = registers[active], !.project = active]
  <2>1. call' = [call EXCEPT ![c] = r] /\ queue' = queue
    BY <1>4 DEF Bus
  <2>2. registers[active] \in SUBSET Report
    BY <1>2, <1>4 DEF Inv, Types, Register
  <2>3. /\ r \in CallType /\ r.pc = "report" /\ r.request = call[c].request
        /\ r.register = registers[active] /\ r.project = active
    <3>1. r \in CallType
      BY <1>2, <2>2, PhaseNames DEF CallType
    <3> QED
      BY <1>2, <3>1 DEF CallType
  <2> HIDE DEF r
  <2>4. Holds(r) /\ r.pc \notin Saving \cup After
    BY <1>4, <2>3 DEF Holds, Stage, Saving, After
  <2> QED
    BY <1>1, <1>2, <1>3, <2>1, <2>3, <2>4, CallGoes
<1>5. CASE registers[active] = Null /\ active \in Operational
  <2>1. SaveRegister(c, {}, "created")
    BY <1>5 DEF Bus
  <2> QED
    BY <1>1, <1>3, <1>5, <2>1, SaveRegisterDurable
<1>6. CASE registers[active] = Null /\ active \notin Operational
  <2>1. Answer(c) /\ queue' = queue
    BY <1>6 DEF Bus
  <2> QED
    BY <1>1, <1>3, <2>1, CallEnds
<1> QED
  BY <1>4, <1>5, <1>6

LEMMA IncidentDurable ==
  ASSUME Inv, Durable, NEW c \in Caller, Incident(c) PROVE Durable'
<1>1. c \in Call /\ call[c].pc \notin Saving \cup After /\ Stage(call[c]) = "report" /\ "report" \in Reporting
  BY BootElsewhere DEF Incident, At, Caller, Reporting, Saving, After, Stage
<1>2. /\ call[c] \in CallType /\ Fits(call[c]) /\ Holds(call[c])
  BY <1>1, IncidentsAlone
<1>3. UNCHANGED <<file, memory, answered>> /\ Settled'
  BY StillDurable DEF Incident, Durable
<1>4. CASE Asks(c, "inspect")
  <2>1. Answer(c) /\ queue' = queue
    BY <1>4 DEF Incident
  <2> QED
    BY <1>1, <1>3, <2>1, CallEnds
<1>5. CASE ~Asks(c, "inspect")
  <2> DEFINE reg == call[c].register \cup {call[c].request.key}
  <2>1. call[c].request \in [kind : {"report"}, key : Report]
    BY <1>1, <1>2, <1>5 DEF Fits, Opening, Changing, Reporting, Asks
  <2>2. reg \in SUBSET Report
    BY <1>2, <2>1 DEF CallType
  <2>3. SaveRegister(c, reg, "reported")
    BY <1>5 DEF Incident
  <2>4. /\ registers[active] # Null /\ registers[active] \subseteq reg
        /\ call[c].project = active /\ call[c].request.key \in reg
    BY <1>1, <1>2 DEF Holds
  <2> HIDE DEF reg
  <2> QED
    BY <1>1, <1>3, <2>2, <2>3, <2>4, SaveRegisterDurable
<1> QED
  BY <1>4, <1>5

\* What persistIncidentRegister leaves after its await is what it saved.
LEMMA RegisteredIsSaved ==
  ASSUME Inv, Durable, NEW c \in Call, call[c].pc \in {"created", "reported"}, Registered(c)
  PROVE  record' = call[c].rec /\ registers'[active] = call[c].rec.register /\ UNCHANGED <<active, planner>>
<1>1. Stage(call[c]) = call[c].pc /\ ~At(c, "idle") /\ ~At(c, "initialize")
  BY DEF Stage, Saving, At
<1>2. Holds(call[c]) /\ active \in Project /\ registers \in [Project -> Register]
  BY <1>1, CallFacts, SessionFacts DEF Inv, Types
<1> QED
  BY <1>1, <1>2 DEF Holds, Registered

LEMMA CreatedDurable ==
  ASSUME Inv, Durable, NEW c \in Caller, Created(c) PROVE Durable'
<1>1. c \in Call /\ call[c].pc = "created" /\ call[c].pc \in After
  BY BootElsewhere DEF Created, At, Caller, After, Reporting
<1>2. call[c] \in CallType /\ active \in Project
  BY <1>1 DEF Inv, Types, Caller
<1>3. UNCHANGED <<file, queue, active, planner>> /\ Settled'
  BY StillDurable DEF Created, Registered, Durable
<1>4. record' = call[c].rec /\ registers'[active] = call[c].rec.register
  BY <1>1, RegisteredIsSaved DEF Created
<1> DEFINE r == [call[c] EXCEPT !.pc = "report", !.project = active]
<1>5. call' = [call EXCEPT ![c] = r]
  BY DEF Created
<1>6. /\ r \in CallType /\ r.pc = "report" /\ r.request = call[c].request /\ r.project = active
      /\ r.register = call[c].register
  <2>1. r \in CallType
    BY <1>2, PhaseNames DEF CallType
  <2> QED
    BY <1>2, <2>1 DEF CallType
<1> HIDE DEF r
<1> QED
  BY <1>1, <1>3, <1>4, <1>5, <1>6, CallLands

LEMMA ReportedDurable ==
  ASSUME Inv, Durable, NEW c \in Caller, Reported(c) PROVE Durable'
<1>1. c \in Call /\ call[c].pc = "reported" /\ call[c].pc \in After
  BY BootElsewhere DEF Reported, At, Caller, After, Reporting
<1>2. record' = call[c].rec /\ registers'[active] = call[c].rec.register /\ UNCHANGED <<file, queue, active, planner>>
  BY <1>1, RegisteredIsSaved DEF Reported
<1>3. Settled'
  BY <1>1, DoneIsStored DEF Reported
<1> QED
  BY <1>1, <1>2, <1>3, IdleFacts, CallLands DEF Reported, Answer

-----------------------------------------------------------------------------
(* The steps of saves, of the initialization and of the process            *)

LEMMA ReadFileDurable ==
  ASSUME Inv, Durable, NEW c \in Caller, ReadFile(c) PROVE Durable'
<1> DEFINE r == [call[c] EXCEPT !.pc = "writing", !.read = file]
<1>1. /\ call[c] \in CallType /\ call[c].pc = "queued" /\ call \in [Caller -> CallType]
      /\ Boot \in Caller /\ Call \subseteq Caller
  BY DEF ReadFile, Inv, Types, At, Caller
<1>2. /\ call' = [call EXCEPT ![c] = r]
      /\ UNCHANGED <<file, queue, active, record, planner, registers, answered>>
  BY DEF ReadFile, memory
<1>3. /\ r.pc = "writing" /\ Stage(r) = call[c].then /\ Stage(call[c]) = call[c].then
      /\ r.then = call[c].then /\ r.rec = call[c].rec /\ r.request = call[c].request
      /\ r.project = call[c].project /\ r.register = call[c].register
  BY <1>1 DEF CallType, Saving, Stage
<1> HIDE DEF r
<1>4. call'[c] = r /\ \A d \in Caller \ {c} : call'[d] = call[d]
  BY <1>1, <1>2
<1>5. Alone'
  <2>1. CASE c \in Call
    BY <1>1, <1>3, <1>4, <2>1, AloneStays DEF Durable, Inv, At
  <2>2. CASE c \notin Call
    BY <1>1, <1>4, <2>2 DEF Durable, Alone, At, Asks
  <2> QED
    BY <2>1, <2>2
<1>6. OwnRecords' /\ Settled'
  BY <1>2, StillDurable DEF Durable, OwnRecords
<1>7. InQueue' /\ \A i \in 1..Len(queue) : call'[queue[i]].rec = call[queue[i]].rec
  <2>1. \A i \in 1..Len(queue) : queue[i] \in Caller
    BY DEF Inv, Types
  <2>2. \A i \in 1..Len(queue) : /\ call'[queue[i]].pc \in Saving
                                 /\ call'[queue[i]].rec = call[queue[i]].rec
    BY <1>3, <1>4, <2>1 DEF Durable, InQueue, Saving
  <2> QED
    BY <1>2, <2>2 DEF Durable, InQueue
<1>8. BootLoads'
  BY <1>1, <1>2, <1>3, <1>4 DEF Durable, BootLoads, At, Saving
<1>9. ASSUME At(Boot, "ready")'
      PROVE  OneProject' /\ Stored' /\ Ascends' /\ \A d \in Call : Holds(call[d])'
  <2>1. At(Boot, "ready") /\ c \in Call
    BY <1>1, <1>3, <1>4, <1>9 DEF At, Caller
  <2>2. OneProject /\ Stored /\ Ascends /\ \A d \in Call : Holds(call[d])
    BY <2>1, SessionFacts
  <2>3. OneProject' /\ Ascends'
    <3>1. OneProject'
      BY <1>2, <2>2 DEF OneProject
    <3>2. /\ Ascends /\ queue' = queue /\ file' = file /\ active' = active
          /\ \A i \in 1..Len(queue) : call'[queue[i]].rec = call[queue[i]].rec
      BY <1>2, <1>7, <2>2
    <3>3. Ascends'
      BY <3>2 DEF Ascends
    <3> QED
      BY <3>1, <3>3
  <2>4. Stored'
    <3>1. \A d \in Call : call[d].pc \notin After
      BY <1>1 DEF ReadFile, Turn, After
    <3>2. \A d \in Call : call'[d].pc \notin After
      BY <1>1, <1>3, <1>4, <3>1 DEF After
    <3> QED
      BY <1>2, <2>2, <3>1, <3>2 DEF Stored
  <2>5. ASSUME NEW d \in Call PROVE Holds(call[d])'
    <3>1. Holds(call[d])
      BY <2>2
    <3>2. CASE d = c
      <4>1. call[c].then \in After /\ call[c].pc \in Saving
        BY <1>1, <3>1, <3>2 DEF Holds, Saving
      <4> QED
        BY <1>2, <1>3, <1>4, <3>1, <3>2, <4>1 DEF Holds, After
    <3>3. CASE d # c
      BY <1>1, <1>2, <1>4, <3>1, <3>3 DEF Holds
    <3> QED
      BY <3>2, <3>3
  <2> QED
    BY <2>3, <2>4, <2>5
<1> QED
  BY <1>5, <1>6, <1>7, <1>8, <1>9 DEF Durable, InSession

\* What is left of the queue when its head leaves it.
LEMMA QueueAfter ==
  ASSUME Inv, InQueue, NEW c \in Caller, queue # <<>>, Head(queue) = c, queue' = Tail(queue),
         \A d \in Caller \ {c} : call'[d] = call[d]
  PROVE  /\ InQueue' /\ Len(queue) \in Nat /\ Len(queue') = Len(queue) - 1 /\ queue[1] = c /\ 1 \in 1..Len(queue)
         /\ \A i \in 1..Len(queue') : /\ i + 1 \in 2..Len(queue) /\ queue'[i] = queue[i + 1]
                                      /\ queue'[i] \in Caller \ {c} /\ call'[queue'[i]] = call[queue'[i]]
<1>1. queue \in Seq(Caller)
  BY DEF Inv, Types
<1>2. /\ Len(queue) \in Nat /\ Len(queue') = Len(queue) - 1 /\ queue[1] = c /\ 1 \in 1..Len(queue)
      /\ \A i \in 1..Len(queue') : i + 1 \in 1..Len(queue) /\ queue'[i] = queue[i + 1]
  BY <1>1
<1>3. ASSUME NEW i \in 1..Len(queue')
      PROVE  /\ queue'[i] \in Caller \ {c} /\ call'[queue'[i]] = call[queue'[i]]
             /\ call[queue'[i]].pc \in Saving /\ i + 1 \in 2..Len(queue)
             /\ \A j \in 1..Len(queue') : queue'[i] = queue'[j] => i = j
  <2>1. i + 1 \in 1..Len(queue) /\ queue'[i] = queue[i + 1] /\ i + 1 # 1 /\ i + 1 \in 2..Len(queue)
    BY <1>2
  <2>2. queue[i + 1] # queue[1]
    BY <1>2, <2>1 DEF InQueue
  <2>3. queue[i + 1] \in Caller /\ call[queue[i + 1]].pc \in Saving
    BY <1>1, <2>1 DEF InQueue
  <2>4. ASSUME NEW j \in 1..Len(queue'), queue'[i] = queue'[j] PROVE i = j
    <3>1. j + 1 \in 1..Len(queue) /\ queue[j + 1] = queue[i + 1]
      BY <1>2, <2>1, <2>4
    <3>2. i + 1 = j + 1
      BY <2>1, <3>1 DEF InQueue
    <3> QED
      BY <1>2, <3>2
  <2> QED
    BY <1>2, <2>1, <2>2, <2>3, <2>4
<1>4. InQueue'
  BY <1>3 DEF InQueue
<1> QED
  BY <1>2, <1>3, <1>4

\* Along the rest of the queue as along all of it.
LEMMA AscendsAfter ==
  ASSUME Inv, Durable, At(Boot, "ready"), NEW c \in Caller, queue # <<>>, Head(queue) = c,
         queue' = Tail(queue), \A d \in Caller \ {c} : call'[d] = call[d], active' = active,
         \/ file'[active].changes = file[active].changes
         \/ file'[active].changes = call[c].rec.changes
  PROVE  Ascends'
<1>1. Ascends
  BY SessionFacts
<1> SUFFICES ASSUME NEW i \in 1..Len(queue'), NEW j \in 1..Len(queue')
             PROVE  /\ file'[active].changes \subseteq call'[queue'[i]].rec.changes
                    /\ i < j => call'[queue'[i]].rec.changes \subseteq call'[queue'[j]].rec.changes
  BY DEF Ascends
<1>2. /\ Len(queue) \in Nat /\ queue[1] = c /\ 1 \in 1..Len(queue)
      /\ i + 1 \in 2..Len(queue) /\ j + 1 \in 2..Len(queue)
      /\ call'[queue'[i]] = call[queue[i + 1]] /\ call'[queue'[j]] = call[queue[j + 1]]
  BY QueueAfter DEF Durable
<1>3. i + 1 \in 1..Len(queue) /\ j + 1 \in 1..Len(queue) /\ 1 < i + 1 /\ (i < j => i + 1 < j + 1)
  BY <1>2
<1>4. /\ file[active].changes \subseteq call[queue[i + 1]].rec.changes
      /\ call[c].rec.changes \subseteq call[queue[i + 1]].rec.changes
      /\ i < j => call[queue[i + 1]].rec.changes \subseteq call[queue[j + 1]].rec.changes
  BY <1>1, <1>2, <1>3 DEF Ascends
<1> QED
  BY <1>2, <1>4

\* What a call that writes is about to do to the file.
LEMMA WriteGrows ==
  ASSUME Inv, Durable, NEW c \in Call, WriteFile(c)
  PROVE  /\ At(Boot, "ready") /\ queue # <<>> /\ Head(queue) = c
         /\ call[c] \in CallType /\ Holds(call[c]) /\ call[c].then \in After /\ Stage(call[c]) = call[c].then
         /\ \A d \in Call : call[d].pc \notin After
         /\ record = file[active] /\ file[active] # Null /\ active \in Project
         /\ call[c].rec \in Record /\ call[c].rec.id = active
         /\ file' = [file EXCEPT ![active] = call[c].rec]
         /\ file[active].changes \subseteq call[c].rec.changes
         /\ file[active].register # Null =>
              call[c].rec.register # Null /\ file[active].register \subseteq call[c].rec.register
<1>1. c \in Caller /\ call[c].pc = "writing" /\ ~At(c, "idle") /\ ~At(c, "initialize")
  BY DEF WriteFile, At, Caller
<1>2. At(Boot, "ready") /\ call[c] \in CallType
  BY <1>1, CallFacts
<1>3. /\ queue # <<>> /\ Head(queue) = c /\ 1 \in 1..Len(queue) /\ queue[1] = c
  <2>1. queue # <<>> /\ Head(queue) = c /\ queue \in Seq(Caller)
    BY <1>1 DEF Inv, OneWriter, At, Types
  <2> QED
    BY <2>1
<1>4. /\ Holds(call[c]) /\ call[c].then \in After /\ Stage(call[c]) = call[c].then
  BY <1>1, <1>2, SessionFacts DEF Holds, Stage, Saving
<1>5. ASSUME NEW d \in Call PROVE call[d].pc \notin After
  <2>1. c = d => call[d].pc \notin After
    BY <1>1 DEF After
  <2> QED
    BY <1>1, <1>2, <2>1, SessionFacts DEF Stored
<1>6. /\ record = file[active] /\ file[active] # Null /\ active \in Project
      /\ registers[active] = file[active].register
  BY <1>2, <1>5, SessionFacts DEF Stored, OneProject
<1>7. /\ call[c].rec \in Record /\ call[c].rec.id = active
      /\ file' = [file EXCEPT ![active] = call[c].rec]
  BY <1>1, <1>4, WriteFileReplaces DEF Holds
<1>8. file[active].changes \subseteq call[c].rec.changes
  BY <1>2, <1>3, SessionFacts DEF Ascends
<1>9. file[active].register # Null =>
        call[c].rec.register # Null /\ file[active].register \subseteq call[c].rec.register
  <2>1. call[c].register # Null
    BY <1>2, NullFacts DEF CallType
  <2> QED
    BY <1>4, <1>6, <2>1 DEF Holds, After
<1> QED
  BY <1>2, <1>3, <1>4, <1>5, <1>6, <1>7, <1>8, <1>9

LEMMA WriteFileDurable ==
  ASSUME Inv, Durable, NEW c \in Caller, WriteFile(c) PROVE Durable'
<1> DEFINE r == [call[c] EXCEPT !.pc = call[c].then, !.read = Null]
<1>1. /\ call[c] \in CallType /\ call[c].pc = "writing" /\ call \in [Caller -> CallType]
      /\ Boot \in Caller /\ Call \subseteq Caller /\ queue # <<>> /\ Head(queue) = c
  BY DEF WriteFile, Inv, Types, At, Caller, OneWriter
<1>2. /\ call' = [call EXCEPT ![c] = r] /\ queue' = Tail(queue)
      /\ UNCHANGED <<active, record, planner, registers, answered>>
  BY DEF WriteFile, memory
<1>3. /\ r.pc = call[c].then /\ call[c].then \notin Saving
      /\ r.then = call[c].then /\ r.rec = call[c].rec /\ r.request = call[c].request
      /\ r.project = call[c].project /\ r.register = call[c].register
  BY <1>1 DEF CallType
<1> HIDE DEF r
<1>4. call'[c] = r /\ \A d \in Caller \ {c} : call'[d] = call[d]
  BY <1>1, <1>2
<1>5. Alone'
  <2>1. CASE c \in Call
    BY <1>1, <1>3, <1>4, <2>1, AloneStays DEF Durable, Inv, At
  <2>2. CASE c \notin Call
    BY <1>1, <1>4, <2>2 DEF Durable, Alone, At, Asks
  <2> QED
    BY <2>1, <2>2
<1>6. InQueue'
  BY <1>1, <1>2, <1>4, QueueAfter DEF Durable
<1>7. CASE c = Boot
  <2>1. /\ call[Boot].rec = Fresh(Default) /\ file[Default] = Null /\ r.pc = "hydrate"
    BY <1>1, <1>3, <1>7 DEF Durable, BootLoads, Saving, Inv, Shapes, BootFits
  <2>2. file' = [file EXCEPT ![Default] = Fresh(Default)] /\ Fresh(Default).id = Default
    BY <2>1, <1>7, WriteFileReplaces DEF Fresh
  <2>3. file \in File /\ Default \in Project
    BY NullFacts DEF Inv, Types
  <2>4. OwnRecords'
    BY <2>2, <2>3 DEF Durable, OwnRecords, File
  <2>5. BootLoads'
    BY <1>3, <1>4, <1>7, <2>1, <2>2, <2>3 DEF BootLoads, At, Saving, File
  <2>6. Settled'
    <3> SUFFICES ASSUME NEW a \in answered, a.as = "new" PROVE Has(a.project, a.key)'
      BY <1>2 DEF Settled
    <3>1. Has(a.project, a.key) /\ a.project \in Project
      BY DEF Durable, Settled, Inv, Types
    <3>2. file'[a.project] = file[a.project]
      BY <2>1, <2>2, <2>3, <3>1 DEF Has, File
    <3> QED
      BY <3>1, <3>2 DEF Has
  <2>7. ~At(Boot, "ready")'
    BY <1>4, <1>7, <2>1 DEF At
  <2> QED
    BY <1>5, <1>6, <2>4, <2>5, <2>6, <2>7 DEF Durable, InSession
<1>8. CASE c \in Call
  <2>1. /\ At(Boot, "ready") /\ Holds(call[c]) /\ call[c].then \in After /\ Stage(call[c]) = call[c].then
        /\ \A d \in Call : call[d].pc \notin After
        /\ file[active] # Null /\ active \in Project
        /\ call[c].rec \in Record /\ call[c].rec.id = active
        /\ file' = [file EXCEPT ![active] = call[c].rec]
        /\ file[active].changes \subseteq call[c].rec.changes
        /\ file[active].register # Null =>
             call[c].rec.register # Null /\ file[active].register \subseteq call[c].rec.register
    BY <1>8, WriteGrows
  <2>2. file \in File /\ file'[active] = call[c].rec /\ call[c].rec # Null
    BY <2>1, NullFacts DEF Inv, Types, File
  <2>3. OwnRecords'
    BY <2>1, <2>2 DEF Durable, OwnRecords, File
  <2>4. BootLoads'
    <3>1. call'[Boot] = call[Boot] /\ call[Boot].pc = "ready"
      BY <1>4, <1>8, <1>1, <2>1, NullFacts DEF At
    <3> QED
      BY <3>1 DEF BootLoads, At, Saving
  <2>5. Settled'
    <3> SUFFICES ASSUME NEW a \in answered, a.as = "new" PROVE Has(a.project, a.key)'
      BY <1>2 DEF Settled
    <3>1. Has(a.project, a.key) /\ a.project \in Project
      BY DEF Durable, Settled, Inv, Types
    <3>2. CASE a.project = active
      BY <2>1, <2>2, <3>1, <3>2 DEF Has
    <3>3. CASE a.project # active
      <4>1. file'[a.project] = file[a.project]
        BY <2>1, <2>2, <3>1, <3>3 DEF File
      <4> QED
        BY <3>1, <4>1 DEF Has
    <3> QED
      BY <3>2, <3>3
  <2>6. OneProject'
    BY <1>2, <2>1, <2>2, SessionFacts DEF OneProject
  <2>7. Stored'
    <3>1. \A d \in Call \ {c} : call'[d].pc \notin After \cup {"writing"}
      <4> SUFFICES ASSUME NEW d \in Call \ {c} PROVE call[d].pc \notin After \cup {"writing"}
        BY <1>1, <1>4
      <4>1. call[d].pc # "writing"
        BY <1>1 DEF Inv, OneWriter, At
      <4> QED
        BY <2>1, <4>1
    <3>2. call'[c].pc \in After /\ call'[c].rec = file'[active]
      BY <1>3, <1>4, <2>1, <2>2
    <3>3. active' = active
      BY <1>2
    <3> QED
      BY <1>8, <3>1, <3>2, <3>3 DEF Stored
  <2>8. Ascends'
    BY <1>1, <1>2, <1>4, <2>1, <2>2, AscendsAfter
  <2>9. ASSUME NEW d \in Call PROVE Holds(call[d])'
    <3>1. Holds(call[d])
      BY <2>1, SessionFacts
    <3>2. CASE d = c
      <4>1. Stage(r) = call[c].then /\ r.pc # "hydrate"
        BY <1>3, <2>1 DEF Stage, After
      <4> QED
        BY <1>2, <1>3, <1>4, <2>1, <3>1, <3>2, <4>1 DEF Holds, After
    <3>3. CASE d # c
      <4>1. ~At(d, "hydrate")
        <5>1. ~At(c, "idle")
          BY <1>1 DEF At
        <5>2. At(d, "hydrate") => ~Asks(d, "change") /\ ~At(d, "idle")
          BY NoCommand DEF At, Stage, Saving, Opening
        <5> QED
          BY <1>8, <3>3, <5>1, <5>2, OthersIdle
      <4>2. call'[d] = call[d]
        BY <1>1, <1>4, <3>3
      <4> QED
        BY <1>2, <3>1, <4>1, <4>2 DEF Holds, At
    <3> QED
      BY <3>2, <3>3
  <2> QED
    BY <1>5, <1>6, <2>3, <2>4, <2>5, <2>6, <2>7, <2>8, <2>9 DEF Durable, InSession
<1> QED
  BY <1>7, <1>8 DEF Caller

LEMMA SaveFailsDurable ==
  ASSUME Inv, Durable, NEW c \in Caller, SaveFails(c) PROVE Durable'
<1>1. /\ queue # <<>> /\ Head(queue) = c /\ queue' = Tail(queue) /\ call[c].pc \in Saving
      /\ UNCHANGED <<file, active, record, planner, registers, answered>> /\ Reject(c)
  BY DEF SaveFails, Fails, Turn, Inv, OneWriter, At, Saving, memory
<1>2. call \in [Caller -> CallType] /\ Boot \in Caller /\ Call \subseteq Caller /\ Boot \notin Call
  BY NullFacts DEF Inv, Types, Caller
<1>3. \A d \in Caller \ {c} : call'[d] = call[d]
  BY <1>1, <1>2 DEF Reject, Goto
<1>4. c \in Call => call'[c] = Idle /\ Idle.pc = "idle"
  BY <1>1, <1>2, IdleFacts DEF Reject
<1>5. c = Boot => call'[c].pc = "failed"
  BY <1>1, <1>2, PhaseNames DEF Reject, Goto, CallType
<1>6. Alone'
  <2>1. CASE c \in Call
    BY <1>2, <1>3, <1>4, <2>1, AloneStays DEF Durable, Inv
  <2>2. CASE c \notin Call
    BY <1>2, <1>3, <2>2 DEF Durable, Alone, At, Asks
  <2> QED
    BY <2>1, <2>2
<1>7. OwnRecords' /\ Settled'
  BY <1>1, StillDurable DEF Durable, OwnRecords
<1>8. InQueue'
  BY <1>1, <1>3, QueueAfter DEF Durable
<1>9. BootLoads'
  <2>1. CASE c = Boot
    BY <1>5, <2>1 DEF BootLoads, At, Saving
  <2>2. CASE c # Boot
    BY <1>1, <1>2, <1>3, <2>2 DEF Durable, BootLoads, At
  <2> QED
    BY <2>1, <2>2
<1>10. ASSUME At(Boot, "ready")'
       PROVE  OneProject' /\ Stored' /\ Ascends' /\ \A d \in Call : Holds(call[d])'
  <2>1. At(Boot, "ready") /\ c \in Call
    BY <1>2, <1>3, <1>5, <1>10 DEF At, Caller
  <2>2. OneProject /\ Stored /\ Ascends /\ \A d \in Call : Holds(call[d])
    BY <2>1, SessionFacts
  <2>3. OneProject'
    BY <1>1, <2>2 DEF OneProject
  <2>4. Ascends'
    BY <1>1, <1>3, <2>1, AscendsAfter
  <2>5. Stored'
    <3>1. call[c].pc \notin After /\ call'[c].pc \notin After \cup {"writing"}
      BY <1>1, <1>4, <2>1 DEF After, Saving
    <3>2. \A d \in Call \ {c} : call'[d] = call[d]
      BY <1>2, <1>3
    <3>3. record' = record /\ file' = file /\ active' = active
      BY <1>1
    <3> QED
      BY <2>2, <3>1, <3>2, <3>3 DEF Stored
  <2>6. ASSUME NEW d \in Call PROVE Holds(call[d])'
    <3>1. CASE d = c
      BY <1>4, <2>1, <3>1 DEF Holds, Stage, Saving, After
    <3>2. CASE d # c
      <4>1. Holds(call[d]) /\ call'[d] = call[d]
        BY <1>2, <1>3, <2>2, <3>2
      <4> QED
        BY <1>1, <4>1 DEF Holds
    <3> QED
      BY <3>1, <3>2
  <2> QED
    BY <2>3, <2>4, <2>5, <2>6
<1> QED
  BY <1>6, <1>7, <1>8, <1>9, <1>10 DEF Durable, InSession

\* The initialization has the session to itself: calls wait for it.
LEMMA BootAlone ==
  ASSUME Inv, Durable, ~At(Boot, "ready"), NEW c \in Call
  PROVE  /\ call[c].pc \in {"idle", "initialize"}
         /\ \A i \in 1..Len(queue) : queue[i] = Boot
<1>1. \A d \in Call : call[d].pc \in {"idle", "initialize"}
  BY DEF Inv, Shapes, Begun, At
<1>2. \A i \in 1..Len(queue) : queue[i] \in Caller /\ call[queue[i]].pc \in Saving
  BY DEF Inv, Types, Durable, InQueue
<1> QED
  BY <1>1, <1>2 DEF Caller, Saving

\* A step of the initialization, or of nobody, before the session has begun.
LEMMA BootDurable ==
  ASSUME Inv, Durable, ~At(Boot, "ready"), NEW b \in CallType, call' = [call EXCEPT ![Boot] = b],
         b.pc # "ready", InQueue', BootLoads', UNCHANGED <<file, answered>>
  PROVE  Durable'
<1>1. Boot \in Caller /\ Boot \notin Call /\ Call \subseteq Caller /\ call \in [Caller -> CallType]
  BY NullFacts DEF Caller, Inv, Types
<1>2. call'[Boot] = b /\ \A d \in Call : call'[d] = call[d]
  BY <1>1
<1>3. Alone'
  BY <1>2 DEF Durable, Alone, At, Asks
<1>4. OwnRecords' /\ Settled'
  BY StillDurable DEF Durable, OwnRecords
<1>5. ~At(Boot, "ready")'
  BY <1>2 DEF At
<1> QED
  BY <1>3, <1>4, <1>5 DEF Durable, InSession

LEMMA LoadDefaultDurable ==
  ASSUME Inv, Durable, LoadDefault PROVE Durable'
<1>1. /\ Boot \in Caller /\ ~At(Boot, "ready") /\ call[Boot].pc = "load" /\ call[Boot] \in CallType
      /\ call \in [Caller -> CallType] /\ queue \in Seq(Caller) /\ Default \in Project
  BY NullFacts DEF LoadDefault, At, Caller, Inv, Types
<1>2. UNCHANGED <<file, answered>>
  BY DEF LoadDefault
<1>3. \A i \in 1..Len(queue) : queue[i] \in Caller /\ queue[i] # Boot /\ call[queue[i]].pc \in Saving
  BY <1>1 DEF Durable, InQueue, Saving
<1>4. CASE file[Default] # Null
  <2> DEFINE r == [call[Boot] EXCEPT !.pc = "hydrate", !.rec = file[Default]]
  <2>1. call' = [call EXCEPT ![Boot] = r] /\ queue' = queue
    BY <1>4 DEF LoadDefault
  <2>2. r \in CallType /\ r.pc = "hydrate" /\ r.rec = file[Default]
    <3>1. file[Default] \in Record
      BY <1>1, <1>4 DEF Inv, Types, File
    <3>2. r \in CallType
      BY <1>1, <3>1, PhaseNames DEF CallType
    <3> QED
      BY <1>1, <3>2 DEF CallType
  <2> HIDE DEF r
  <2>3. call'[Boot] = r /\ \A d \in Caller \ {Boot} : call'[d] = call[d]
    BY <1>1, <2>1
  <2>4. InQueue'
    BY <1>3, <2>1, <2>3 DEF Durable, InQueue
  <2>5. BootLoads'
    BY <1>2, <2>2, <2>3 DEF BootLoads, At, Saving
  <2> QED
    BY <1>1, <1>2, <2>1, <2>2, <2>4, <2>5, BootDurable
<1>5. CASE file[Default] = Null
  <2> DEFINE r == ToSave(Boot, Fresh(Default), "hydrate")
  <2>1. call' = [call EXCEPT ![Boot] = r] /\ queue' = Append(queue, Boot)
    BY <1>5 DEF LoadDefault, Save
  <2>2. r \in CallType /\ r.pc = "queued" /\ r.rec = Fresh(Default)
    <3>1. Fresh(Default) \in Record
      BY <1>1, FreshIsRecord
    <3>2. r = [call[Boot] EXCEPT !.pc = "queued", !.rec = Fresh(Default), !.then = "hydrate"]
      BY DEF ToSave
    <3>3. r \in CallType
      BY <1>1, <3>1, <3>2, PhaseNames DEF CallType
    <3> QED
      BY <1>1, <3>2, <3>3 DEF CallType
  <2> HIDE DEF r
  <2>3. call'[Boot] = r /\ \A d \in Caller \ {Boot} : call'[d] = call[d]
    BY <1>1, <2>1
  <2>4. queue = <<>>
    <3>1. ~(1 \in 1..Len(queue))
      <4>1. \A c \in Call : call[c].pc \in {"idle", "initialize"}
        BY <1>1, BootAlone
      <4> QED
        BY <1>3, <4>1 DEF Caller, Saving
    <3> QED
      BY <1>1, <3>1
  <2>5. Len(queue') = 1 /\ queue'[1] = Boot
    BY <2>1, <2>4
  <2>6. InQueue'
    BY <2>2, <2>3, <2>5 DEF InQueue, Saving
  <2>7. BootLoads'
    BY <1>2, <1>5, <2>2, <2>3 DEF BootLoads, At, Saving
  <2> QED
    BY <1>1, <1>2, <2>1, <2>2, <2>6, <2>7, BootDurable
<1> QED
  BY <1>4, <1>5

LEMMA LoadFailsDurable ==
  ASSUME Inv, Durable, NEW c \in Caller, LoadFails(c) PROVE Durable'
<1>1. /\ call[c].pc = "load" /\ call[c].pc \notin Saving \cup After /\ Reject(c)
      /\ UNCHANGED <<file, queue, memory, answered>>
  BY DEF LoadFails, Fails, At, Saving, After
<1>2. CASE c \in Call
  <2>1. Answer(c) /\ Settled'
    BY <1>1, <1>2, NullFacts, StillDurable DEF Reject, Answer, Durable
  <2> QED
    BY <1>1, <1>2, <2>1, CallEnds
<1>3. CASE c = Boot
  <2> DEFINE b == [call[Boot] EXCEPT !.pc = "failed"]
  <2>1. Boot \in Caller /\ call[Boot] \in CallType /\ call \in [Caller -> CallType] /\ queue \in Seq(Caller)
    BY <1>3 DEF Inv, Types
  <2>2. call' = [call EXCEPT ![Boot] = b]
    BY <1>1, <1>3 DEF Reject, Goto
  <2>3. b \in CallType /\ b.pc = "failed"
    <3>1. b \in CallType
      BY <2>1, PhaseNames DEF CallType
    <3> QED
      BY <2>1, <3>1 DEF CallType
  <2> HIDE DEF b
  <2>4. call'[Boot] = b /\ \A d \in Caller \ {Boot} : call'[d] = call[d]
    BY <2>1, <2>2
  <2>5. \A i \in 1..Len(queue) : queue[i] \in Caller /\ queue[i] # Boot
    BY <1>1, <1>3, <2>1 DEF Durable, InQueue, Saving
  <2>6. InQueue'
    BY <1>1, <2>4, <2>5 DEF Durable, InQueue
  <2>7. BootLoads'
    BY <2>3, <2>4 DEF BootLoads, At, Saving
  <2>8. ~At(Boot, "ready")
    BY <1>1, <1>3 DEF At
  <2> QED
    BY <1>1, <2>2, <2>3, <2>6, <2>7, <2>8, BootDurable
<1> QED
  BY <1>2, <1>3 DEF Caller

\* The session becomes that of the record that was loaded, when that is still
\* the one in the file, and no other call goes on.
LEMMA HydrateSession ==
  ASSUME Inv, Alone, OwnRecords, InQueue, NEW c \in Caller, Hydrate(c),
         call[c].rec = file[call[c].rec.id], Settled',
         \A d \in Call \ {c} : call[d].pc \in {"idle", "initialize"}
  PROVE  Durable'
<1> DEFINE pc  == IF c = Boot THEN "ready" ELSE "hydrated"
           rec == call[c].rec
           r   == [call[c] EXCEPT !.pc = pc]
<1>1. /\ call[c] \in CallType /\ call[c].pc = "hydrate" /\ Stage(call[c]) = "hydrate"
      /\ call \in [Caller -> CallType] /\ Boot \in Caller /\ Call \subseteq Caller /\ Boot \notin Call
      /\ registers \in [Project -> Register] /\ file \in File
  BY NullFacts DEF Inv, Types, Hydrate, At, Stage, Saving, Caller
<1>2. /\ active' = rec.id /\ record' = rec /\ registers' = [registers EXCEPT ![rec.id] = rec.register]
      /\ planner' = [id |-> rec.id, changes |-> rec.changes]
      /\ call' = [call EXCEPT ![c] = r] /\ UNCHANGED <<file, queue>>
  BY DEF Hydrate, Goto
<1>3. r.pc = pc /\ r.request = call[c].request
  BY <1>1 DEF CallType
<1> HIDE DEF r
<1>4. call'[c] = r /\ \A d \in Caller \ {c} : call'[d] = call[d]
  BY <1>1, <1>2
<1>5. rec \in Record /\ rec.id \in Project /\ rec # Null
  BY <1>1, NullFacts DEF CallType, Record
<1>6. rec = file[rec.id]
  OBVIOUS
<1>7. \A d \in Call \ {c} : call[d].pc \in {"idle", "initialize"}
  OBVIOUS
<1>8. Len(queue) \in Nat /\ ~(1 \in 1..Len(queue))
  <2>1. queue \in Seq(Caller)
    BY DEF Inv, Types
  <2>2. ASSUME 1 \in 1..Len(queue) PROVE FALSE
    <3>1. queue[1] \in Caller /\ call[queue[1]].pc \in Saving
      BY <2>1, <2>2 DEF InQueue
    <3>2. queue[1] = Boot /\ c # Boot
      BY <1>1, <1>7, <3>1 DEF Caller, Saving
    <3>3. At(Boot, "ready")
      BY <1>1, <3>2, CallFacts DEF At, Caller
    <3> QED
      BY <3>1, <3>2, <3>3 DEF At, Saving
  <2> QED
    BY <2>1, <2>2
<1>9. InQueue' /\ Ascends'
  <2>1. \A i \in 1..Len(queue') : FALSE
    BY <1>2, <1>8
  <2> QED
    BY <2>1 DEF InQueue, Ascends
<1>10. Alone'
  <2>1. CASE c \in Call
    BY <1>1, <1>3, <1>4, <2>1, AloneStays DEF Inv, At
  <2>2. CASE c \notin Call
    BY <1>1, <1>4, <2>2 DEF Alone, At, Asks
  <2> QED
    BY <2>1, <2>2
<1>11. OwnRecords' /\ Settled'
  BY <1>2 DEF OwnRecords
<1>12. call'[Boot].pc = "ready"
  <2>1. CASE c = Boot
    BY <1>3, <1>4, <2>1
  <2>2. CASE c \in Call
    BY <1>1, <1>4, <2>2, CallFacts DEF At
  <2> QED
    BY <2>1, <2>2 DEF Caller
<1>13. BootLoads'
  BY <1>12 DEF BootLoads, At, Saving
<1>14. OneProject'
  BY <1>1, <1>2, <1>5, <1>6 DEF OneProject
<1>15. \A d \in Call : call'[d].pc \in {"idle", "initialize", "hydrated"}
  BY <1>1, <1>3, <1>4, <1>7
<1>16. Stored'
  <2>1. \A d \in Call : call'[d].pc \notin After
    BY <1>15 DEF After
  <2>2. record' = file'[active']
    BY <1>2, <1>6
  <2> QED
    BY <2>1, <2>2 DEF Stored
<1>17. ASSUME NEW d \in Call PROVE Holds(call[d])'
  BY <1>15 DEF Holds, Stage, Saving, After
<1> QED
  BY <1>9, <1>10, <1>11, <1>13, <1>14, <1>16, <1>17 DEF Durable, InSession

LEMMA HydrateDurable ==
  ASSUME Inv, Durable, ~crossed, NEW c \in Caller, Hydrate(c) PROVE Durable'
<1> DEFINE rec == call[c].rec
<1>1. /\ call[c] \in CallType /\ call[c].pc = "hydrate" /\ Stage(call[c]) = "hydrate"
  BY NullFacts DEF Inv, Types, Hydrate, At, Stage, Saving, Caller
<1>2. rec \in Record
  BY <1>1 DEF CallType
<1>3. rec = file[rec.id]
  <2>1. CASE c \in Call
    <3>1. At(Boot, "ready")
      BY <1>1, <2>1, CallFacts DEF At
    <3> QED
      BY <1>1, <2>1, <3>1, SessionFacts DEF Holds
  <2>2. CASE c = Boot
    <3>1. rec = file[Default] /\ Default \in Project
      BY <1>1, <2>2, NullFacts DEF Durable, BootLoads, At
    <3> QED
      BY <1>2, <3>1, NullFacts DEF Durable, OwnRecords
  <2> QED
    BY <2>1, <2>2 DEF Caller
<1>4. \A d \in Call \ {c} : call[d].pc \in {"idle", "initialize"}
  <2>1. CASE c \in Call
    BY <1>1, <2>1, NoCommand, OthersIdle DEF At, Opening
  <2>2. CASE c = Boot
    <3>1. ~At(Boot, "ready")
      BY <1>1, <2>2 DEF At
    <3> QED
      BY <3>1, BootAlone
  <2> QED
    BY <2>1, <2>2 DEF Caller
<1>5. Settled'
  BY StillDurable DEF Hydrate, Mend, Durable
<1> QED
  BY <1>3, <1>4, <1>5, HydrateSession DEF Durable

\* A new process has no more than what is in the file.
LEMMA RestartDurable ==
  ASSUME Inv, OwnRecords, crossed \/ Settled, Restart PROVE Durable'
<1>1. /\ \A c \in Caller : call'[c] = Idle
      /\ Idle.pc = "idle" /\ Boot \in Caller /\ Call \subseteq Caller
  BY IdleFacts DEF Restart, Caller
<1>2. queue' = <<>> /\ file' = file /\ answered' = (IF crossed THEN {} ELSE answered)
  BY DEF Restart, Mend
<1>3. Alone' /\ BootLoads' /\ ~At(Boot, "ready")'
  BY <1>1 DEF Alone, BootLoads, At, Saving
<1>4. OwnRecords' /\ Settled'
  BY <1>2, StillDurable DEF Settled, OwnRecords
<1>5. InQueue'
  BY <1>2 DEF InQueue
<1> QED
  BY <1>3, <1>4, <1>5 DEF Durable, InSession

LEMMA DurableInductive ==
  ASSUME Inv, Durable, ~crossed, ~crossed', [Next]_vars
  PROVE  Durable'
<1>1. ASSUME NEW c \in Call, NEW r \in Request, Begin(c, r) PROVE Durable'
  BY <1>1, BeginDurable
<1>2. CASE LoadDefault
  BY <1>2, LoadDefaultDurable
<1>3. ASSUME NEW c \in Caller, Step(c) PROVE Durable'
  <2>1. CASE ReadFile(c)
    BY <2>1, ReadFileDurable
  <2>2. CASE WriteFile(c)
    BY <2>2, WriteFileDurable
  <2>3. CASE Hydrate(c)
    BY <2>3, HydrateDurable
  <2>4. CASE Initialized(c)
    BY <2>4, InitializedDurable
  <2>5. CASE LoadProject(c)
    BY <2>5, LoadProjectDurable
  <2>6. CASE SaveOpened(c)
    BY <2>6, SaveOpenedDurable
  <2>7. CASE Opened(c)
    BY <2>7, OpenedDurable
  <2>8. CASE Execute(c)
    BY <2>8, ExecuteDurable
  <2>9. CASE Persist(c)
    BY <2>9, PersistDurable
  <2>10. CASE Persisted(c)
    BY <2>10, PersistedDurable
  <2>11. CASE Bus(c)
    BY <2>11, BusDurable
  <2>12. CASE Created(c)
    BY <2>12, CreatedDurable
  <2>13. CASE Incident(c)
    BY <2>13, IncidentDurable
  <2>14. CASE Reported(c)
    BY <2>14, ReportedDurable
  <2> QED
    BY <1>3, <2>1, <2>2, <2>3, <2>4, <2>5, <2>6, <2>7, <2>8, <2>9, <2>10, <2>11, <2>12, <2>13,
       <2>14 DEF Step
<1>4. ASSUME NEW c \in Caller, SaveFails(c) PROVE Durable'
  BY <1>4, SaveFailsDurable
<1>5. ASSUME NEW c \in Caller, LoadFails(c) PROVE Durable'
  BY <1>5, LoadFailsDurable
<1>6. CASE Restart
  BY <1>6, RestartDurable DEF Durable
<1>7. CASE UNCHANGED vars
  <2>1. UNCHANGED <<file, queue, call, active, record, planner, registers, answered>>
    BY <1>7 DEF vars, memory
  <2>2. Alone' /\ OwnRecords' /\ InQueue' /\ BootLoads' /\ Settled'
    BY <2>1, StillDurable DEF Durable, Alone, OwnRecords, InQueue, BootLoads, At, Asks
  <2>3. ASSUME At(Boot, "ready")'
        PROVE  OneProject' /\ Stored' /\ Ascends' /\ \A d \in Call : Holds(call[d])'
    <3>1. OneProject /\ Stored /\ Ascends /\ \A d \in Call : Holds(call[d])
      BY <2>1, <2>3, SessionFacts DEF At
    <3>2. OneProject' /\ Stored'
      BY <2>1, <3>1 DEF OneProject, Stored
    <3>3. Ascends'
      BY <2>1, <3>1 DEF Ascends
    <3>4. ASSUME NEW d \in Call PROVE Holds(call[d])'
      <4>1. Holds(call[d])
        BY <3>1
      <4> QED
        BY <2>1, <4>1 DEF Holds
    <3> QED
      BY <3>2, <3>3, <3>4
  <2> QED
    BY <2>2, <2>3 DEF Durable, InSession
<1> QED
  BY <1>1, <1>2, <1>3, <1>4, <1>5, <1>6, <1>7 DEF Next

-----------------------------------------------------------------------------
(* Calls that have crossed, and the open that mends the session            *)

Base == OwnRecords /\ InQueue

\* The open that mends it loads what is stored, alone.
Mending(c) ==
  /\ \A d \in Call \ {c} : At(d, "idle")
  /\ call[c].pc \in {"idle", "initialize", "load", "hydrate"}
  /\ ~At(c, "idle") => call[c].request \in [kind : {"open"}, project : Project]
  /\ At(c, "hydrate") => call[c].rec = file[call[c].rec.id]

Heals == crossed /\ mending => At(Boot, "ready") /\ \E c \in Call : Mending(c)

\* The queue when one caller moves that stays in it, or has no part in it, or
\* joins it.
LEMMA QueueStays ==
  ASSUME Inv, InQueue, NEW c \in Caller, \A d \in Caller \ {c} : call'[d] = call[d],
         \/ queue' = queue /\ (call[c].pc \in Saving => call'[c].pc \in Saving)
         \/ queue' = Append(queue, c) /\ call[c].pc \notin Saving /\ call'[c].pc \in Saving
  PROVE  InQueue'
<1>1. queue \in Seq(Caller)
  BY DEF Inv, Types
<1>2. \A i \in 1..Len(queue) : queue[i] \in Caller /\ call[queue[i]].pc \in Saving
  BY <1>1 DEF InQueue
<1>3. CASE queue' = queue /\ (call[c].pc \in Saving => call'[c].pc \in Saving)
  <2>1. \A i \in 1..Len(queue) : call'[queue[i]].pc \in Saving
    BY <1>2, <1>3
  <2> QED
    BY <1>3, <2>1 DEF InQueue
<1>4. CASE queue' = Append(queue, c) /\ call[c].pc \notin Saving /\ call'[c].pc \in Saving
  <2>1. /\ Len(queue) \in Nat /\ Len(queue') = Len(queue) + 1 /\ queue'[Len(queue) + 1] = c
        /\ \A i \in 1..Len(queue) : queue'[i] = queue[i] /\ queue[i] # c
    BY <1>1, <1>2, <1>4
  <2> SUFFICES ASSUME NEW i \in 1..Len(queue) + 1, NEW j \in 1..Len(queue) + 1
               PROVE  call'[queue'[i]].pc \in Saving /\ (queue'[i] = queue'[j] => i = j)
    BY <2>1 DEF InQueue
  <2>2. \A k \in 1..Len(queue) + 1 : k \in 1..Len(queue) \/ k = Len(queue) + 1
    BY <2>1
  <2>3. call'[queue'[i]].pc \in Saving
    BY <1>2, <1>4, <2>1, <2>2
  <2>4. i \in 1..Len(queue) /\ j \in 1..Len(queue) => (queue[i] = queue[j] => i = j)
    BY DEF InQueue
  <2> QED
    BY <2>1, <2>2, <2>3, <2>4
<1> QED
  BY <1>3, <1>4

\* The queue and the file, whatever calls do.
LEMMA BaseInductive ==
  ASSUME Inv, Base, [Next]_vars
  PROVE  Base'
<1>1. OwnRecords'
  <2>1. CASE file' = file
    BY <2>1 DEF Base, OwnRecords
  <2>2. ASSUME NEW c \in Caller, WriteFile(c) PROVE OwnRecords'
    BY <2>2, WriteFileReplaces DEF Base, OwnRecords, Inv, Types, File, Record
  <2> QED
    BY <2>1, <2>2 DEF Next, Step, vars, Begin, LoadDefault, SaveFails, LoadFails, Restart, ReadFile, Hydrate,
         Initialized, LoadProject, SaveOpened, Opened, Execute, Persist, Persisted, Bus, Created,
         Incident, Reported
<1>2. call \in [Caller -> CallType] /\ Boot \in Caller /\ Boot \notin Call /\ Call \subseteq Caller
  BY NullFacts DEF Inv, Types, Caller
<1>3. Idle.pc \notin Saving /\ {"load", "failed", "ready", "hydrate", "hydrated", "persist", "report"} \cap Saving = {}
  BY IdleFacts DEF Saving
<1>4. InQueue
  BY DEF Base
<1>5. ASSUME NEW c \in Call, NEW r \in Request, Begin(c, r) PROVE InQueue'
  <2>1. \A d \in Caller : call[d].pc \in Saving => call'[d].pc \in Saving
    BY <1>2, <1>5 DEF Begin, At, Saving
  <2>2. queue' = queue /\ \A i \in 1..Len(queue) : queue[i] \in Caller
    BY <1>5 DEF Begin, Inv, Types
  <2>3. \A i \in 1..Len(queue) : call'[queue[i]].pc \in Saving
    BY <1>4, <2>1, <2>2 DEF InQueue
  <2> QED
    BY <1>4, <2>2, <2>3 DEF InQueue
<1>6. ASSUME LoadDefault PROVE InQueue'
  <2>1. \A d \in Caller \ {Boot} : call'[d] = call[d]
    BY <1>2, <1>6 DEF LoadDefault, Save
  <2>2. call[Boot].pc \notin Saving
    BY <1>6 DEF LoadDefault, At, Saving
  <2>3. queue' = queue \/ (queue' = Append(queue, Boot) /\ call'[Boot].pc \in Saving)
    <3>1. CASE file[Default] # Null
      BY <1>6, <3>1 DEF LoadDefault
    <3>2. CASE file[Default] = Null
      <4>1. ToSave(Boot, Fresh(Default), "hydrate").pc = "queued"
        BY <1>2 DEF ToSave, CallType
      <4> QED
        BY <1>2, <1>6, <3>2, <4>1 DEF LoadDefault, Save, Saving
    <3> QED
      BY <3>1, <3>2
  <2> QED
    BY <1>2, <1>4, <2>1, <2>2, <2>3, QueueStays
<1>7. ASSUME NEW c \in Caller, Step(c) \/ LoadFails(c), ~ReadFile(c), ~WriteFile(c) PROVE InQueue'
  <2>1. \A d \in Caller \ {c} : call'[d] = call[d]
    BY <1>2, <1>7 DEF Step, LoadFails, Fails, Reject, Hydrate, Goto, Initialized, Answer, LoadProject,
         SaveOpened, Opened, Execute, Persist, Persisted, Bus, Created, Incident, Reported,
         SaveRegister, Save
  <2>2. call[c].pc \notin Saving
    BY <1>7 DEF Step, LoadFails, Hydrate, Initialized, LoadProject,
         SaveOpened, Opened, Execute, Persist, Persisted, Bus, Created, Incident, Reported, At, Saving
  <2>3. call[c] \in CallType /\ call' = [call EXCEPT ![c] = call'[c]]
    BY <1>2, <2>1, <1>7 DEF Step, LoadFails, Fails, Reject, Hydrate, Goto, Initialized, Answer, LoadProject,
         SaveOpened, Opened, Execute, Persist, Persisted, Bus, Created, Incident, Reported,
         SaveRegister, Save
  <2>4. queue' = queue \/ (\E r : Save(c, r) /\ r.pc = "queued")
    <3>1. \A rec, then, reg : /\ ToSave(c, rec, then).pc = "queued"
                             /\ [ToSave(c, rec, then) EXCEPT !.register = reg].pc = "queued"
      BY <2>3 DEF ToSave, CallType
    <3>2. CASE SaveOpened(c) \/ Persist(c)
      BY <3>1, <3>2 DEF SaveOpened, Persist
    <3>3. CASE Bus(c) \/ Incident(c)
      <4>1. ASSUME NEW reg, NEW then, SaveRegister(c, reg, then)
            PROVE  \E r : Save(c, r) /\ r.pc = "queued"
        BY <3>1, <4>1 DEF SaveRegister
      <4> QED
        BY <3>3, <4>1 DEF Bus, Incident
    <3>4. CASE LoadFails(c) \/ Hydrate(c) \/ Initialized(c) \/ LoadProject(c) \/ Opened(c) \/ Execute(c)
               \/ Persisted(c) \/ Created(c) \/ Reported(c)
      BY <3>4 DEF LoadFails, Hydrate, Initialized, LoadProject, Opened, Execute, Persisted, Created, Reported
    <3> QED
      BY <1>7, <3>2, <3>3, <3>4 DEF Step
  <2>5. queue' = queue \/ (queue' = Append(queue, c) /\ call'[c].pc \in Saving)
    BY <1>2, <2>4 DEF Save, Saving
  <2> QED
    BY <1>4, <2>1, <2>2, <2>5, QueueStays
<1>8. ASSUME NEW c \in Caller, ReadFile(c) PROVE InQueue'
  <2>1. /\ \A d \in Caller \ {c} : call'[d] = call[d]
        /\ queue' = queue /\ call'[c].pc \in Saving
    BY <1>2, <1>8 DEF ReadFile, Saving, CallType
  <2> QED
    BY <1>4, <2>1, QueueStays
<1>9. ASSUME NEW c \in Caller, WriteFile(c) \/ SaveFails(c) PROVE InQueue'
  <2>1. /\ queue # <<>> /\ Head(queue) = c /\ queue' = Tail(queue)
        /\ \A d \in Caller \ {c} : call'[d] = call[d]
    BY <1>2, <1>9 DEF WriteFile, SaveFails, Fails, Reject, Goto, Turn, Inv, OneWriter, At
  <2> QED
    BY <1>4, <2>1, QueueAfter
<1>10. ASSUME Restart PROVE InQueue'
  <2>1. Len(queue') = 0
    BY <1>10 DEF Restart
  <2> QED
    BY <2>1 DEF InQueue
<1>11. ASSUME UNCHANGED vars PROVE InQueue'
  <2>1. queue' = queue /\ call' = call
    BY <1>11 DEF vars
  <2> QED
    BY <1>4, <2>1 DEF InQueue
<1> QED
  BY <1>1, <1>5, <1>6, <1>7, <1>8, <1>9, <1>10, <1>11 DEF Base, Next, Step

\* What calls have crossed stays so until an open that mends the session, or a
\* new process.
LEMMA CrossedEnds ==
  ASSUME crossed, ~crossed', [Next]_vars
  PROVE  Restart \/ \E c \in Caller : Hydrate(c) /\ mending
  BY DEF Next, Step, vars, manner, Begin, LoadDefault, SaveFails, LoadFails, ReadFile, WriteFile, Hydrate,
         Initialized, LoadProject, SaveOpened, Opened, Execute, Persist, Persisted, Bus, Created,
         Incident, Reported

\* It is alone until it has hydrated the session.
LEMMA HealsInductive ==
  ASSUME Inv, Modes, OwnRecords, Heals, [Next]_vars
  PROVE  Heals'
<1> SUFFICES ASSUME crossed', mending'
             PROVE  At(Boot, "ready")' /\ \E c \in Call : Mending(c)'
  BY DEF Heals
<1>1. call \in [Caller -> CallType] /\ Boot \in Caller /\ Boot \notin Call /\ Call \subseteq Caller
  BY NullFacts DEF Inv, Types, Caller
<1>2. ASSUME NEW c \in Call, NEW r \in Request, Begin(c, r)
      PROVE  At(Boot, "ready")' /\ Mending(c)'
  <2>1. At(Boot, "ready") /\ Busy = {} /\ r.kind = "open"
    BY <1>2 DEF Begin
  <2>2. /\ call'[Boot] = call[Boot] /\ \A d \in Call \ {c} : call'[d] = call[d]
        /\ call'[c].pc = "initialize" /\ call'[c].request = r
    BY <1>1, <1>2, <2>1, PhaseNames DEF Begin, At, CallType
  <2>3. r \in [kind : {"open"}, project : Project]
    BY <2>1 DEF Request
  <2>4. \A d \in Call : At(d, "idle")
    BY <2>1 DEF Busy
  <2> QED
    BY <2>1, <2>2, <2>3, <2>4 DEF Mending, At
<1>3. CASE \A c \in Call, r \in Request : ~Begin(c, r)
  <2>1. crossed /\ mending /\ ~Restart /\ \A c \in Caller : ~Hydrate(c)
    BY <1>3 DEF Next, Step, vars, manner, Restart, LoadDefault, SaveFails, LoadFails, ReadFile,
         WriteFile, Hydrate, Mend, Initialized, LoadProject, SaveOpened, Opened, Execute, Persist, Persisted,
         Bus, Created, Incident, Reported
  <2>2. PICK c \in Call : Mending(c)
    BY <2>1 DEF Heals
  <2>3. At(Boot, "ready")
    BY <2>1 DEF Heals
  <2>4. /\ \A d \in Caller \ {c} : call[d].pc \in {"idle", "ready"}
        /\ call[c].pc \in {"idle", "initialize", "load", "hydrate"} /\ c \in Caller /\ c # Boot
    BY <1>1, <2>2, <2>3 DEF Mending, At, Caller
  <2>5. \/ UNCHANGED <<file, call>>
        \/ Initialized(c) \/ LoadProject(c) \/ LoadFails(c)
    <3>1. ASSUME NEW d \in Caller, Step(d) \/ SaveFails(d) \/ LoadFails(d)
          PROVE  d = c /\ (Initialized(c) \/ LoadProject(c) \/ LoadFails(c))
      <4>1. call[d].pc \notin {"idle", "ready"}
        BY <3>1 DEF Step, SaveFails, LoadFails, ReadFile, WriteFile, Hydrate, Initialized, LoadProject,
           SaveOpened, Opened, Execute, Persist, Persisted, Bus, Created, Incident, Reported, At
      <4>2. d = c /\ call[c].pc \in {"initialize", "load", "hydrate"}
        BY <2>4, <4>1
      <4> QED
        BY <2>1, <3>1, <4>2 DEF Step, SaveFails, ReadFile, WriteFile,
           SaveOpened, Opened, Execute, Persist, Persisted, Bus, Created, Incident, Reported, At
    <3>2. ~LoadDefault
      BY <2>3 DEF LoadDefault, At
    <3>3. UNCHANGED vars => UNCHANGED <<file, call>>
      BY DEF vars
    <3> QED
      BY <1>3, <2>1, <3>1, <3>2, <3>3 DEF Next
  <2>6. CASE UNCHANGED <<file, call>>
    BY <2>2, <2>3, <2>6 DEF Mending, At
  <2>7. ASSUME call' = [call EXCEPT ![c] = Idle]
        PROVE  At(Boot, "ready")' /\ Mending(c)'
    BY <1>1, <2>2, <2>3, <2>4, <2>7, IdleFacts DEF Mending, At
  <2>8. CASE Initialized(c)
    <3>1. call' = [call EXCEPT ![c].pc = First[call[c].request.kind]] /\ file' = file /\ ~At(c, "idle")
      BY <2>3, <2>8 DEF Initialized, At, Goto
    <3>2. call[c].request \in [kind : {"open"}, project : Project]
      BY <2>2, <3>1 DEF Mending
    <3>3. First[call[c].request.kind] = "load"
      BY <3>2 DEF First
    <3>4. /\ call'[c].pc = "load" /\ call'[c].request = call[c].request
          /\ \A d \in Caller \ {c} : call'[d] = call[d]
      BY <1>1, <2>4, <3>1, <3>3 DEF CallType
    <3> QED
      BY <1>1, <2>2, <2>3, <2>4, <3>2, <3>4 DEF Mending, At
  <2>9. CASE LoadProject(c)
    <3> DEFINE p == call[c].request.project
    <3>1. p \in Project /\ file' = file
      BY <2>2, <2>9 DEF Mending, LoadProject, At
    <3>2. CASE file[p] = Null
      BY <2>7, <2>9, <3>2 DEF LoadProject, Answer
    <3>3. CASE file[p] # Null
      <4>1. call' = [call EXCEPT ![c].pc = "hydrate", ![c].rec = file[p]]
        BY <2>9, <3>3 DEF LoadProject
      <4>2. /\ call'[c].pc = "hydrate" /\ call'[c].request = call[c].request /\ call'[c].rec = file[p]
            /\ \A d \in Caller \ {c} : call'[d] = call[d]
        BY <1>1, <2>4, <4>1 DEF CallType
      <4>3. file[p].id = p
        BY <3>1, <3>3 DEF OwnRecords
      <4>4. call[c].request \in [kind : {"open"}, project : Project]
        BY <2>2, <2>9 DEF Mending, LoadProject, At
      <4> QED
        BY <1>1, <2>2, <2>3, <2>4, <3>1, <4>2, <4>3, <4>4 DEF Mending, At
    <3> QED
      BY <3>2, <3>3
  <2>10. CASE LoadFails(c)
    BY <2>4, <2>7, <2>10 DEF LoadFails, Fails, Reject
  <2> QED
    BY <2>5, <2>6, <2>7, <2>8, <2>9, <2>10
<1> QED
  BY <1>2, <1>3

\* The session is what the file has again.
LEMMA HydrateMends ==
  ASSUME Inv, Base, Heals, crossed, mending, NEW c \in Caller, Hydrate(c)
  PROVE  Durable'
<1>1. At(Boot, "ready") /\ \E d \in Call : Mending(d)
  BY DEF Heals
<1>2. PICK d \in Call : Mending(d)
  BY <1>1
<1>3. c = d
  BY <1>1, <1>2 DEF Hydrate, Mending, At, Caller
<1>4. /\ call[c].rec = file[call[c].rec.id]
      /\ \A e \in Call \ {c} : call[e].pc \in {"idle", "initialize"}
  BY <1>2, <1>3 DEF Hydrate, Mending, At
<1>5. Alone
  BY <1>2, <1>3 DEF Mending, Alone
<1>6. Settled'
  BY DEF Hydrate, Mend, Settled
<1> QED
  BY <1>4, <1>5, <1>6, HydrateSession DEF Base

Sound == Inv /\ Modes /\ Base /\ Heals /\ (crossed \/ Durable)

LEMMA SoundInductive == Sound /\ [Next]_vars => Sound'
<1> SUFFICES ASSUME Sound, [Next]_vars PROVE Sound'
  OBVIOUS
<1>1. Inv' /\ Modes' /\ Base' /\ Heals'
  BY Inductive, ModesInductive, BaseInductive, HealsInductive DEF Sound, Base
<1>2. CASE crossed'
  BY <1>1, <1>2 DEF Sound
<1>3. CASE ~crossed' /\ ~crossed
  BY <1>1, <1>3, DurableInductive DEF Sound
<1>4. CASE ~crossed' /\ crossed
  <2>1. ASSUME Restart PROVE Durable'
    BY <1>4, <2>1, RestartDurable DEF Sound, Base
  <2>2. ASSUME NEW c \in Caller, Hydrate(c), mending PROVE Durable'
    BY <1>4, <2>2, HydrateMends DEF Sound
  <2> QED
    BY <1>1, <1>4, <2>1, <2>2, CrossedEnds DEF Sound
<1> QED
  BY <1>2, <1>3, <1>4

LEMMA SoundInvariance == Spec => []Sound
<1>1. Init => Sound
  BY Initial, DurableInitial DEF Sound, Modes, Base, Heals, Durable, Init
<1> QED
  BY <1>1, SoundInductive, PTL DEF Spec

\* Whatever calls the client sends side by side: what it was answered as done is
\* in the file, through saves of others, saves that fail, other Projects that are
\* opened, and any number of ends of the process, unless calls that are not all
\* commands have crossed; and so is what is answered after an open that ran alone,
\* or a new process, has put the session right.
THEOREM AnsweredStays == Spec => []AnsweredIsDurable
<1>1. Sound => AnsweredIsDurable
  BY DEF Sound, Durable, Settled, AnsweredIsDurable
<1> QED
  BY <1>1, SoundInvariance, PTL

\* The session is in one piece whenever no call is under way: it is about one
\* Project, as it is stored; also when calls have crossed, from the open on that
\* ran alone after them.
THEOREM SessionInOnePiece == Spec => []SessionAgrees
<1>1. Sound => SessionAgrees
  <2> SUFFICES ASSUME Sound, At(Boot, "ready"), ~crossed, \A c \in Call : At(c, "idle")
               PROVE  /\ record = file[active] /\ record.id = active
                      /\ registers[active] = record.register
                      /\ planner.id = active /\ record.changes \subseteq planner.changes
    BY DEF SessionAgrees
  <2>1. \A c \in Call : call[c].pc \notin After
    BY DEF At, After
  <2>2. OneProject /\ Stored
    BY SessionFacts DEF Sound
  <2> QED
    BY <2>1, <2>2 DEF OneProject, Stored
<1> QED
  BY <1>1, SoundInvariance, PTL
=============================================================================
