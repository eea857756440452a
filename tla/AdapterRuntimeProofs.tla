------------------------ MODULE AdapterRuntimeProofs ------------------------
(***************************************************************************)
(* Proofs about AdapterRuntime, for any executions, inputs, outputs, rate  *)
(* limit and retry policy: executions of one input agree on one output,    *)
(* accepted webhooks on what the store has, and while executions do not    *)
(* cross in the rate limit no window has more starts than it allows.       *)
(***************************************************************************)
EXTENDS AdapterRuntime, KeepTheorems, FiniteSetTheorems, TLAPS

Fields == {"pc", "input", "attempt", "retained", "wake", "output", "result"}

\* An execution that ended well.
Well == {"succeeded", "duplicate"}

Types ==
  /\ DOMAIN run = Run /\ \A r \in Run : DOMAIN run[r] = Fields
  /\ batches \in [Input -> Output \cup {NoOutput}]
  /\ events \in [Event -> Input \cup {None}]

\* What an execution is at says what it executes, and whether it has ended.
Placed(r) ==
  /\ run[r].pc # "idle" => run[r].input \in Input
  /\ run[r].pc # "done" => run[r].result = None
  /\ run[r].pc \in {"lookup", "store"} => Capability[run[r].input] = "import"
  /\ run[r].pc = "store" => run[r].output \in Output
  /\ run[r].pc = "accept" => Capability[run[r].input] = "webhook"

AllPlaced == \A r \in Run : Placed(r)

IInv == Types /\ AllPlaced /\ OneOutput /\ EventsAgree

-----------------------------------------------------------------------------
(* Steps                                                                   *)

\* Of the executions only r goes on, and it has its record.
Only(r) ==
  /\ DOMAIN run' = Run /\ DOMAIN run'[r] = Fields
  /\ \A s \in Run \ {r} : run'[s] = run[s]

\* The stores keep what they have.
Kept ==
  /\ batches' \in [Input -> Output \cup {NoOutput}]
  /\ events' \in [Event -> Input \cup {None}]
  /\ \A i \in Input : batches[i] # NoOutput => batches'[i] = batches[i]
  /\ \A e \in Event : events[e] # None => events'[e] = events[e]

LEMMA TypesKept ==
  ASSUME IInv, NEW r \in Run, Only(r), Kept, Placed(r)'
  PROVE  Types' /\ AllPlaced'
<1>1. Types'
  BY DEF IInv, Types, Only, Kept
<1>2. ASSUME NEW s \in Run \ {r} PROVE Placed(s)'
  BY <1>2 DEF IInv, AllPlaced, Placed, Only
<1> QED BY <1>1, <1>2 DEF AllPlaced

\* An execution that ended well has an input.
LEMMA EndedHasInput ==
  ASSUME IInv, NEW s \in Run, run[s].result \in Well
  PROVE  run[s].input \in Input /\ run[s].pc = "done"
BY DEF IInv, AllPlaced, Placed, Well, None

LEMMA EventOfInput ==
  ASSUME NEW i \in Input, Capability[i] = "webhook"
  PROVE  EventOf[i] \in Event
BY DEF Event

\* The conditions on one execution.
OutputHeld(r) ==
  run[r].result \in Well /\ Kind(r) = "import" =>
    /\ run[r].output = batches[run[r].input] /\ run[r].output # NoOutput
    /\ \A s \in Run : run[s].input = run[r].input /\ run[s].result = "succeeded"
                      /\ run[r].result = "succeeded" => s = r

EventHeld(r) ==
  run[r].result \in Well /\ Kind(r) = "webhook" =>
    /\ events[EventOf[run[r].input]] = run[r].input
    /\ \A s \in Run : run[s].result = "succeeded" /\ run[r].result = "succeeded"
                      /\ run[s].input = run[r].input => s = r

LEMMA Held ==
  /\ OneOutput <=> \A r \in Run : OutputHeld(r)
  /\ EventsAgree <=> \A r \in Run : EventHeld(r)
BY DEF OneOutput, EventsAgree, OutputHeld, EventHeld, Well

\* The execution that goes on takes its own output only from an empty place, and
\* otherwise what is there.
Fair(r) ==
  run'[r].result \in Well =>
    /\ run'[r].input = run[r].input /\ run[r].pc # "idle"
    /\ Kind(r) = "import" =>
         /\ run'[r].output = batches'[run[r].input] /\ run'[r].output # NoOutput
         /\ run'[r].result = "succeeded" => batches[run[r].input] = NoOutput
    /\ Kind(r) = "webhook" =>
         /\ events'[EventOf[run[r].input]] = run[r].input
         /\ run'[r].result = "succeeded" => events[EventOf[run[r].input]] = None

LEMMA Agreement ==
  ASSUME IInv, NEW r \in Run, Only(r), Kept, Placed(r)', Fair(r)
  PROVE  IInv'
<1>1. Types' /\ AllPlaced'
  BY TypesKept
<1>k. ASSUME NEW s \in Run \ {r} PROVE Kind(s)' = Kind(s) /\ run'[s] = run[s]
  BY <1>k DEF Kind, Only
<1>r. run'[r].result \in Well => Kind(r)' = Kind(r) /\ run[r].input \in Input
  BY DEF Fair, Kind, IInv, AllPlaced, Placed
<1>2. ASSUME NEW s \in Run PROVE OutputHeld(s)'
  <2> SUFFICES ASSUME run'[s].result \in Well, Kind(s)' = "import"
               PROVE  /\ run'[s].output = batches'[run'[s].input] /\ run'[s].output # NoOutput
                      /\ \A x \in Run : run'[x].input = run'[s].input /\ run'[x].result = "succeeded"
                                        /\ run'[s].result = "succeeded" => x = s
    BY DEF OutputHeld
  <2>1. CASE s = r
    <3>1. /\ run'[r].input = run[r].input /\ run[r].input \in Input /\ Kind(r) = "import"
          /\ run'[r].output = batches'[run[r].input] /\ run'[r].output # NoOutput
          /\ run'[r].result = "succeeded" => batches[run[r].input] = NoOutput
      BY <1>r, <2>1 DEF Fair
    <3>2. ASSUME NEW x \in Run, run'[x].input = run'[r].input, run'[x].result = "succeeded",
                 run'[r].result = "succeeded", x # r
          PROVE  FALSE
      <4>1. run[x].result = "succeeded" /\ run[x].input = run[r].input
        BY <3>1, <3>2 DEF Only
      <4>2. OutputHeld(x) /\ Kind(x) = "import"
        BY <3>1, <4>1, Held DEF IInv, Kind
      <4> QED BY <3>1, <3>2, <4>1, <4>2 DEF OutputHeld, Well
    <3> QED BY <2>1, <3>1, <3>2
  <2>2. CASE s # r
    <3>1. /\ run'[s] = run[s] /\ run[s].result \in Well /\ Kind(s) = "import" /\ OutputHeld(s)
          /\ run[s].input \in Input
      BY <1>k, <2>2, Held, EndedHasInput DEF IInv
    <3>2. /\ run[s].output = batches[run[s].input] /\ run[s].output # NoOutput
          /\ \A x \in Run : run[x].input = run[s].input /\ run[x].result = "succeeded"
                            /\ run[s].result = "succeeded" => x = s
      BY <3>1 DEF OutputHeld
    <3>3. batches'[run[s].input] = batches[run[s].input]
      BY <3>1, <3>2 DEF Kept
    <3>4. ASSUME NEW x \in Run, run'[x].input = run[s].input, run'[x].result = "succeeded",
                 run[s].result = "succeeded", x # s
          PROVE  FALSE
      <4>1. CASE x = r
        <5>1. run'[r].input = run[r].input /\ Kind(r) = "import"
              /\ batches[run[r].input] = NoOutput
          BY <3>1, <3>4, <4>1 DEF Fair, Kind, Well
        <5> QED BY <3>2, <3>4, <4>1, <5>1
      <4>2. CASE x # r
        BY <3>2, <3>4, <4>2 DEF Only
      <4> QED BY <4>1, <4>2
    <3> QED BY <3>1, <3>2, <3>3, <3>4
  <2> QED BY <2>1, <2>2
<1>3. ASSUME NEW s \in Run PROVE EventHeld(s)'
  <2> SUFFICES ASSUME run'[s].result \in Well, Kind(s)' = "webhook"
               PROVE  /\ events'[EventOf[run'[s].input]] = run'[s].input
                      /\ \A x \in Run : run'[x].result = "succeeded" /\ run'[s].result = "succeeded"
                                        /\ run'[x].input = run'[s].input => x = s
    BY DEF EventHeld
  <2>1. CASE s = r
    <3>1. /\ run'[r].input = run[r].input /\ run[r].input \in Input /\ Kind(r) = "webhook"
          /\ events'[EventOf[run[r].input]] = run[r].input
          /\ run'[r].result = "succeeded" => events[EventOf[run[r].input]] = None
      BY <1>r, <2>1 DEF Fair
    <3>2. ASSUME NEW x \in Run, run'[x].input = run'[r].input, run'[x].result = "succeeded",
                 run'[r].result = "succeeded", x # r
          PROVE  FALSE
      <4>1. run[x].result = "succeeded" /\ run[x].input = run[r].input
        BY <3>1, <3>2 DEF Only
      <4>2. EventHeld(x) /\ Kind(x) = "webhook"
        BY <3>1, <4>1, Held DEF IInv, Kind
      <4> QED BY <3>1, <3>2, <4>1, <4>2, AdapterConstants DEF EventHeld, Well, None
    <3> QED BY <2>1, <3>1, <3>2
  <2>2. CASE s # r
    <3>1. /\ run'[s] = run[s] /\ run[s].result \in Well /\ Kind(s) = "webhook" /\ EventHeld(s)
          /\ run[s].input \in Input
      BY <1>k, <2>2, Held, EndedHasInput DEF IInv
    <3>2. /\ events[EventOf[run[s].input]] = run[s].input
          /\ \A x \in Run : run[x].result = "succeeded" /\ run[s].result = "succeeded"
                            /\ run[x].input = run[s].input => x = s
      BY <3>1 DEF EventHeld
    <3>3. EventOf[run[s].input] \in Event
      BY <3>1, EventOfInput DEF Kind
    <3>4. events[EventOf[run[s].input]] # None
      BY <3>1, <3>2, AdapterConstants DEF None
    <3>5. events'[EventOf[run[s].input]] = events[EventOf[run[s].input]]
      BY <3>3, <3>4 DEF Kept
    <3>6. ASSUME NEW x \in Run, run'[x].input = run[s].input, run'[x].result = "succeeded",
                 run[s].result = "succeeded", x # s
          PROVE  FALSE
      <4>1. CASE x = r
        <5>1. run'[r].input = run[r].input /\ Kind(r) = "webhook"
              /\ events[EventOf[run[r].input]] = None
          BY <3>1, <3>6, <4>1 DEF Fair, Kind, Well
        <5> QED BY <3>4, <3>6, <4>1, <5>1
      <4>2. CASE x # r
        BY <3>2, <3>6, <4>2 DEF Only
      <4> QED BY <4>1, <4>2
    <3> QED BY <3>1, <3>2, <3>5, <3>6
  <2> QED BY <2>1, <2>2
<1>4. OneOutput' /\ EventsAgree'
  BY <1>2, <1>3 DEF OneOutput, EventsAgree, OutputHeld, EventHeld, Well
<1> QED BY <1>1, <1>4 DEF IInv

-----------------------------------------------------------------------------
(* The actions                                                             *)

\* A step that leaves the stores, and ends no execution well.
LEMMA Plain ==
  ASSUME IInv, NEW r \in Run, Only(r), UNCHANGED <<batches, events>>, Placed(r)',
         run'[r].result \notin Well
  PROVE  IInv'
BY Agreement DEF Kept, Fair, IInv, Types

LEMMA StartStep ==
  ASSUME IInv, NEW r \in Run, NEW i \in Input, Start(r, i)
  PROVE  IInv'
<1>1. /\ Only(r) /\ UNCHANGED <<batches, events>>
      /\ run'[r].input = i /\ run'[r].result = None
      /\ run'[r].pc = IF Capability[i] = "import" THEN "lookup" ELSE "acquire"
  BY DEF Start, Only, Fresh, Fields, IInv, Types, stores
<1>2. Placed(r)'
  BY <1>1 DEF Placed
<1> QED BY <1>1, <1>2, Plain DEF Well, None

LEMMA LookupStep ==
  ASSUME IInv, NEW r \in Run, Lookup(r)
  PROVE  IInv'
<1>1. /\ Only(r) /\ UNCHANGED <<batches, events>> /\ run'[r].input = run[r].input
      /\ run[r].pc = "lookup"
  BY DEF Lookup, At, Only, Fields, IInv, Types, stores
<1>2. run[r].input \in Input /\ Capability[run[r].input] = "import" /\ run[r].result = None
  BY <1>1 DEF IInv, AllPlaced, Placed
<1>3. CASE batches[run[r].input] = NoOutput
  <2>1. run'[r].pc = "acquire" /\ run'[r].result = None
    BY <1>2, <1>3 DEF Lookup, IInv, Types, Fields
  <2>2. Placed(r)'
    BY <1>1, <1>2, <2>1 DEF Placed
  <2> QED BY <1>1, <2>1, <2>2, Plain DEF Well, None
<1>4. CASE batches[run[r].input] # NoOutput
  <2>1. /\ run'[r].pc = "done" /\ run'[r].result = "duplicate"
        /\ run'[r].output = batches[run[r].input]
    BY <1>4 DEF Lookup, IInv, Types, Fields
  <2>2. Placed(r)'
    BY <1>1, <1>2, <2>1 DEF Placed
  <2>3. Fair(r)
    BY <1>1, <1>2, <1>4, <2>1 DEF Fair, Kind
  <2>4. Kept
    BY <1>1 DEF Kept, IInv, Types
  <2> QED BY <1>1, <2>2, <2>3, <2>4, Agreement
<1> QED BY <1>3, <1>4

\* Waits, calls and failures: the execution stays one that has not ended, or ends
\* refused or dead-lettered.
LEMMA WaitingStep ==
  ASSUME IInv, NEW r \in Run, run[r].pc \notin {"idle", "done"}, Only(r),
         UNCHANGED <<batches, events>>, run'[r].input = run[r].input,
         \/ run'[r].pc \in {"acquire", "throttled", "calling", "asleep", "bury"}
            /\ run'[r].result = run[r].result
         \/ run'[r].pc = "done" /\ run'[r].result \in {"refused", "dead-lettered"}
  PROVE  IInv'
<1>1. run[r].input \in Input /\ run[r].result = None
  BY DEF IInv, AllPlaced, Placed
<1>2. Placed(r)'
  BY <1>1 DEF Placed
<1> QED BY <1>1, <1>2, Plain DEF Well, None

LEMMA AcquireStep ==
  ASSUME IInv, NEW r \in Run, Acquire(r) \/ Admit(r)
  PROVE  IInv'
<1>1. /\ run[r].pc \in {"acquire", "throttled"} /\ UNCHANGED <<batches, events>>
  BY DEF Acquire, Admit, At, stores
<1>2. CASE \E retained : Call(r, retained)
  <2>1. Only(r) /\ run'[r].input = run[r].input /\ run'[r].pc = "calling"
        /\ run'[r].result = run[r].result
    BY <1>2 DEF Call, Only, Fields, IInv, Types
  <2> QED BY <1>1, <2>1, WaitingStep
<1>3. CASE run' = [run EXCEPT ![r].pc = "throttled", ![r].retained = Recent(times),
                              ![r].wake = Head(Recent(times)) + Window]
  <2>1. Only(r) /\ run'[r].input = run[r].input /\ run'[r].pc = "throttled"
        /\ run'[r].result = run[r].result
    BY <1>3 DEF Only, Fields, IInv, Types
  <2> QED BY <1>1, <2>1, WaitingStep
<1> QED BY <1>2, <1>3 DEF Acquire, Admit

LEMMA AnsweredStep ==
  ASSUME IInv, NEW r \in Run, NEW out \in Output, Answered(r, out)
  PROVE  IInv'
<1>1. /\ Only(r) /\ UNCHANGED <<batches, events>> /\ run'[r].input = run[r].input
      /\ run[r].pc = "calling"
  BY DEF Answered, At, Only, Fields, IInv, Types, stores
<1>2. run[r].input \in Input /\ run[r].result = None
      /\ Capability[run[r].input] \in {"import", "export", "webhook"}
  BY <1>1, AdapterConstants DEF IInv, AllPlaced, Placed
<1>3. CASE Kind(r) = "export"
  <2>1. run'[r].pc = "done" /\ run'[r].result = "succeeded"
    BY <1>3 DEF Answered, IInv, Types, Fields
  <2>2. Placed(r)' /\ Fair(r) /\ Kept
    BY <1>1, <1>2, <1>3, <2>1 DEF Placed, Fair, Kept, IInv, Types
  <2> QED BY <1>1, <2>2, Agreement
<1>4. CASE Kind(r) = "import"
  <2>1. run'[r].pc = "store" /\ run'[r].result = None /\ run'[r].output = out
    BY <1>2, <1>4 DEF Answered, IInv, Types, Fields
  <2>2. Placed(r)'
    BY <1>1, <1>2, <1>4, <2>1 DEF Placed, Kind
  <2> QED BY <1>1, <2>1, <2>2, Plain DEF Well, None
<1>5. CASE Kind(r) = "webhook"
  <2>1. run'[r].pc = "accept" /\ run'[r].result = None
    BY <1>2, <1>5 DEF Answered, IInv, Types, Fields
  <2>2. Placed(r)'
    BY <1>1, <1>2, <1>5, <2>1 DEF Placed, Kind
  <2> QED BY <1>1, <2>1, <2>2, Plain DEF Well, None
<1> QED BY <1>2, <1>3, <1>4, <1>5 DEF Kind

LEMMA EndStep ==
  ASSUME IInv, NEW r \in Run, Refused(r) \/ SinkFails(r) \/ Bury(r)
  PROVE  IInv'
<1>1. /\ run[r].pc \in {"calling", "bury"} /\ UNCHANGED <<batches, events>>
      /\ \E result \in {"refused", "dead-lettered"} : End(r, result)
  BY DEF Refused, SinkFails, Bury, At, stores
<1>2. Only(r) /\ run'[r].input = run[r].input /\ run'[r].pc = "done"
      /\ run'[r].result \in {"refused", "dead-lettered"}
  BY <1>1 DEF End, Only, Fields, IInv, Types
<1> QED BY <1>1, <1>2, WaitingStep

\* The catch block.
LEMMA CaughtFields ==
  ASSUME IInv, NEW r \in Run, NEW retryable, NEW asked, Caught(r, retryable, asked)
  PROVE  /\ Only(r) /\ run'[r].input = run[r].input /\ run'[r].result = run[r].result
         /\ run'[r].pc \in {"asleep", "bury"}
BY DEF Caught, Only, Fields, IInv, Types

LEMMA ThrowsStep ==
  ASSUME IInv, NEW r \in Run, NEW retryable, NEW asked, Throws(r, retryable, asked)
  PROVE  IInv'
<1>1. /\ run[r].pc = "calling" /\ UNCHANGED <<batches, events>> /\ Caught(r, retryable, asked)
  BY DEF Throws, At, stores
<1> QED BY <1>1, CaughtFields, WaitingStep

LEMMA WakeStep ==
  ASSUME IInv, NEW r \in Run, Wake(r)
  PROVE  IInv'
<1>1. /\ Only(r) /\ UNCHANGED <<batches, events>> /\ run'[r].input = run[r].input
      /\ run'[r].pc = "acquire" /\ run'[r].result = run[r].result /\ run[r].pc = "asleep"
  BY DEF Wake, At, Only, Fields, IInv, Types, stores
<1> QED BY <1>1, WaitingStep

LEMMA StoreStep ==
  ASSUME IInv, NEW r \in Run, Store(r)
  PROVE  IInv'
<1> DEFINE i == run[r].input
<1>1. /\ Only(r) /\ UNCHANGED events /\ run'[r].input = i /\ run[r].pc = "store"
  BY DEF Store, End, At, Only, Fields, IInv, Types
<1>2. i \in Input /\ Capability[i] = "import" /\ run[r].output \in Output /\ run[r].result = None
  BY <1>1 DEF IInv, AllPlaced, Placed
<1>3. CASE batches[i] = NoOutput
  <2>1. /\ batches' = [batches EXCEPT ![i] = run[r].output]
        /\ run'[r].pc = "done" /\ run'[r].result = "succeeded" /\ run'[r].output = run[r].output
    BY <1>3 DEF Store, End, IInv, Types, Fields
  <2>2. Kept
    BY <1>1, <1>2, <1>3, <2>1 DEF Kept, IInv, Types
  <2>3. batches'[i] = run[r].output /\ run[r].output # NoOutput
    BY <1>2, <2>1, AdapterConstants DEF IInv, Types
  <2>4. Placed(r)' /\ Fair(r)
    BY <1>1, <1>2, <1>3, <2>1, <2>3 DEF Placed, Fair, Kind
  <2> QED BY <1>1, <2>2, <2>4, Agreement
<1>4. CASE batches[i] # NoOutput
  <2>1. /\ UNCHANGED batches /\ run'[r].pc = "done" /\ run'[r].result = "duplicate"
        /\ run'[r].output = batches[i]
    BY <1>4 DEF Store, IInv, Types, Fields
  <2>2. Placed(r)' /\ Fair(r) /\ Kept
    BY <1>1, <1>2, <1>4, <2>1 DEF Placed, Fair, Kind, Kept, IInv, Types
  <2> QED BY <1>1, <2>2, Agreement
<1> QED BY <1>3, <1>4

LEMMA StoreFailsStep ==
  ASSUME IInv, NEW r \in Run, NEW retryable, StoreFails(r, retryable)
  PROVE  IInv'
<1> DEFINE i == run[r].input
<1>1. /\ run[r].pc = "store" /\ UNCHANGED events /\ Caught(r, retryable, 0)
      /\ \/ UNCHANGED batches
         \/ batches' = [batches EXCEPT ![i] = IF @ = NoOutput THEN run[r].output ELSE @]
  BY DEF StoreFails, At
<1>2. i \in Input /\ run[r].output \in Output /\ run[r].result = None
  BY <1>1 DEF IInv, AllPlaced, Placed
<1>3. Kept
  BY <1>1, <1>2 DEF Kept, IInv, Types
<1>4. /\ Only(r) /\ run'[r].input = i /\ run'[r].result = None
      /\ run'[r].pc \in {"asleep", "bury"}
  BY <1>1, <1>2, CaughtFields
<1>5. Placed(r)'
  BY <1>2, <1>4 DEF Placed
<1>6. Fair(r)
  BY <1>4 DEF Fair, Well, None
<1> QED BY <1>3, <1>4, <1>5, <1>6, Agreement

LEMMA AcceptFailsStep ==
  ASSUME IInv, NEW r \in Run, AcceptFails(r)
  PROVE  IInv'
<1> DEFINE i == run[r].input
           e == EventOf[i]
<1>1. /\ Only(r) /\ UNCHANGED batches /\ run'[r].input = i /\ run[r].pc = "accept"
      /\ run'[r].pc = "done" /\ run'[r].result = "refused"
  BY DEF AcceptFails, End, At, Only, Fields, IInv, Types
<1>2. i \in Input /\ e \in Event
  BY <1>1, EventOfInput DEF IInv, AllPlaced, Placed
<1>3. Kept
  <2>1. \/ UNCHANGED events
        \/ events' = [events EXCEPT ![e] = IF @ = None THEN i ELSE @]
    BY DEF AcceptFails
  <2> QED BY <1>1, <1>2, <2>1 DEF Kept, IInv, Types
<1>4. Placed(r)' /\ Fair(r)
  BY <1>1, <1>2 DEF Placed, Fair, Well
<1> QED BY <1>1, <1>3, <1>4, Agreement

LEMMA AcceptStep ==
  ASSUME IInv, NEW r \in Run, Accept(r)
  PROVE  IInv'
<1> DEFINE i == run[r].input
           e == EventOf[i]
<1>1. /\ Only(r) /\ UNCHANGED batches /\ run'[r].input = i /\ run[r].pc = "accept"
      /\ run'[r].pc = "done"
  BY DEF Accept, End, At, Only, Fields, IInv, Types
<1>2. i \in Input /\ Capability[i] = "webhook" /\ e \in Event
  BY <1>1, EventOfInput DEF IInv, AllPlaced, Placed
<1>3. Placed(r)'
  BY <1>1, <1>2 DEF Placed
<1>4. CASE events[e] = None
  <2>1. events' = [events EXCEPT ![e] = i] /\ run'[r].result = "succeeded"
    BY <1>4 DEF Accept, End, IInv, Types, Fields
  <2>2. Kept
    BY <1>1, <1>2, <1>4, <2>1 DEF Kept, IInv, Types
  <2>3. events'[e] = i
    BY <1>2, <2>1 DEF IInv, Types
  <2>4. Fair(r)
    BY <1>1, <1>2, <1>4, <2>3 DEF Fair, Kind
  <2> QED BY <1>1, <1>3, <2>2, <2>4, Agreement
<1>5. CASE events[e] # None
  <2>1. UNCHANGED events /\ run'[r].result = IF events[e] = i THEN "duplicate" ELSE "refused"
    BY <1>5 DEF Accept, End, IInv, Types, Fields
  <2>2. Kept /\ Fair(r)
    BY <1>1, <1>2, <1>5, <2>1 DEF Kept, Fair, Kind, Well, IInv, Types
  <2> QED BY <1>1, <1>3, <2>2, Agreement
<1> QED BY <1>4, <1>5

-----------------------------------------------------------------------------
(* The theorems                                                            *)

LEMMA InitInvariant == Init => IInv
<1> SUFFICES ASSUME Init PROVE IInv
  OBVIOUS
<1>1. \A r \in Run : run[r] = Fresh
  BY DEF Init
<1>2. Types
  BY DEF Init, Types, Fresh, Fields
<1>3. AllPlaced
  BY <1>1 DEF AllPlaced, Placed, Fresh
<1>4. OneOutput /\ EventsAgree
  BY <1>1 DEF OneOutput, EventsAgree, Fresh, None
<1> QED BY <1>2, <1>3, <1>4 DEF IInv

LEMMA StepInvariant == IInv /\ [Next]_vars => IInv'
<1> SUFFICES ASSUME IInv, [Next]_vars PROVE IInv'
  OBVIOUS
<1>1. CASE UNCHANGED <<run, batches, events>>
  BY <1>1 DEF IInv, Types, AllPlaced, Placed, OneOutput, EventsAgree, Kind
<1>2. ASSUME NEW r \in Run, Work(r) PROVE IInv'
  BY <1>2, LookupStep, AcquireStep, WakeStep, EndStep, StoreStep, AcceptStep, AnsweredStep DEF Work
<1>3. ASSUME NEW r \in Run, Trouble(r) PROVE IInv'
  BY <1>3, EndStep, AcceptFailsStep, StoreFailsStep, ThrowsStep DEF Trouble
<1> QED BY <1>1, <1>2, <1>3, StartStep DEF Next, Tick, vars, stores

\* In every reachable state the strengthened invariant holds.
THEOREM Invariance == Spec => []IInv
BY InitInvariant, StepInvariant, PTL DEF Spec

\* Executions of one input that end well return the one output that was stored,
\* and one of them at most calls it its own.
THEOREM Outputs == Spec => []OneOutput
<1>1. IInv => OneOutput
  BY DEF IInv
<1> QED BY <1>1, Invariance, PTL

\* An accepted webhook says what the store has under its event id, and is new once.
THEOREM Webhooks == Spec => []EventsAgree
<1>1. IInv => EventsAgree
  BY DEF IInv
<1> QED BY <1>1, Invariance, PTL
-----------------------------------------------------------------------------
(* The rate limit.  As long as no call is let through while another one waits, *)
(* the times that are noted, and those an execution has read before it sleeps, *)
(* are the last calls: all but some that are out of the window.                *)

\* The sequence has the calls after the first m, which are out of the window.
LastCalls(ts, m) ==
  /\ m \in 0 .. Len(calls) /\ ts \in Seq(Nat) /\ Len(ts) = Len(calls) - m
  /\ \A j \in 1 .. Len(ts) : ts[j] = calls[m + j]
  /\ \A j \in 1 .. m : calls[j] + Window <= now

Noted(ts) == Len(ts) <= Requests /\ \E m \in 0 .. Len(calls) : LastCalls(ts, m)

ClockType == /\ now \in Nat /\ calls \in Seq(Nat)
             /\ DOMAIN run = Run /\ \A r \in Run : DOMAIN run[r] = Fields

\* Calls are noted in the order of time.
InOrder == \A j \in 1 .. Len(calls) :
             calls[j] <= now /\ \A i \in 1 .. j : calls[i] <= calls[j]

\* A window lies between a call and the one that comes Requests calls later.
Spaced == \A j \in 1 .. Len(calls) :
            j + Requests <= Len(calls) => calls[j] + Window <= calls[j + Requests]

Sleeper(r) ==
  /\ Noted(run[r].retained) /\ Len(run[r].retained) = Requests
  /\ run[r].wake = run[r].retained[1] + Window

RateInv ==
  /\ ClockType /\ InOrder
  /\ ~crossed => Noted(times) /\ Spaced /\ \A r \in Run : At(r, "throttled") => Sleeper(r)

\* What is filtered out of the last calls is what has left the window.
LEMMA RecentIsLast ==
  ASSUME ClockType, InOrder, NEW ts, NEW m \in 0 .. Len(calls), LastCalls(ts, m)
  PROVE  \E n \in 0 .. Len(calls) :
           /\ LastCalls(Recent(ts), n) /\ m <= n
           /\ Len(ts) > 0 /\ ts[1] + Window <= now => m < n
<1> DEFINE D == {i \in DOMAIN ts : ts[i] + Window > now}
<1>a. Window \in Nat
  BY AdapterConstants
<1>b. /\ now \in Nat /\ calls \in Seq(Nat) /\ m \in 0 .. Len(calls) /\ ts \in Seq(Nat)
      /\ Len(ts) = Len(calls) - m
      /\ \A j \in 1 .. Len(ts) : ts[j] = calls[m + j]
      /\ \A j \in 1 .. m : calls[j] + Window <= now
  BY DEF LastCalls, ClockType
<1>c. /\ Len(calls) \in Nat /\ Len(ts) \in Nat /\ m \in Nat /\ DOMAIN ts = 1 .. Len(ts)
      /\ \A j \in 1 .. Len(ts) : ts[j] \in Nat
      /\ \A j \in 1 .. Len(calls) : calls[j] \in Nat
  BY <1>b
<1>n. /\ Window \in Nat /\ now \in Nat /\ Len(calls) \in Nat /\ Len(ts) \in Nat /\ m \in Nat
      /\ ts \in Seq(Nat) /\ Len(ts) = Len(calls) - m
      /\ \A j \in 1 .. Len(ts) : ts[j] \in Nat /\ ts[j] = calls[m + j]
      /\ \A j \in 1 .. m : calls[j] + Window <= now
  BY <1>a, <1>b, <1>c
<1>d. /\ D \subseteq 1 .. Len(ts)
      /\ \A i \in 1 .. Len(ts) : i \in D <=> ts[i] + Window > now
  BY <1>c
<1>e. Recent(ts) = Keep(ts, D)
  BY DEF Recent
<1> HIDE DEF D
<1>1. \A j \in 1 .. Len(ts) : \A i \in 1 .. j : ts[i] <= ts[j]
  <2> SUFFICES ASSUME NEW j \in 1 .. Len(ts), NEW i \in 1 .. j PROVE ts[i] <= ts[j]
    OBVIOUS
  <2>1. m + j \in 1 .. Len(calls) /\ m + i \in 1 .. m + j /\ i \in 1 .. Len(ts)
    BY <1>n
  <2> QED BY <1>n, <2>1 DEF InOrder
<1>2. \E k \in 0 .. Len(ts) : D = k + 1 .. Len(ts)
  <2>1. CASE D = {}
    <3>1. Len(ts) \in 0 .. Len(ts) /\ Len(ts) + 1 .. Len(ts) = {}
      BY <1>n
    <3> QED BY <2>1, <3>1
  <2>2. CASE D # {}
    <3>0. D \subseteq Nat
      BY <1>d, <1>n
    <3>1. PICK n \in D : \A i \in D : n <= i
      BY <2>2, <3>0, LeastElement
    <3>2. n \in 1 .. Len(ts) /\ ts[n] + Window > now
      BY <1>d
    <3>3. ASSUME NEW i \in 1 .. Len(ts) PROVE i \in D <=> n <= i
      <4>1. ASSUME n <= i PROVE ts[i] + Window > now
        <5>1. ts[n] <= ts[i] /\ ts[n] \in Nat /\ ts[i] \in Nat
          BY <1>n, <1>1, <3>2, <4>1
        <5>2. Window \in Nat /\ now \in Nat
          BY <1>n
        <5> QED BY <3>2, <5>1, <5>2
      <4> QED BY <1>d, <3>1, <4>1
    <3>4. n - 1 \in 0 .. Len(ts) /\ (n - 1) + 1 = n /\ n \in Nat
      BY <1>n, <3>2
    <3>5. n .. Len(ts) \subseteq 1 .. Len(ts) /\ \A i \in 1 .. Len(ts) : n <= i <=> i \in n .. Len(ts)
      BY <1>n, <3>2, SMTT(20)
    <3>6. D = n .. Len(ts)
      BY <1>d, <3>3, <3>5
    <3> QED BY <3>4, <3>6
  <2> QED BY <2>1, <2>2
<1>3. PICK k \in 0 .. Len(ts) : D = k + 1 .. Len(ts)
  BY <1>2
<1>4. Recent(ts) = Keep(ts, k + 1 .. Len(ts))
  BY <1>3, <1>e
<1>5. /\ Recent(ts) \in Seq(Nat) /\ Len(Recent(ts)) = Len(ts) - k
      /\ \A j \in 1 .. Len(ts) - k : Recent(ts)[j] = ts[k + j]
  <2> DEFINE K == k + 1 .. Len(ts)
  <2>1. Keep(ts, K) \in Seq(Nat)
    <3> HIDE DEF K
    <3> QED BY <1>n, KeepType
  <2>2. /\ Len(Keep(ts, K)) = Len(ts) - k
        /\ \A j \in 1 .. Len(ts) - k : Keep(ts, K)[j] = ts[k + j]
    BY <1>n, KeepRest
  <2> QED BY <1>4, <2>1, <2>2
<1>6. ASSUME NEW j \in 1 .. k PROVE ts[j] + Window <= now
  <2>1. j \in 1 .. Len(ts) /\ j \notin D
    BY <1>n, <1>3
  <2> QED BY <1>d, <1>n, <2>1
<1> DEFINE n == m + k
<1>7. n \in 0 .. Len(calls) /\ m <= n /\ Len(Recent(ts)) = Len(calls) - n
  BY <1>n, <1>5
<1>8. ASSUME NEW j \in 1 .. Len(Recent(ts)) PROVE Recent(ts)[j] = calls[n + j]
  <2>1. j \in 1 .. Len(ts) - k /\ k + j \in 1 .. Len(ts) /\ m + (k + j) = n + j
    BY <1>n, <1>5
  <2> QED BY <1>n, <1>5, <2>1
<1>9. ASSUME NEW j \in 1 .. n PROVE calls[j] + Window <= now
  <2>1. CASE j <= m
    BY <1>n, <2>1
  <2>2. CASE j > m
    <3>1. j - m \in 1 .. k /\ j - m \in 1 .. Len(ts) /\ m + (j - m) = j
      BY <1>n, <2>2
    <3>2. ts[j - m] = calls[j] /\ ts[j - m] + Window <= now
      BY <1>n, <1>6, <3>1
    <3> QED BY <3>2
  <2> QED BY <1>n, <2>1, <2>2
<1>10. ASSUME Len(ts) > 0, ts[1] + Window <= now PROVE m < n
  <2>1. 1 \notin D
    BY <1>d, <1>n, <1>10
  <2> QED BY <1>n, <1>3, <1>10, <2>1
<1> HIDE DEF n
<1>11. LastCalls(Recent(ts), n)
  BY <1>5, <1>7, <1>8, <1>9 DEF LastCalls
<1> QED BY <1>7, <1>10, <1>11

\* A sequence of the last calls is one still when time passes.
LEMMA LastCallsLater ==
  ASSUME ClockType, NEW ts, NEW m \in 0 .. Len(calls), LastCalls(ts, m),
         UNCHANGED calls, now' \in Nat, now <= now'
  PROVE  LastCalls(ts, m)'
<1>1. \A j \in 1 .. m : calls[j] \in Nat /\ Window \in Nat /\ now \in Nat
  <2>1. Len(calls) \in Nat /\ \A j \in 1 .. Len(calls) : calls[j] \in Nat
    BY DEF ClockType
  <2> QED BY <2>1, AdapterConstants DEF ClockType
<1>2. \A j \in 1 .. m : calls[j] + Window <= now'
  BY <1>1 DEF LastCalls
<1> QED BY <1>2 DEF LastCalls

\* A call that follows what is left of the last calls.
LEMMA CallKeeps ==
  ASSUME RateInv, NEW r \in Run, NEW retained, Call(r, retained), now' = now,
         ClockType',
         ~crossed' => /\ Len(retained) < Requests
                      /\ \E m \in 0 .. Len(calls) : LastCalls(retained, m)
  PROVE  RateInv'
<1>n. /\ now \in Nat /\ calls \in Seq(Nat) /\ Len(calls) \in Nat /\ Requests \in Nat
      /\ \A j \in 1 .. Len(calls) : calls[j] \in Nat
      /\ calls' = Append(calls, now) /\ times' = Append(retained, now)
  BY AdapterConstants, SMTT(20) DEF RateInv, ClockType, Call
<1>1. /\ Len(calls') = Len(calls) + 1 /\ calls'[Len(calls) + 1] = now
      /\ \A j \in 1 .. Len(calls) : calls'[j] = calls[j]
  BY <1>n
<1>2. InOrder'
  <2> SUFFICES ASSUME NEW j \in 1 .. Len(calls) + 1
               PROVE  calls'[j] <= now /\ \A i \in 1 .. j : calls'[i] <= calls'[j]
    BY <1>1 DEF InOrder
  <2>1. \A i \in 1 .. Len(calls) : calls[i] <= now
    BY DEF RateInv, InOrder
  <2>2. CASE j \in 1 .. Len(calls)
    <3>1. calls'[j] = calls[j] /\ \A i \in 1 .. j : i \in 1 .. Len(calls)
      BY <1>n, <1>1, <2>2
    <3>2. \A i \in 1 .. j : calls[i] <= calls[j]
      BY <2>2 DEF RateInv, InOrder
    <3> QED BY <1>1, <2>1, <2>2, <3>1, <3>2
  <2>3. CASE j = Len(calls) + 1
    <3>1. \A i \in 1 .. j : i \in 1 .. Len(calls) \/ i = Len(calls) + 1
      BY <1>n, <2>3
    <3> QED BY <1>n, <1>1, <2>1, <2>3, <3>1
  <2> QED BY <1>n, <2>2, <2>3, SMTT(20)
<1>3. ASSUME ~crossed'
      PROVE  Noted(times)' /\ Spaced' /\ \A s \in Run : At(s, "throttled")' => Sleeper(s)'
  <2>1. ~crossed /\ \A s \in Run \ {r} : ~At(s, "throttled")
    BY <1>3 DEF Call
  <2>2. PICK m \in 0 .. Len(calls) : LastCalls(retained, m)
    BY <1>3
  <2>3. /\ retained \in Seq(Nat) /\ Len(retained) \in Nat /\ Len(retained) = Len(calls) - m
        /\ Len(retained) < Requests /\ m \in Nat /\ m <= Len(calls)
        /\ \A j \in 1 .. Len(retained) : retained[j] = calls[m + j]
        /\ \A j \in 1 .. m : calls[j] + Window <= now
    BY <1>n, <1>3, <2>2 DEF LastCalls
  <2>4. /\ times' \in Seq(Nat) /\ Len(times') = Len(retained) + 1
        /\ times'[Len(retained) + 1] = now
        /\ \A j \in 1 .. Len(retained) : times'[j] = retained[j]
    BY <1>n, <2>3
  <2>5. m \in 0 .. Len(calls') /\ Len(times') = Len(calls') - m /\ Len(times') <= Requests
    BY <1>n, <1>1, <2>3, <2>4
  <2>6. ASSUME NEW j \in 1 .. Len(times') PROVE times'[j] = calls'[m + j]
    <3>1. CASE j \in 1 .. Len(retained)
      <4>1. m + j \in 1 .. Len(calls)
        BY <1>n, <2>3, <3>1
      <4> QED BY <1>1, <2>3, <2>4, <3>1, <4>1
    <3>2. CASE j = Len(retained) + 1
      <4>1. m + j = Len(calls) + 1
        BY <1>n, <2>3, <3>2
      <4> QED BY <1>1, <2>4, <3>2, <4>1
    <3>3. j \in 1 .. Len(retained) \/ j = Len(retained) + 1
      BY <2>3, <2>4
    <3> QED BY <3>1, <3>2, <3>3
  <2>7. \A j \in 1 .. m : calls'[j] + Window <= now'
    <3>1. \A j \in 1 .. m : j \in 1 .. Len(calls)
      BY <1>n, <2>3
    <3> QED BY <1>1, <2>3, <3>1
  <2>8. LastCalls(times, m)'
    BY <2>4, <2>5, <2>6, <2>7 DEF LastCalls
  <2>9. Noted(times)'
    BY <2>5, <2>8 DEF Noted
  <2>10. Spaced'
    <3> SUFFICES ASSUME NEW j \in 1 .. Len(calls'), j + Requests <= Len(calls')
                 PROVE  calls'[j] + Window <= calls'[j + Requests]
      BY DEF Spaced
    <3>1. CASE j + Requests <= Len(calls)
      <4>1. j \in 1 .. Len(calls) /\ j + Requests \in 1 .. Len(calls)
        BY <1>n, <1>1, <3>1
      <4>2. calls[j] + Window <= calls[j + Requests]
        BY <2>1, <3>1, <4>1 DEF RateInv, Spaced
      <4> QED BY <1>1, <4>1, <4>2
    <3>2. CASE j + Requests = Len(calls) + 1
      <4>1. j \in 1 .. m
        BY <1>n, <1>1, <2>3, <3>2
      <4> QED BY <1>1, <2>7, <3>2, <4>1
    <3>3. j \in Nat /\ (j + Requests <= Len(calls) \/ j + Requests = Len(calls) + 1)
      <4>1. Len(calls') = Len(calls) + 1 /\ Len(calls) \in Nat /\ Requests \in Nat
        BY <1>n, <1>1
      <4> QED BY <4>1
    <3> QED BY <3>1, <3>2, <3>3
  <2>11. \A s \in Run : ~At(s, "throttled")'
    BY <2>1 DEF Call, At, RateInv, ClockType, Fields
  <2> QED BY <2>9, <2>10, <2>11
<1> QED BY <1>2, <1>3 DEF RateInv

LEMMA AcquireRate == ASSUME RateInv, ClockType', NEW r \in Run, Acquire(r) PROVE RateInv'
<1>n. Requests \in Nat /\ Requests > 0 /\ now' = now
  BY AdapterConstants DEF Acquire
<1>1. ASSUME ~crossed
      PROVE  \E n \in 0 .. Len(calls) :
               LastCalls(Recent(times), n) /\ Len(Recent(times)) <= Requests
  <2>1. PICK m \in 0 .. Len(calls) : LastCalls(times, m)
    BY <1>1 DEF RateInv, Noted
  <2>2. PICK n \in 0 .. Len(calls) : LastCalls(Recent(times), n) /\ m <= n
    BY <2>1, RecentIsLast DEF RateInv
  <2>3. /\ Len(times) = Len(calls) - m /\ Len(Recent(times)) = Len(calls) - n
        /\ Len(times) <= Requests /\ Len(calls) \in Nat
    BY <1>1, <2>1, <2>2 DEF LastCalls, RateInv, ClockType, Noted
  <2>4. Len(Recent(times)) <= Requests
    BY <1>n, <2>2, <2>3
  <2> QED BY <2>2, <2>4
<1>2. CASE Full(Recent(times))
  <2>1. /\ run' = [run EXCEPT ![r].pc = "throttled", ![r].retained = Recent(times),
                              ![r].wake = Head(Recent(times)) + Window]
        /\ UNCHANGED <<now, times, calls, crossed>>
    BY <1>2 DEF Acquire, history
  <2>2. /\ run'[r].retained = Recent(times) /\ run'[r].wake = Head(Recent(times)) + Window
        /\ \A s \in Run \ {r} : run'[s] = run[s]
    BY <2>1 DEF RateInv, ClockType, Fields
  <2>3. ASSUME ~crossed PROVE Sleeper(r)'
    <3>1. PICK n \in 0 .. Len(calls) : /\ LastCalls(Recent(times), n)
                                       /\ Len(Recent(times)) <= Requests
      BY <1>1, <2>3
    <3>2. Recent(times) \in Seq(Nat) /\ Len(Recent(times)) \in Nat
          /\ Len(Recent(times)) >= Requests
      BY <1>2, <3>1 DEF LastCalls, Full
    <3>3. Len(Recent(times)) = Requests
      BY <1>n, <3>1, <3>2
    <3>4. Head(Recent(times)) = Recent(times)[1]
      BY <1>n, <3>2, <3>3
    <3>5. LastCalls(run[r].retained, n)'
      BY <2>1, <2>2, <3>1 DEF LastCalls
    <3>6. Noted(run[r].retained)'
      <4>1. Len(run'[r].retained) <= Requests
        BY <1>n, <2>2, <3>3
      <4>2. n \in 0 .. Len(calls')
        BY <2>1
      <4> QED BY <3>5, <4>1, <4>2 DEF Noted
    <3> QED BY <2>2, <3>3, <3>4, <3>6 DEF Sleeper
  <2>4. InOrder' /\ (~crossed => Noted(times)' /\ Spaced')
    BY <2>1 DEF RateInv, InOrder, Noted, LastCalls, Spaced
  <2>5. ASSUME ~crossed, NEW s \in Run \ {r}, At(s, "throttled")' PROVE Sleeper(s)'
    <3>1. run'[s] = run[s] /\ Sleeper(s)
      BY <2>2, <2>5 DEF RateInv, At
    <3> QED BY <2>1, <3>1 DEF Sleeper, Noted, LastCalls
  <2> QED BY <2>1, <2>3, <2>4, <2>5 DEF RateInv
<1>3. CASE ~Full(Recent(times))
  <2>1. Call(r, Recent(times))
    BY <1>3 DEF Acquire
  <2>2. ASSUME ~crossed'
        PROVE  /\ Len(Recent(times)) < Requests
               /\ \E m \in 0 .. Len(calls) : LastCalls(Recent(times), m)
    <3>1. ~crossed
      BY <2>1, <2>2 DEF Call
    <3>2. PICK n \in 0 .. Len(calls) : LastCalls(Recent(times), n)
      BY <1>1, <3>1
    <3>3. Len(Recent(times)) \in Nat
      BY <3>2 DEF LastCalls
    <3> QED BY <1>n, <1>3, <3>2, <3>3 DEF Full
  <2> QED BY <1>n, <2>1, <2>2, CallKeeps
<1> QED BY <1>2, <1>3

LEMMA AdmitRate == ASSUME RateInv, ClockType', NEW r \in Run, Admit(r) PROVE RateInv'
<1>n. Requests \in Nat /\ Requests > 0 /\ now' = now
  BY AdapterConstants DEF Admit
<1>1. Call(r, Recent(run[r].retained))
  BY DEF Admit
<1>2. ASSUME ~crossed'
      PROVE  /\ Len(Recent(run[r].retained)) < Requests
             /\ \E m \in 0 .. Len(calls) : LastCalls(Recent(run[r].retained), m)
  <2>1. Sleeper(r) /\ run[r].wake <= now
    BY <1>1, <1>2 DEF Call, Admit, RateInv
  <2>2. PICK m \in 0 .. Len(calls) : LastCalls(run[r].retained, m)
    BY <2>1 DEF Sleeper, Noted
  <2>3. Len(run[r].retained) > 0 /\ run[r].retained[1] + Window <= now
    BY <1>n, <2>1 DEF Sleeper
  <2>4. PICK n \in 0 .. Len(calls) : LastCalls(Recent(run[r].retained), n) /\ m < n
    BY <2>2, <2>3, RecentIsLast DEF RateInv
  <2>5. /\ Requests = Len(calls) - m /\ Len(Recent(run[r].retained)) = Len(calls) - n
        /\ Len(calls) \in Nat
    BY <2>1, <2>2, <2>4 DEF LastCalls, RateInv, ClockType, Sleeper
  <2> QED BY <2>4, <2>5
<1> QED BY <1>n, <1>1, <1>2, CallKeeps

\* A step that notes no call and puts nobody to sleep for the limit.
LEMMA OtherRate ==
  ASSUME RateInv, ClockType', UNCHANGED <<times, calls, crossed>>, now <= now',
         \A s \in Run : At(s, "throttled")' => run'[s] = run[s]
  PROVE  RateInv'
<1>n. /\ now \in Nat /\ now' \in Nat /\ Len(calls) \in Nat
      /\ \A j \in 1 .. Len(calls) : calls[j] \in Nat
  BY DEF RateInv, ClockType
<1>1. InOrder'
  BY <1>n DEF RateInv, InOrder
<1>2. ASSUME NEW ts, ts' = ts, Noted(ts) PROVE Noted(ts)'
  BY <1>2, <1>n, LastCallsLater DEF Noted, RateInv
<1>3. ~crossed => Noted(times)' /\ Spaced'
  BY <1>2 DEF RateInv, Spaced
<1>4. ASSUME ~crossed, NEW s \in Run, At(s, "throttled")' PROVE Sleeper(s)'
  <2>1. run'[s] = run[s] /\ Sleeper(s)
    BY <1>4 DEF At, RateInv
  <2> QED BY <1>2, <2>1 DEF Sleeper
<1> QED BY <1>1, <1>3, <1>4 DEF RateInv

LEMMA NextRate == IInv /\ IInv' /\ RateInv /\ [Next]_vars => RateInv'
<1> SUFFICES ASSUME IInv, IInv', RateInv, [Next]_vars PROVE RateInv'
  OBVIOUS
<1>n. now \in Nat /\ calls \in Seq(Nat)
  BY DEF RateInv, ClockType
<1>t. now' \in Nat /\ calls' \in Seq(Nat) => ClockType'
  BY DEF IInv, Types, ClockType
<1>1. CASE Tick
  BY <1>1, <1>n, <1>t, OtherRate DEF Tick, history
<1>2. ASSUME NEW r \in Run, Acquire(r) PROVE RateInv'
  <2>1. now' = now /\ (calls' = calls \/ calls' = Append(calls, now))
    BY <1>2 DEF Acquire, Call, history
  <2>2. now' \in Nat /\ calls' \in Seq(Nat)
    BY <1>n, <2>1
  <2> QED BY <1>2, <1>t, <2>2, AcquireRate
<1>3. ASSUME NEW r \in Run, Admit(r) PROVE RateInv'
  <2>1. now' \in Nat /\ calls' \in Seq(Nat)
    BY <1>3, <1>n DEF Admit, Call
  <2> QED BY <1>3, <1>t, <2>1, AdmitRate
<1>4. ASSUME NEW r \in Run, UNCHANGED <<now, times, calls, crossed>>,
             run'[r].pc # "throttled", \A s \in Run \ {r} : run'[s] = run[s]
      PROVE  RateInv'
  BY <1>4, <1>n, <1>t, OtherRate DEF At
<1>5. ASSUME NEW r \in Run,
             \/ Lookup(r) \/ Wake(r) \/ Bury(r) \/ Store(r) \/ Accept(r)
             \/ \E out \in Output : Answered(r, out)
      PROVE  RateInv'
  <2>1. UNCHANGED <<now, times, calls, crossed>>
    BY <1>5 DEF Lookup, Wake, Bury, Store, Accept, Answered, history
  <2>2. run'[r].pc # "throttled" /\ \A s \in Run \ {r} : run'[s] = run[s]
    BY <1>5 DEF Lookup, Wake, Bury, Store, Accept, Answered, End, IInv, Types, Fields
  <2> QED BY <1>4, <2>1, <2>2
<1>6. ASSUME NEW r \in Run, Trouble(r) \/ \E i \in Input : Start(r, i)
      PROVE  RateInv'
  <2>1. CASE Refused(r) \/ SinkFails(r) \/ AcceptFails(r) \/ \E i \in Input : Start(r, i)
    <3>1. UNCHANGED <<now, times, calls, crossed>>
      BY <2>1 DEF Refused, SinkFails, AcceptFails, Start, history
    <3>2. \E next : run' = [run EXCEPT ![r] = next] /\ next.pc # "throttled"
      <4>1. CASE End(r, "refused")
        <5> DEFINE next == [run[r] EXCEPT !.pc = "done", !.result = "refused"]
        <5>1. run' = [run EXCEPT ![r] = next] /\ next.pc = "done"
          BY <4>1 DEF End, IInv, Types, Fields
        <5> QED BY <5>1
      <4>2. ASSUME NEW i \in Input, Start(r, i)
            PROVE  \E next : run' = [run EXCEPT ![r] = next] /\ next.pc # "throttled"
        <5> DEFINE next == [Fresh EXCEPT !.input = i, !.attempt = 1,
                              !.pc = IF Capability[i] = "import" THEN "lookup" ELSE "acquire"]
        <5>1. run' = [run EXCEPT ![r] = next]
          BY <4>2 DEF Start
        <5>2. next.pc # "throttled"
          BY DEF Fresh
        <5> QED BY <5>1, <5>2
      <4> QED BY <2>1, <4>1, <4>2 DEF Refused, SinkFails, AcceptFails
    <3>3. run'[r].pc # "throttled" /\ \A s \in Run \ {r} : run'[s] = run[s]
      BY <3>2 DEF IInv, Types
    <3> QED BY <1>4, <3>1, <3>3
  <2>2. ASSUME NEW retryable, NEW asked,
               StoreFails(r, retryable) \/ Throws(r, retryable, asked)
        PROVE  RateInv'
    <3>1. UNCHANGED <<now, times, calls, crossed>>
      <4>1. CASE StoreFails(r, retryable)
        BY <4>1, Zenon DEF StoreFails, history
      <4>2. CASE Throws(r, retryable, asked)
        BY <4>2, Zenon DEF Throws, history
      <4> QED BY <2>2, <4>1, <4>2
    <3>2. Caught(r, retryable, 0) \/ Caught(r, retryable, asked)
      BY <2>2 DEF StoreFails, Throws
    <3>3. run'[r].pc # "throttled" /\ \A s \in Run \ {r} : run'[s] = run[s]
      BY <3>2, CaughtFields DEF Only
    <3> QED BY <1>4, <3>1, <3>3
  <2> QED BY <1>6, <2>1, <2>2 DEF Trouble
<1>7. CASE UNCHANGED vars
  BY <1>7, <1>n, <1>t, OtherRate DEF vars, history
<1> QED BY <1>1, <1>2, <1>3, <1>5, <1>6, <1>7 DEF Next, Work

LEMMA InitRate == Init => RateInv
<1> SUFFICES ASSUME Init PROVE RateInv
  OBVIOUS
<1>1. ClockType /\ InOrder
  BY DEF Init, ClockType, InOrder, Fresh, Fields
<1>2. LastCalls(times, 0)
  BY DEF Init, LastCalls
<1>3. Noted(times)
  BY <1>2, AdapterConstants DEF Init, Noted
<1>4. Spaced /\ \A r \in Run : ~At(r, "throttled")
  BY DEF Init, Spaced, At, Fresh
<1> QED BY <1>1, <1>3, <1>4 DEF RateInv

\* Of calls that are spaced, a window holds as many as the limit says at most.
LEMMA SpacedHolds == RateInv => RateHeldAlone
<1> SUFFICES ASSUME RateInv, ~crossed, NEW k \in DOMAIN calls
             PROVE  Cardinality({j \in DOMAIN calls : calls[k] <= calls[j]
                                   /\ calls[j] < calls[k] + Window}) <= Requests
  BY DEF RateHeldAlone
<1> DEFINE S == {j \in DOMAIN calls : calls[k] <= calls[j] /\ calls[j] < calls[k] + Window}
<1>n. /\ Window \in Nat /\ Window > 0 /\ Requests \in Nat /\ Len(calls) \in Nat
      /\ DOMAIN calls = 1 .. Len(calls) /\ \A j \in 1 .. Len(calls) : calls[j] \in Nat
  BY AdapterConstants DEF RateInv, ClockType
<1>1. S \subseteq Nat /\ k \in S
  BY <1>n
<1>2. PICK i \in S : \A j \in S : i <= j
  <2> HIDE DEF S
  <2> QED BY <1>1, LeastElement
<1>3. i \in 1 .. Len(calls) /\ calls[k] <= calls[i]
  BY <1>2, <1>n
<1>4. S \subseteq i .. i + Requests - 1
  <2> SUFFICES ASSUME NEW j \in S, j >= i + Requests PROVE FALSE
    BY <1>1, <1>2, <1>3, <1>n
  <2>1. j \in 1 .. Len(calls) /\ i + Requests \in 1 .. j /\ i + Requests \in 1 .. Len(calls)
    BY <1>n, <1>3
  <2>2. calls[i] + Window <= calls[i + Requests]
    BY <1>3, <2>1 DEF RateInv, Spaced
  <2>3. calls[i + Requests] <= calls[j]
    BY <2>1 DEF RateInv, InOrder
  <2>4. calls[j] < calls[k] + Window
    OBVIOUS
  <2>5. /\ calls[i] \in Nat /\ calls[j] \in Nat /\ calls[k] \in Nat
        /\ calls[i + Requests] \in Nat /\ Window \in Nat
    BY <1>n, <1>3, <2>1
  <2> QED BY <1>3, <2>2, <2>3, <2>4, <2>5
<1> HIDE DEF S
<1>5. /\ IsFiniteSet(i .. i + Requests - 1)
      /\ Cardinality(i .. i + Requests - 1) = Requests
  <2> DEFINE b == i + Requests - 1
  <2>1. i \in Int /\ b \in Int /\ ~(i > b) /\ b - i + 1 = Requests
    BY <1>n, <1>3, AdapterConstants
  <2> HIDE DEF b
  <2>2. IsFiniteSet(i .. b) /\ Cardinality(i .. b) = Requests
    BY <2>1, FS_Interval
  <2> QED BY <2>2 DEF b
<1>6. Cardinality(S) <= Requests
  <2> DEFINE I == i .. i + Requests - 1
  <2>1. IsFiniteSet(I) /\ S \in SUBSET I /\ Cardinality(I) = Requests
    BY <1>4, <1>5
  <2> HIDE DEF I
  <2>2. Cardinality(S) <= Cardinality(I)
    BY <2>1, FS_Subset
  <2> QED BY <2>1, <2>2
<1> QED BY <1>6 DEF S

\* As long as no call is let through while another one waits for the limit, any
\* window holds as many calls as the limit says at most.
THEOREM RateHeld == Spec => []RateHeldAlone
BY InitInvariant, StepInvariant, InitRate, NextRate, SpacedHolds, PTL DEF Spec
=============================================================================
