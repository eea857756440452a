--------------------------- MODULE AdapterRuntime ----------------------------
(***************************************************************************)
(* The runtime that executes one adapter (src/src/integrations/runtime.ts):*)
(* executions of imports, exports and webhooks side by side on one         *)
(* JavaScript thread, with the rolling rate limit, retries with delays, the*)
(* dead-letter sink, and the two stores whose putIfAbsent is atomic (the   *)
(* processed batches and the webhook events).                              *)
(*                                                                         *)
(* Code between two awaits is one step.  Scopes, secrets, staging and the  *)
(* validations of outputs are a refusal the handler's answer may meet.     *)
(* Time is counted in ticks; a sleep ends at its time or later.            *)
(***************************************************************************)
EXTENDS Keep, FiniteSets

CONSTANTS
    Run,           \* calls of execute and acceptWebhook
    Input,         \* prepared inputs, by their checksum
    Capability,    \* the capability each input is for
    EventOf,       \* the event id a webhook's input carries
    Output,        \* what the provider may answer an import with
    NoOutput,
    Requests, Window,                              \* definition.rateLimit
    MaxAttempts, InitialDelay, MaximumDelay, Multiplier,    \* its retryPolicy
    RetryAfter,    \* the delays a provider asks for
    MaxTime,       \* bound: ticks nobody waits for
    MaxErrors      \* bound: failing calls

ASSUME AdapterConstants ==
  /\ Capability \in [Input -> {"import", "export", "webhook"}]
  /\ NoOutput \notin Output /\ "none" \notin Input
  /\ Requests \in Nat \ {0} /\ Window \in Nat \ {0} /\ MaxAttempts \in Nat \ {0}
  /\ {InitialDelay, MaximumDelay, Multiplier, MaxTime, MaxErrors} \subseteq Nat
  /\ RetryAfter \subseteq Nat

VARIABLES
    now,       \* the clock
    times,     \* requestTimes of the adapter
    run,       \* where each execution is
    batches,   \* processedBatchStore
    events,    \* webhookEventStore: the input each event was accepted with
    letters,   \* deadLetterSink
    calls,     \* history: when the handler was called
    crossed,   \* history: a call was let through while another one waited
    errors     \* bounded counter

stores  == <<batches, events, letters>>
history == <<calls, crossed>>
vars    == <<now, times, run, stores, history, errors>>

Event == {EventOf[i] : i \in {i \in Input : Capability[i] = "webhook"}}
None  == "none"
Fresh == [pc |-> "idle", input |-> None, attempt |-> 0, retained |-> <<>>, wake |-> 0,
          output |-> NoOutput, result |-> None]

Init ==
  /\ now = 0 /\ times = <<>>
  /\ run = [r \in Run |-> Fresh]
  /\ batches = [i \in Input |-> NoOutput]
  /\ events = [e \in Event |-> None]
  /\ letters = {} /\ calls = <<>> /\ crossed = FALSE /\ errors = 0

At(r, pc) == run[r].pc = pc
Kind(r)   == Capability[run[r].input]
End(r, result) == run' = [run EXCEPT ![r].pc = "done", ![r].result = result]

\* execute, up to its first await.
Start(r, i) ==
  /\ At(r, "idle")
  /\ run' = [run EXCEPT ![r] = [Fresh EXCEPT !.input = i, !.attempt = 1,
                !.pc = IF Capability[i] = "import" THEN "lookup" ELSE "acquire"]]
  /\ UNCHANGED <<now, times, stores, history, errors>>

\* processedBatchStore.get: an input that was processed is not processed again.
Lookup(r) ==
  LET done == batches[run[r].input]
  IN  /\ At(r, "lookup")
      /\ run' = IF done = NoOutput THEN [run EXCEPT ![r].pc = "acquire"]
                ELSE [run EXCEPT ![r].pc = "done", ![r].result = "duplicate", ![r].output = done]
      /\ UNCHANGED <<now, times, stores, history, errors>>

-----------------------------------------------------------------------------
(* acquireRateLimit                                                        *)

Recent(ts) == Keep(ts, {i \in DOMAIN ts : ts[i] + Window > now})

\* The request is noted and the handler called.
Call(r, retained) ==
  /\ times' = Append(retained, now)
  /\ calls' = Append(calls, now)
  /\ crossed' = (crossed \/ \E s \in Run \ {r} : At(s, "throttled"))
  /\ run' = [run EXCEPT ![r].pc = "calling", ![r].retained = <<>>, ![r].wake = 0]

\* Mutant: a request one too many.
FullLate(ts) == Len(ts) > Requests

Full(ts) == Len(ts) >= Requests

Acquire(r) ==
  /\ At(r, "acquire")
  /\ IF Full(Recent(times))
     THEN /\ run' = [run EXCEPT ![r].pc = "throttled", ![r].retained = Recent(times),
                                ![r].wake = Head(Recent(times)) + Window]
          /\ UNCHANGED <<times, history>>
     ELSE Call(r, Recent(times))
  /\ UNCHANGED <<now, stores, errors>>

\* Mutant: after the sleep the limit is asked again of the times read before it.
AdmitIfFree(r) ==
  /\ At(r, "throttled") /\ run[r].wake <= now /\ ~Full(run[r].retained)
  /\ Call(r, Recent(run[r].retained))
  /\ UNCHANGED <<now, stores, errors>>

\* After the sleep the times read before it replace those noted meanwhile.
Admit(r) ==
  /\ At(r, "throttled") /\ run[r].wake <= now
  /\ Call(r, Recent(run[r].retained))
  /\ UNCHANGED <<now, stores, errors>>

-----------------------------------------------------------------------------
(* The handler's answer                                                    *)

Answered(r, out) ==
  /\ At(r, "calling")
  /\ run' = IF Kind(r) = "export" THEN [run EXCEPT ![r].pc = "done", ![r].result = "succeeded"]
            ELSE [run EXCEPT ![r].pc = IF Kind(r) = "import" THEN "store" ELSE "accept",
                             ![r].output = IF Kind(r) = "import" THEN out ELSE NoOutput]
  /\ UNCHANGED <<now, times, stores, history, errors>>

\* A policy failure ends the execution at once.
Refused(r) ==
  /\ At(r, "calling") /\ errors < MaxErrors /\ errors' = errors + 1
  /\ End(r, "refused")
  /\ UNCHANGED <<now, times, stores, history>>

Least(a, b) == IF a < b THEN a ELSE b
Most(a, b)  == IF a < b THEN b ELSE a

Delay(attempt, asked) ==
  Least(MaximumDelay, Most(InitialDelay * Multiplier ^ (attempt - 1), asked))

Last(r) == run[r].attempt = MaxAttempts

\* The catch block: sleep and try again, or give up.
Caught(r, retryable, asked) ==
  run' = IF retryable /\ ~Last(r)
         THEN [run EXCEPT ![r].pc = "asleep", ![r].output = NoOutput,
                          ![r].wake = now + Delay(run[r].attempt, asked)]
         ELSE [run EXCEPT ![r].pc = "bury", ![r].output = NoOutput]

\* The handler throws.
Throws(r, retryable, asked) ==
  /\ At(r, "calling") /\ errors < MaxErrors /\ errors' = errors + 1
  /\ Caught(r, retryable, asked)
  /\ UNCHANGED <<now, times, stores, history>>

\* The next attempt.
Wake(r) ==
  /\ At(r, "asleep") /\ run[r].wake <= now
  /\ run' = [run EXCEPT ![r].pc = "acquire", ![r].attempt = @ + 1, ![r].wake = 0]
  /\ UNCHANGED <<now, times, stores, history, errors>>

Letter(r) == [run |-> r, attempts |-> run[r].attempt]

\* deadLetterSink.add
Bury(r) ==
  /\ At(r, "bury")
  /\ letters' = letters \cup {Letter(r)}
  /\ End(r, "dead-lettered")
  /\ UNCHANGED <<now, times, batches, events, history, errors>>

\* The sink throws, whether it has the letter or not; so does execute.
SinkFails(r) ==
  /\ At(r, "bury") /\ errors < MaxErrors /\ errors' = errors + 1
  /\ letters' \in {letters, letters \cup {Letter(r)}}
  /\ End(r, "refused")
  /\ UNCHANGED <<now, times, batches, events, history>>

-----------------------------------------------------------------------------
(* The stores                                                              *)

\* Mutant: the batch is put over another one.
StoreOver(r) ==
  LET i == run[r].input
  IN  /\ At(r, "store")
      /\ batches' = [batches EXCEPT ![i] = run[r].output]
      /\ End(r, "succeeded")
      /\ UNCHANGED <<now, times, events, letters, history, errors>>

\* processedBatchStore.putIfAbsent: the first output of an input stays.
Store(r) ==
  LET i == run[r].input
  IN  /\ At(r, "store")
      /\ IF batches[i] = NoOutput
         THEN /\ batches' = [batches EXCEPT ![i] = run[r].output]
              /\ End(r, "succeeded")
         ELSE /\ run' = [run EXCEPT ![r].pc = "done", ![r].result = "duplicate",
                                    ![r].output = batches[i]]
              /\ UNCHANGED batches
      /\ UNCHANGED <<now, times, events, letters, history, errors>>

\* putIfAbsent throws, whether it has stored the batch or not: the catch block
\* may call the handler again.
StoreFails(r, retryable) ==
  LET i == run[r].input
  IN  /\ At(r, "store") /\ errors < MaxErrors /\ errors' = errors + 1
      /\ batches' \in {batches, [batches EXCEPT ![i] = IF @ = NoOutput THEN run[r].output ELSE @]}
      /\ Caught(r, retryable, 0)
      /\ UNCHANGED <<now, times, events, letters, history>>

\* Mutant: an event id that was seen is a duplicate, whatever it says.
AcceptAnyReplay(r) ==
  LET i == run[r].input  e == EventOf[i]
  IN  /\ At(r, "accept")
      /\ IF events[e] = None
         THEN events' = [events EXCEPT ![e] = i] /\ End(r, "succeeded")
         ELSE UNCHANGED events /\ End(r, "duplicate")
      /\ UNCHANGED <<now, times, batches, letters, history, errors>>

\* webhookEventStore.putIfAbsent, and the comparison with what is stored.
Accept(r) ==
  LET i == run[r].input  e == EventOf[i]
  IN  /\ At(r, "accept")
      /\ IF events[e] = None
         THEN events' = [events EXCEPT ![e] = i] /\ End(r, "succeeded")
         ELSE /\ UNCHANGED events
              /\ End(r, IF events[e] = i THEN "duplicate" ELSE "refused")
      /\ UNCHANGED <<now, times, batches, letters, history, errors>>

\* putIfAbsent throws, whether it has stored the event or not, or what it
\* returned is refused; so does acceptWebhook.
AcceptFails(r) ==
  LET i == run[r].input  e == EventOf[i]
  IN  /\ At(r, "accept") /\ errors < MaxErrors /\ errors' = errors + 1
      /\ events' \in {events, [events EXCEPT ![e] = IF @ = None THEN i ELSE @]}
      /\ End(r, "refused")
      /\ UNCHANGED <<now, times, batches, letters, history>>

-----------------------------------------------------------------------------
\* A timer that has not come to its time.
Waiting(r) == run[r].pc \in {"throttled", "asleep"} /\ now < run[r].wake

Tick ==
  /\ now < MaxTime \/ \E r \in Run : Waiting(r)
  /\ now' = now + 1
  /\ UNCHANGED <<times, run, stores, history, errors>>

Work(r) == \/ Lookup(r) \/ Acquire(r) \/ Admit(r) \/ Wake(r) \/ Bury(r) \/ Store(r) \/ Accept(r)
           \/ \E out \in Output : Answered(r, out)

Trouble(r) ==
  \/ Refused(r) \/ SinkFails(r) \/ AcceptFails(r)
  \/ \E retryable \in BOOLEAN : StoreFails(r, retryable) \/ \E asked \in RetryAfter : Throws(r, retryable, asked)

Next == Tick \/ \E r \in Run : Work(r) \/ Trouble(r) \/ \E i \in Input : Start(r, i)

\* Timers and microtasks run; the provider answers or fails.
Fairness == WF_vars(Tick) /\ \A r \in Run : WF_vars(Work(r))

Spec == Init /\ [][Next]_vars /\ Fairness

-----------------------------------------------------------------------------
(* Properties                                                              *)

TypeOK ==
  /\ now \in Nat /\ times \in Seq(Nat) /\ calls \in Seq(Nat) /\ crossed \in BOOLEAN
  /\ \A r \in Run :
       /\ run[r].pc \in {"idle", "lookup", "acquire", "throttled", "calling", "asleep",
                         "bury", "store", "accept", "done"}
       /\ run[r].input \in Input \cup {None} /\ run[r].attempt \in 0 .. MaxAttempts
       /\ run[r].retained \in Seq(Nat) /\ run[r].output \in Output \cup {NoOutput}
       /\ run[r].wake <= now + Most(Window, MaximumDelay)
       /\ run[r].result \in {None, "succeeded", "duplicate", "refused", "dead-lettered"}
  /\ batches \in [Input -> Output \cup {NoOutput}] /\ events \in [Event -> Input \cup {None}]
  /\ letters \subseteq [run : Run, attempts : 1 .. MaxAttempts] /\ errors \in Nat

\* docs/adapter-authoring.md, idempotency: however executions of one input race,
\* fail after they were stored and are retried, all of them that end well return
\* the one output that was stored, and one of them at most calls it its own.
OneOutput ==
  \A r \in Run : run[r].result \in {"succeeded", "duplicate"} /\ Kind(r) = "import" =>
    /\ run[r].output = batches[run[r].input] /\ run[r].output # NoOutput
    /\ \A s \in Run : run[s].input = run[r].input /\ run[s].result = "succeeded"
                      /\ run[r].result = "succeeded" => s = r

\* "Reusing an event ID with different normalized content fails closed": what an
\* accepted webhook says is what the store has, and is accepted as new once.
EventsAgree ==
  \A r \in Run : run[r].result \in {"succeeded", "duplicate"} /\ Kind(r) = "webhook" =>
    /\ events[EventOf[run[r].input]] = run[r].input
    /\ \A s \in Run : run[s].result = "succeeded" /\ run[r].result = "succeeded"
                      /\ run[s].input = run[r].input => s = r

\* docs/adapter-authoring.md: "Execute through the adapter runtime so scope,
\* idempotency, retries, rate limiting [...] are enforced".  In any window the
\* handler is called Requests times at most, as long as no call was let through
\* while another one waited for the limit.
RateHeldAlone ==
  crossed \/ \A k \in DOMAIN calls :
    Cardinality({j \in DOMAIN calls :
                   calls[k] <= calls[j] /\ calls[j] < calls[k] + Window}) <= Requests

\* Every execution ends: attempts, delays and waits are bounded.
Ends == <>[](\A r \in Run : run[r].pc \in {"idle", "done"})
=============================================================================
