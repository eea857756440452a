-------------------------- MODULE ShareLinksProofs --------------------------
(*****************************************************************************)
(* Proofs about ShareLinks, for any finite set of links, any requests and    *)
(* numbers of writes and faults: however reconciliations of one link race    *)
(* with each other and with Studios that store older snapshots, no ledger    *)
(* has a transition twice, a link is what a stored ledger said, and a        *)
(* revoked link is served to nobody; and about EmailOutbox, in the second    *)
(* half.                                                                     *)
(*****************************************************************************)
EXTENDS ShareLinks, EmailOutbox, TLAPS, FiniteSetTheorems, SequenceTheorems

LedgerEntry == [kind : {"created", "revoked"}, link : Link]
Item        == [link : Link, state : Pending]
ReqType     == [kind : {"none", "create", "revoke", "public", "list"}, about : SUBSET Link,
                pc : Control, again : BOOLEAN,
                answer : {"none", "active", "pending", "revoked", "pending-revoke",
                          "already-revoked", "served", "unavailable", "listed"}]
CopyType    == [rev : Nat, ledger : Seq(LedgerEntry)]

Types ==
  /\ link \in [Link -> State] /\ live \in BOOLEAN
  /\ revision \in Nat /\ ledger \in Seq(LedgerEntry) /\ ledger \in held
  /\ held \in SUBSET Seq(LedgerEntry) /\ overwritten \in BOOLEAN
  /\ req \in [Process -> ReqType] /\ queue \in [Process -> Seq(Item)]
  /\ copy \in [Process -> CopyType] /\ closed \in [Process -> BOOLEAN]
  /\ writes \in Nat /\ faults \in Nat

Working == {"load", "put", "mark"}

\* A request is about one link, a reconciliation has links to go over.
Placed(p) ==
  /\ req[p].kind \in {"create", "revoke", "public"} => \E l \in Link : req[p].about = {l}
  /\ req[p].pc # "idle" => req[p].kind # "none"
  /\ req[p].pc \in Working <=> queue[p] # <<>>

TInv == Types /\ \A p \in Process : Placed(p)

\* The copy a request works on was the record: it is, unless the record moved on.
CopyAgrees(p) ==
  copy[p].rev <= revision /\ (copy[p].rev = revision => copy[p].ledger = ledger)

Closing == {"pending-revoke", "revoked"}

\* What was read as a revocation still is one.
ItemsTrue(p) ==
  \A k \in 1 .. Len(queue[p]) : queue[p][k].state = "pending-revoke" => link[queue[p][k].link] \in Closing

\* A link is marked once a record with its transition was stored.
MarkLedgered(p) == req[p].pc = "mark" => Stored(Entry(p).kind, Entry(p).link)

\* A request that came after the revocation is about a link that stays closed.
ClosedStays(p) ==
  closed[p] => /\ p # Sweep /\ req[p].kind = "public" /\ req[p].pc # "idle"
               /\ \A l \in req[p].about : link[l] \in Closing
               /\ req[p].pc # "serve" /\ req[p].answer # "served"

PInv(p) == CopyAgrees(p) /\ ItemsTrue(p) /\ MarkLedgered(p) /\ ClosedStays(p)

\* Whatever ledger is stored over the record, it has no transition twice.
NoRepeat(h) == \A i, j \in DOMAIN h : h[i].link = h[j].link /\ i < j => h[i].kind # h[j].kind
HeldOnce    == \A h \in held : NoRepeat(h)

IInv == /\ TInv /\ 1 <= revision /\ \A p \in Process : PInv(p)
        /\ HeldOnce /\ LedgeredOnce /\ StateIsLedgered

-----------------------------------------------------------------------------
(* Types                                                                   *)

LEMMA SequenceFacts ==
  ASSUME TInv, NEW p \in Process, queue[p] # <<>>
  PROVE  /\ Head(queue[p]) \in Item /\ Head(queue[p]) = queue[p][1]
         /\ Tail(queue[p]) \in Seq(Item) /\ Len(queue[p]) \in Nat \ {0}
         /\ Len(Tail(queue[p])) = Len(queue[p]) - 1
         /\ Tail(queue[p]) = <<>> <=> Len(queue[p]) = 1
         /\ \A k \in 1 .. Len(Tail(queue[p])) : Tail(queue[p])[k] = queue[p][k + 1]
<1>1. queue[p] \in Seq(Item)
  BY DEF TInv, Types
<1>2. /\ Head(queue[p]) \in Item /\ Tail(queue[p]) \in Seq(Item)
      /\ Len(Tail(queue[p])) = Len(queue[p]) - 1
      /\ \A k \in 1 .. Len(Tail(queue[p])) : Tail(queue[p])[k] = queue[p][k + 1]
  BY <1>1, HeadTailProperties
<1>3. Len(queue[p]) \in Nat \ {0}
  BY <1>1, EmptySeq
<1>4. Head(queue[p]) = queue[p][1]
  OBVIOUS
<1>5. Len(<<>>) = 0 /\ (Tail(queue[p]) # <<>> => Len(Tail(queue[p])) \in Nat \ {0})
  BY <1>2, EmptySeq
<1>6. Tail(queue[p]) = <<>> <=> Len(queue[p]) = 1
  <2>1. PICK n \in Nat \ {0} : n = Len(queue[p])
    BY <1>3
  <2>2. Len(Tail(queue[p])) = n - 1
    BY <1>2, <2>1
  <2>3. ASSUME Tail(queue[p]) = <<>> PROVE n = 1
    <3>1. n - 1 = 0
      BY <1>5, <2>2, <2>3
    <3> QED BY <2>1, <3>1
  <2>4. ASSUME n = 1 PROVE Tail(queue[p]) = <<>>
    BY <1>5, <2>2, <2>4
  <2> QED BY <2>1, <2>3, <2>4
<1> QED BY <1>2, <1>3, <1>4, <1>6

LEMMA NoCopyType == NoCopy \in CopyType
BY EmptySeq DEF NoCopy, CopyType

LEMMA IdleType == Idle \in ReqType
BY DEF Idle, ReqType, Control

LEMMA OnwardType ==
  ASSUME TInv, NEW p \in Process, req[p].pc # "idle"
  PROVE  Onward(p) \in Control \ (Working \cup {"idle", "serve"})
BY DEF Onward, TInv, Types, Placed, ReqType, Control, Working

\* The requests but p are where they were.
Only(p) == \A q \in Process \ {p} : req'[q] = req[q] /\ queue'[q] = queue[q]

LEMMA PlacedKept ==
  ASSUME TInv, NEW p \in Process, Only(p), Placed(p)', Types'
  PROVE  TInv'
<1>1. ASSUME NEW q \in Process \ {p} PROVE Placed(q)'
  BY <1>1 DEF Only, TInv, Placed
<1> QED BY <1>1 DEF TInv

\* A step of the program counter of p, and of its answer.
LEMMA MovedType ==
  ASSUME TInv, NEW p \in Process, req[p].pc \notin Working,
         UNCHANGED <<live, revision, ledger, held, overwritten, queue, copy, closed, writes, faults>>,
         link' \in [Link -> State], req' \in [Process -> ReqType],
         \A q \in Process \ {p} : req'[q] = req[q],
         req'[p].kind = req[p].kind, req'[p].about = req[p].about,
         req[p].pc # "idle", req'[p].pc \notin Working
  PROVE  TInv'
<1>1. Types'
  BY DEF TInv, Types
<1>2. Only(p) /\ Placed(p)'
  BY DEF Only, Placed, TInv
<1> QED BY <1>1, <1>2, PlacedKept

LEMMA GotoType ==
  ASSUME TInv, NEW p \in Process, NEW pc \in Control, Goto(p, pc)
  PROVE  /\ req' \in [Process -> ReqType] /\ req'[p].kind = req[p].kind
         /\ req'[p].about = req[p].about /\ req'[p].pc = pc /\ req'[p].answer = req[p].answer
         /\ \A q \in Process \ {p} : req'[q] = req[q]
<1>1. req \in [Process -> ReqType]
  BY DEF TInv, Types
<1>2. /\ req'[p].kind = req[p].kind /\ req'[p].about = req[p].about /\ req'[p].pc = pc
      /\ req'[p].answer = req[p].answer /\ \A q \in Process \ {p} : req'[q] = req[q]
  BY <1>1 DEF Goto, ReqType
<1>3. req' \in [Process -> ReqType]
  BY <1>1 DEF Goto, ReqType
<1> QED BY <1>2, <1>3

Answers == {"active", "pending", "revoked", "pending-revoke", "already-revoked", "served",
            "unavailable", "listed"}

LEMMA AnswerType ==
  ASSUME TInv, NEW p \in Process, NEW a \in Answers, Answer(p, a)
  PROVE  /\ req' \in [Process -> ReqType] /\ req'[p].kind = req[p].kind
         /\ req'[p].about = req[p].about /\ req'[p].pc = "done" /\ req'[p].answer = a
         /\ \A q \in Process \ {p} : req'[q] = req[q]
<1>1. req \in [Process -> ReqType] /\ "done" \in Control
  BY DEF TInv, Types, Control
<1>2. /\ req'[p].kind = req[p].kind /\ req'[p].about = req[p].about /\ req'[p].pc = "done"
      /\ req'[p].answer = a /\ \A q \in Process \ {p} : req'[q] = req[q]
  BY <1>1 DEF Answer, ReqType
<1>3. req' \in [Process -> ReqType]
  <2> DEFINE moved == [req EXCEPT ![p].pc = "done"]
  <2>1. moved \in [Process -> ReqType]
    BY <1>1 DEF ReqType
  <2>2. req' = [moved EXCEPT ![p].answer = a]
    BY <1>1 DEF Answer
  <2> HIDE DEF moved
  <2> QED BY <2>1, <2>2 DEF ReqType, Answers
<1> QED BY <1>2, <1>3

LEMMA BeginTyped ==
  ASSUME TInv, NEW p \in Process, NEW kind \in {"create", "revoke", "public", "list"},
         NEW about \in SUBSET Link, kind # "list" => \E l \in Link : about = {l},
         NEW pc \in Control \ (Working \cup {"idle"}), Begin(p, kind, about, pc)
  PROVE  /\ TInv' /\ req'[p].kind = kind /\ req'[p].about = about /\ req'[p].pc = pc
         /\ req'[p].answer = "none" /\ \A q \in Process \ {p} : req'[q] = req[q]
<1> DEFINE new == [Idle EXCEPT !.kind = kind, !.about = about, !.pc = pc]
<1>1. new \in ReqType /\ new.kind = kind /\ new.about = about /\ new.pc = pc /\ new.answer = "none"
  BY DEF Idle, ReqType
<1>2. req' = [req EXCEPT ![p] = new] /\ req[p].pc = "idle"
  BY DEF Begin, At
<1> HIDE DEF new
<1>3. /\ req' \in [Process -> ReqType] /\ req'[p] = new
      /\ \A q \in Process \ {p} : req'[q] = req[q]
  BY <1>1, <1>2 DEF TInv, Types
<1>4. UNCHANGED <<link, live, revision, ledger, held, overwritten, queue, copy, writes, faults>>
  BY DEF Begin, database, project, bounds
<1>5. closed' \in [Process -> BOOLEAN]
  BY DEF Begin, TInv, Types
<1>6. Types'
  BY <1>3, <1>4, <1>5 DEF TInv, Types
<1>7. Only(p) /\ Placed(p)'
  BY <1>1, <1>2, <1>3, <1>4 DEF Only, Placed, TInv, Working
<1> QED BY <1>1, <1>3, <1>6, <1>7, PlacedKept

\* The steps of a request outside a reconciliation.
LEMMA RequestTyped ==
  ASSUME TInv, NEW p \in Process,
         \/ Insert(p) \/ BeginRevocation(p) \/ Report(p) \/ Look(p) \/ Resolve(p)
         \/ Serve(p) \/ End(p)
  PROVE  TInv'
<1>l. ASSUME NEW l, NEW s \in State PROVE [link EXCEPT ![l] = s] \in [Link -> State]
  BY DEF TInv, Types
<1>1. CASE Insert(p)
  <2>1. link' \in [Link -> State]
    BY <1>1, <1>l DEF Insert, State
  <2>2. Goto(p, "read") /\ req[p].pc = "insert"
        /\ UNCHANGED <<live, revision, ledger, held, overwritten, queue, copy, closed, writes, faults>>
    BY <1>1 DEF Insert, At, bounds, project
  <2> QED BY <2>1, <2>2, GotoType, MovedType DEF Control, Working
<1>2. CASE BeginRevocation(p)
  <2>1. link' \in [Link -> State]
    <3>1. link \in [Link -> State]
      BY DEF TInv, Types
    <3> QED BY <1>2, <1>l, <3>1 DEF BeginRevocation, State
  <2>2. /\ req[p].pc = "begin"
        /\ UNCHANGED <<live, revision, ledger, held, overwritten, queue, copy, closed, writes, faults>>
    BY <1>2 DEF BeginRevocation, At, bounds, project
  <2>3. CASE Answer(p, "already-revoked")
    BY <2>1, <2>2, <2>3, AnswerType, MovedType DEF Answers, Working
  <2>4. CASE req' = [req EXCEPT ![p].pc = "read", ![p].again = TRUE]
    <3>1. /\ req' \in [Process -> ReqType] /\ req'[p].kind = req[p].kind
          /\ req'[p].about = req[p].about /\ req'[p].pc = "read"
          /\ \A q \in Process \ {p} : req'[q] = req[q]
      <4>1. req \in [Process -> ReqType] /\ "read" \in Control
        BY DEF TInv, Types, Control
      <4>2. /\ req'[p].kind = req[p].kind /\ req'[p].about = req[p].about /\ req'[p].pc = "read"
            /\ \A q \in Process \ {p} : req'[q] = req[q]
        BY <2>4, <4>1 DEF ReqType
      <4>3. req' \in [Process -> ReqType]
        <5> DEFINE moved == [req EXCEPT ![p].pc = "read"]
        <5>1. moved \in [Process -> ReqType]
          BY <4>1 DEF ReqType
        <5>2. req' = [moved EXCEPT ![p].again = TRUE]
          BY <2>4, <4>1
        <5> HIDE DEF moved
        <5> QED BY <5>1, <5>2 DEF ReqType
      <4> QED BY <4>2, <4>3
    <3> QED BY <2>1, <2>2, <3>1, MovedType DEF Working
  <2> QED BY <1>2, <2>3, <2>4 DEF BeginRevocation
<1>3. CASE Report(p)
  <2>1. /\ req[p].pc = "report" /\ \E a \in Answers : Answer(p, a)
        /\ UNCHANGED <<link, live, revision, ledger, held, overwritten, queue, copy, closed, writes, faults>>
    BY <1>3 DEF Report, At, database, project, bounds, Answers
  <2> QED BY <2>1, AnswerType, MovedType DEF Working, TInv, Types
<1>4. CASE Look(p) \/ Resolve(p) \/ Serve(p)
  <2>1. /\ req[p].pc \in {"look", "resolve", "serve"}
        /\ \/ Goto(p, "read") \/ Goto(p, "serve")
           \/ Answer(p, "unavailable") \/ Answer(p, "served")
        /\ UNCHANGED <<link, live, revision, ledger, held, overwritten, queue, copy, closed, writes, faults>>
    BY <1>4 DEF Look, Resolve, Serve, At, database, project, bounds
  <2>l. link' \in [Link -> State] /\ req[p].pc # "idle" /\ req[p].pc \notin Working
    BY <2>1 DEF TInv, Types, Working
  <2>2. ASSUME NEW pc \in {"read", "serve"}, Goto(p, pc) PROVE TInv'
    <3>1. pc \in Control \ Working
      BY DEF Control, Working
    <3>2. /\ req' \in [Process -> ReqType] /\ req'[p].kind = req[p].kind
          /\ req'[p].about = req[p].about /\ req'[p].pc = pc
          /\ \A q \in Process \ {p} : req'[q] = req[q]
      BY <2>2, <3>1, GotoType
    <3> QED BY <2>1, <2>l, <3>1, <3>2, MovedType
  <2>3. ASSUME NEW a \in Answers, Answer(p, a) PROVE TInv'
    <3>1. /\ req' \in [Process -> ReqType] /\ req'[p].kind = req[p].kind
          /\ req'[p].about = req[p].about /\ req'[p].pc = "done"
          /\ \A q \in Process \ {p} : req'[q] = req[q]
      BY <2>3, AnswerType
    <3>2. "done" \notin Working
      BY DEF Working
    <3> QED BY <2>1, <2>l, <3>1, <3>2, MovedType
  <2> QED BY <2>1, <2>2, <2>3 DEF Answers
<1>5. CASE End(p)
  <2>1. /\ req[p].pc = "end"
        /\ UNCHANGED <<link, live, revision, ledger, held, overwritten, queue, copy, closed, writes, faults>>
    BY <1>5 DEF End, At, database, project, bounds
  <2>2. CASE Answer(p, "listed")
    BY <2>1, <2>2, AnswerType, MovedType DEF Working, Answers, TInv, Types
  <2>3. CASE req' = [req EXCEPT ![p] = Idle]
    <3>1. /\ req' \in [Process -> ReqType] /\ req'[p] = Idle
          /\ \A q \in Process \ {p} : req'[q] = req[q]
      BY <2>3, IdleType DEF TInv, Types
    <3>2. Types'
      BY <2>1, <3>1 DEF TInv, Types
    <3>3. Only(p) /\ Placed(p)'
      BY <2>1, <3>1 DEF Only, Placed, Idle, TInv, Working
    <3> QED BY <3>2, <3>3, PlacedKept
  <2> QED BY <1>5, <2>2, <2>3 DEF End
<1> QED BY <1>1, <1>2, <1>3, <1>4, <1>5

-----------------------------------------------------------------------------
(* Types: reconciliations                                                  *)

\* What a step of a reconciliation leaves of its request.
Reconciles(p, pc) ==
  /\ req' \in [Process -> ReqType] /\ req'[p].kind = req[p].kind /\ req'[p].about = req[p].about
  /\ req'[p].pc = pc /\ req'[p].answer = req[p].answer
  /\ \A q \in Process \ {p} : req'[q] = req[q]

LEMMA ReconciledType ==
  ASSUME TInv, NEW p \in Process, NEW pc \in Control, Reconciles(p, pc), pc # "idle",
         req[p].pc # "idle",
         UNCHANGED <<closed, writes, overwritten>>, faults' \in Nat,
         link' \in [Link -> State], UNCHANGED live, revision' \in Nat,
         ledger' \in Seq(LedgerEntry), ledger' \in held', held' \in SUBSET Seq(LedgerEntry),
         queue' \in [Process -> Seq(Item)], copy' \in [Process -> CopyType],
         \A q \in Process \ {p} : queue'[q] = queue[q],
         pc \in Working <=> queue'[p] # <<>>
  PROVE  TInv'
<1>1. Types'
  BY DEF TInv, Types, Reconciles
<1>2. Only(p) /\ Placed(p)'
  BY DEF Only, Placed, TInv, Reconciles
<1> QED BY <1>1, <1>2, PlacedKept

LEMMA AdvanceType ==
  ASSUME TInv, NEW p \in Process, req[p].pc \in Working, Advance(p)
  PROVE  /\ queue[p] # <<>>
         /\ queue' \in [Process -> Seq(Item)] /\ queue'[p] = Tail(queue[p])
         /\ copy' \in [Process -> CopyType] /\ copy'[p] = NoCopy
         /\ \A q \in Process \ {p} : queue'[q] = queue[q] /\ copy'[q] = copy[q]
         /\ \E pc \in Control \ {"idle", "put", "mark", "serve"} :
              Reconciles(p, pc) /\ (pc \in Working <=> queue'[p] # <<>>)
<1>1. queue[p] # <<>>
  BY DEF TInv, Placed
<1>2. Tail(queue[p]) \in Seq(Item) /\ (Tail(queue[p]) = <<>> <=> Len(queue[p]) = 1)
  BY <1>1, SequenceFacts
<1>3. /\ queue' = [queue EXCEPT ![p] = Tail(queue[p])] /\ copy' = [copy EXCEPT ![p] = NoCopy]
  BY DEF Advance
<1>4. /\ queue' \in [Process -> Seq(Item)] /\ queue'[p] = Tail(queue[p])
      /\ copy' \in [Process -> CopyType] /\ copy'[p] = NoCopy
      /\ \A q \in Process \ {p} : queue'[q] = queue[q] /\ copy'[q] = copy[q]
  <2>1. queue \in [Process -> Seq(Item)] /\ copy \in [Process -> CopyType]
    BY DEF TInv, Types
  <2> QED BY <1>2, <1>3, <2>1, NoCopyType
<1> DEFINE pc == IF Len(queue[p]) = 1 THEN Onward(p) ELSE "load"
<1>5. Onward(p) \in Control \ (Working \cup {"idle", "serve"})
  BY OnwardType DEF Working
<1>6. pc \in Control \ {"idle", "put", "mark", "serve"}
      /\ (pc \in Working <=> Len(queue[p]) # 1)
  BY <1>5 DEF Control, Working
<1>7. Goto(p, pc)
  BY DEF Advance, Goto
<1> HIDE DEF pc
<1>8. Reconciles(p, pc)
  BY <1>6, <1>7, GotoType DEF Reconciles
<1> QED BY <1>1, <1>2, <1>4, <1>6, <1>8

LEMMA ReadTyped ==
  ASSUME TInv, NEW p \in Process, ReadPending(p)
  PROVE  TInv'
<1> DEFINE found == {l \in req[p].about : link[l] \in Pending}
<1>1. PICK q \in [1 .. Cardinality(found) -> Link] :
        /\ {q[k] : k \in DOMAIN q} = found
        /\ queue' = [queue EXCEPT ![p] = [k \in DOMAIN q |-> [link |-> q[k], state |-> link[q[k]]]]]
        /\ Goto(p, IF q = <<>> THEN Onward(p) ELSE "load")
  BY DEF ReadPending
<1>2. found \in SUBSET Link /\ IsFiniteSet(Link)
  BY ShareConstants DEF TInv, Types, ReqType
<1>3. Cardinality(found) \in Nat
  BY <1>2, FS_Subset, FS_CardinalityType
<1> DEFINE n == Cardinality(found)
           items == [k \in DOMAIN q |-> [link |-> q[k], state |-> link[q[k]]]]
<1>4. items \in [1 .. n -> Item]
  <2>1. ASSUME NEW k \in 1 .. n PROVE [link |-> q[k], state |-> link[q[k]]] \in Item
    <3>1. q[k] \in found /\ q[k] \in Link
      BY <1>1
    <3> QED BY <3>1 DEF Item
  <2> QED BY <1>1, <2>1
<1> HIDE DEF found
<1>5. items \in Seq(Item) /\ DOMAIN items = DOMAIN q /\ q \in Seq(Link)
  <2>1. items \in Seq(Item)
    BY <1>3, <1>4, SeqDef
  <2>2. q \in Seq(Link)
    BY <1>1, <1>3, SeqDef
  <2> QED BY <2>1, <2>2
<1>6. items = <<>> <=> q = <<>>
  <2>1. DOMAIN items = 1 .. Len(items) /\ DOMAIN q = 1 .. Len(q)
        /\ Len(items) \in Nat /\ Len(q) \in Nat
    BY <1>5, LenProperties
  <2>2. Len(items) = Len(q)
    BY <1>5, <2>1
  <2>3. Len(<<>>) = 0 /\ (items # <<>> => Len(items) \in Nat \ {0}) /\ (q # <<>> => Len(q) \in Nat \ {0})
    BY <1>5, EmptySeq
  <2> HIDE DEF items
  <2> QED BY <2>2, <2>3
<1> HIDE DEF items
<1> DEFINE pc == IF q = <<>> THEN Onward(p) ELSE "load"
<1>7. req[p].pc = "read" /\ UNCHANGED <<link, live, revision, ledger, held, overwritten, copy, closed, writes, faults>>
  BY DEF ReadPending, At, database, project, bounds
<1>8. Onward(p) \in Control \ (Working \cup {"idle", "serve"})
  BY <1>7, OnwardType
<1>9. pc \in Control /\ pc # "idle" /\ (pc \in Working <=> q # <<>>)
  BY <1>8 DEF Control, Working
<1>10. Goto(p, pc)
  BY <1>1
<1> HIDE DEF pc
<1>11. Reconciles(p, pc)
  BY <1>9, <1>10, GotoType DEF Reconciles
<1>12. queue' = [queue EXCEPT ![p] = items]
  BY <1>1 DEF items
<1>13. /\ queue' \in [Process -> Seq(Item)] /\ queue'[p] = items
       /\ \A x \in Process \ {p} : queue'[x] = queue[x]
  <2>1. queue \in [Process -> Seq(Item)]
    BY DEF TInv, Types
  <2> QED BY <1>5, <1>12, <2>1
<1>14. link' \in [Link -> State] /\ revision' \in Nat /\ ledger' \in Seq(LedgerEntry)
      /\ ledger' \in held' /\ held' \in SUBSET Seq(LedgerEntry)
       /\ copy' \in [Process -> CopyType] /\ faults' \in Nat
  BY <1>7 DEF TInv, Types
<1> QED BY <1>6, <1>7, <1>9, <1>11, <1>13, <1>14, ReconciledType

\* The entry of the link at hand.
LEMMA EntryType ==
  ASSUME TInv, NEW p \in Process, req[p].pc \in Working
  PROVE  /\ Entry(p) \in LedgerEntry /\ Entry(p).link = Head(queue[p]).link
         /\ Entry(p).kind = IF Head(queue[p]).state = "pending-create" THEN "created" ELSE "revoked"
<1>1. queue[p] # <<>>
  BY DEF TInv, Placed
<1>2. Head(queue[p]) \in Item
  BY <1>1, SequenceFacts
<1>3. Head(queue[p]).link \in Link
  BY <1>2 DEF Item
<1> QED BY <1>3 DEF Entry, LedgerEntry

LEMMA ExecuteType ==
  ASSUME TInv, NEW p \in Process, req[p].pc \in Working
  PROVE  Execute(p) \in Seq(LedgerEntry)
<1>1. copy[p].ledger \in Seq(LedgerEntry)
  BY DEF TInv, Types, CopyType
<1> QED BY <1>1, EntryType, AppendProperties DEF Execute

LEMMA LoadTyped ==
  ASSUME TInv, NEW p \in Process, Load(p)
  PROVE  TInv'
<1>1. /\ req[p].pc = "load" /\ UNCHANGED <<link, live, revision, ledger, held, overwritten, closed, writes, faults>>
  BY DEF Load, At, database, project, bounds
<1>2. link' \in [Link -> State] /\ revision' \in Nat /\ ledger' \in Seq(LedgerEntry)
      /\ ledger' \in held' /\ held' \in SUBSET Seq(LedgerEntry)
      /\ faults' \in Nat
  BY <1>1 DEF TInv, Types
<1>3. CASE Advance(p)
  BY <1>1, <1>2, <1>3, AdvanceType, ReconciledType DEF Working
<1>4. CASE ~Advance(p)
  <2> DEFINE new == [rev |-> revision, ledger |-> ledger]
  <2>1. copy' = [copy EXCEPT ![p] = new] /\ Goto(p, "put") /\ UNCHANGED queue
    BY <1>4 DEF Load
  <2>2. new \in CopyType
    BY DEF CopyType, TInv, Types
  <2> HIDE DEF new
  <2>3. copy' \in [Process -> CopyType] /\ queue' \in [Process -> Seq(Item)]
        /\ \A q \in Process \ {p} : queue'[q] = queue[q]
    BY <2>1, <2>2 DEF TInv, Types
  <2>4. Reconciles(p, "put")
    BY <2>1, GotoType DEF Reconciles, Control
  <2>5. queue'[p] # <<>>
    BY <1>1, <2>1 DEF TInv, Placed, Working
  <2> QED BY <1>1, <1>2, <2>3, <2>4, <2>5, ReconciledType DEF Working, Control
<1> QED BY <1>3, <1>4

LEMMA PutTyped ==
  ASSUME TInv, NEW p \in Process, Put(p)
  PROVE  TInv'
<1>1. /\ req[p].pc = "put" /\ UNCHANGED <<link, live, overwritten, queue, copy, closed, writes, faults>>
      /\ \E pc \in {"mark", "load"} : Goto(p, pc)
  BY DEF Put, At, bounds
<1>2. revision' \in Nat /\ ledger' \in Seq(LedgerEntry)
      /\ ledger' \in held' /\ held' \in SUBSET Seq(LedgerEntry)
  <2>1. /\ revision \in Nat /\ ledger \in Seq(LedgerEntry) /\ ledger \in held
        /\ held \in SUBSET Seq(LedgerEntry)
    BY DEF TInv, Types
  <2>2. Execute(p) \in Seq(LedgerEntry)
    BY <1>1, ExecuteType DEF Working
  <2> QED BY <2>1, <2>2 DEF Put, Store
<1>3. PICK pc \in {"mark", "load"} : Goto(p, pc)
  BY <1>1
<1>4. Reconciles(p, pc)
  BY <1>3, GotoType DEF Reconciles, Control
<1>5. queue'[p] # <<>> /\ link' \in [Link -> State] /\ faults' \in Nat
      /\ queue' \in [Process -> Seq(Item)] /\ copy' \in [Process -> CopyType]
  BY <1>1 DEF TInv, Types, Placed, Working
<1> QED BY <1>1, <1>2, <1>4, <1>5, ReconciledType DEF Working, Control

LEMMA MarkTyped ==
  ASSUME TInv, NEW p \in Process, Mark(p)
  PROVE  TInv'
<1>1. /\ req[p].pc = "mark" /\ UNCHANGED <<live, revision, ledger, held, overwritten, closed, writes, faults>>
      /\ Advance(p)
  BY DEF Mark, At, bounds, project
<1>2. link' \in [Link -> State]
  <2>1. link \in [Link -> State]
    BY DEF TInv, Types
  <2> QED BY <2>1 DEF Mark, State
<1>3. revision' \in Nat /\ ledger' \in Seq(LedgerEntry) /\ faults' \in Nat
      /\ ledger' \in held' /\ held' \in SUBSET Seq(LedgerEntry)
  BY <1>1 DEF TInv, Types
<1> QED BY <1>1, <1>2, <1>3, AdvanceType, ReconciledType DEF Working

LEMMA FailTyped ==
  ASSUME TInv, NEW p \in Process, Fail(p)
  PROVE  TInv'
<1>1. /\ req[p].pc \in Working /\ UNCHANGED <<link, live, revision, ledger, held, overwritten, closed, writes>>
      /\ Advance(p) /\ faults' = faults + 1
  BY DEF Fail, database, project, Working
<1>2. link' \in [Link -> State] /\ revision' \in Nat /\ ledger' \in Seq(LedgerEntry)
      /\ ledger' \in held' /\ held' \in SUBSET Seq(LedgerEntry)
      /\ faults' \in Nat
  BY <1>1 DEF TInv, Types
<1>3. req[p].pc # "idle"
  BY <1>1 DEF Working
<1> QED BY <1>1, <1>2, <1>3, AdvanceType, ReconciledType

LEMMA DieFields ==
  ASSUME TInv, NEW p \in Process, Die(p)
  PROVE  /\ req' \in [Process -> ReqType] /\ req'[p].pc \in {"idle", "done"}
         /\ p # Sweep => /\ req'[p].kind = req[p].kind /\ req'[p].about = req[p].about
                         /\ req'[p].pc = "done" /\ req'[p].answer = req[p].answer
         /\ p = Sweep => req'[p] = Idle
         /\ queue'[p] = <<>> /\ copy'[p] = NoCopy
         /\ \A q \in Process \ {p} : req'[q] = req[q] /\ queue'[q] = queue[q] /\ copy'[q] = copy[q]
         /\ TInv'
<1> DEFINE new == IF p = Sweep THEN Idle ELSE [req[p] EXCEPT !.pc = "done"]
<1>1. /\ req[p].pc # "idle" /\ req' = [req EXCEPT ![p] = new] /\ faults' = faults + 1
      /\ queue' = [queue EXCEPT ![p] = <<>>] /\ copy' = [copy EXCEPT ![p] = NoCopy]
      /\ UNCHANGED <<link, live, revision, ledger, held, overwritten, closed, writes>>
  BY DEF Die, database, project
<1>2. req[p] \in ReqType
  BY DEF TInv, Types
<1>3. /\ new \in ReqType /\ new.pc \in {"idle", "done"}
      /\ p # Sweep => /\ new.kind = req[p].kind /\ new.about = req[p].about /\ new.pc = "done"
                      /\ new.answer = req[p].answer
      /\ p = Sweep => new = Idle
  BY <1>2, IdleType DEF ReqType, Control, Idle
<1> HIDE DEF new
<1>4. <<>> \in Seq(Item)
  BY EmptySeq
<1>5. /\ req' \in [Process -> ReqType] /\ req'[p] = new
      /\ queue' \in [Process -> Seq(Item)] /\ queue'[p] = <<>>
      /\ copy' \in [Process -> CopyType] /\ copy'[p] = NoCopy
      /\ \A q \in Process \ {p} : req'[q] = req[q] /\ queue'[q] = queue[q] /\ copy'[q] = copy[q]
  <2>1. req \in [Process -> ReqType] /\ queue \in [Process -> Seq(Item)]
        /\ copy \in [Process -> CopyType]
    BY DEF TInv, Types
  <2> QED BY <1>1, <1>3, <1>4, <2>1, NoCopyType
<1>6. Types'
  BY <1>1, <1>5 DEF TInv, Types
<1>7. Placed(p)'
  <2>1. CASE p = Sweep
    BY <1>3, <1>5, <2>1 DEF Placed, Idle, Working
  <2>2. CASE p # Sweep
    BY <1>1, <1>3, <1>5, <2>2 DEF Placed, TInv, Working
  <2> QED BY <2>1, <2>2
<1>8. TInv'
  BY <1>5, <1>6, <1>7, PlacedKept DEF Only
<1> QED BY <1>3, <1>5, <1>8

LEMMA WriteTyped == ASSUME TInv, Write \/ Overwrite PROVE TInv'
<1>1. /\ writes' = writes + 1 /\ revision' = revision + 1 /\ live' \in BOOLEAN
      /\ ledger' \in held /\ overwritten' \in BOOLEAN
      /\ UNCHANGED <<link, held, req, queue, copy, closed, faults>>
  BY DEF Write, Overwrite, TInv, Types
<1>2. writes' \in Nat /\ revision' \in Nat /\ ledger' \in Seq(LedgerEntry)
  BY <1>1 DEF TInv, Types
<1>3. Types'
  BY <1>1, <1>2 DEF TInv, Types
<1> QED BY <1>1, <1>3 DEF TInv, Placed

\* A request begins.
Starts(p) == (p \in Request /\ (Start(p) \/ BeginList(p))) \/ (p = Sweep /\ BeginSweep)

LEMMA StartFields ==
  ASSUME TInv, NEW p \in Process, Starts(p)
  PROVE  /\ TInv' /\ UNCHANGED <<link, live, revision, ledger, held, overwritten, queue, copy, writes, faults>>
         /\ req[p].pc = "idle" /\ req'[p].pc \in {"insert", "read", "look"}
         /\ req'[p].answer = "none" /\ \A q \in Process \ {p} : req'[q] = req[q]
         /\ req'[p].kind = "public" => p # Sweep
         /\ closed' = [closed EXCEPT ![p] =
                         req'[p].kind = "public" /\ \A l \in req'[p].about : link[l] \in Closing]
<1>1. PICK kind \in {"create", "revoke", "public", "list"}, about \in SUBSET Link,
           pc \in {"insert", "read", "look"} :
        /\ kind # "list" => \E l \in Link : about = {l}
        /\ kind = "public" => p # Sweep
        /\ Begin(p, kind, about, pc)
  BY ShareConstants DEF Starts, Start, BeginCreate, BeginRevoke, BeginPublic, BeginList,
      BeginSweep
<1>2. pc \in Control \ (Working \cup {"idle"})
  BY DEF Control, Working
<1>3. /\ TInv' /\ req'[p].kind = kind /\ req'[p].about = about /\ req'[p].pc = pc
      /\ req'[p].answer = "none" /\ \A q \in Process \ {p} : req'[q] = req[q]
  BY <1>1, <1>2, BeginTyped
<1>4. /\ UNCHANGED <<link, live, revision, ledger, held, overwritten, queue, copy, writes, faults>>
      /\ req[p].pc = "idle"
      /\ closed' = [closed EXCEPT ![p] = kind = "public" /\ \A l \in about : link[l] \in Closing]
  BY <1>1 DEF Begin, At, database, project, bounds, Closing
<1>5. kind = "public" => p # Sweep
  BY <1>1
<1> QED BY <1>3, <1>4, <1>5

\* The kinds of steps.
LEMMA NextCases ==
  [Next]_vars =>
    \/ UNCHANGED vars
    \/ Write \/ Overwrite
    \/ \E p \in Process : Starts(p) \/ Step(p) \/ Fail(p) \/ Die(p)
BY DEF Next, Starts, Process

LEMMA StepTyped == TInv /\ [Next]_vars => TInv'
<1> SUFFICES ASSUME TInv, [Next]_vars PROVE TInv'
  OBVIOUS
<1>1. CASE UNCHANGED vars
  BY <1>1 DEF vars, database, project, bounds, TInv, Types, Placed
<1>2. CASE Write \/ Overwrite
  BY <1>2, WriteTyped
<1>3. ASSUME NEW p \in Process, Starts(p) \/ Step(p) \/ Fail(p) \/ Die(p) PROVE TInv'
  <2>1. CASE Step(p)
    BY <2>1, RequestTyped, ReadTyped, LoadTyped, PutTyped, MarkTyped DEF Step
  <2> QED BY <1>3, <2>1, StartFields, FailTyped, DieFields
<1> QED BY <1>1, <1>2, <1>3, NextCases

-----------------------------------------------------------------------------
(* What a step does to the links and to the ledger                         *)

LinkMove(l) ==
  \/ link'[l] = link[l]
  \/ link[l] = "none" /\ link'[l] = "pending-create"
  \/ link[l] = "active" /\ link'[l] = "pending-revoke"
  \/ link[l] = "pending-create" /\ link'[l] = "active" /\ Stored("created", l)
  \/ link[l] = "pending-revoke" /\ link'[l] = "revoked" /\ Stored("revoked", l)

\* An entry that is not there yet, of a revocation only when the link is closed.
Appends(e) ==
  /\ ledger' = Append(ledger, e) /\ held' = held \cup {ledger'}
  /\ link' = link /\ ~Ledgered(e.kind, e.link)
  /\ e.kind = "revoked" => link[e.link] \in Closing

\* The ledger stays, gets an entry, or is one that was stored before.
Moves ==
  /\ \A l \in Link : LinkMove(l)
  /\ \/ ledger' = ledger /\ held' = held /\ overwritten' = overwritten
     \/ overwritten' = overwritten /\ \E e \in LedgerEntry : Appends(e)
     \/ overwritten' = TRUE /\ ledger' \in held /\ held' = held
  /\ (revision' = revision /\ ledger' = ledger) \/ revision' = revision + 1

LEMMA AppendFacts ==
  ASSUME NEW s \in Seq(LedgerEntry), NEW e \in LedgerEntry
  PROVE  /\ Len(s) \in Nat /\ DOMAIN s = 1 .. Len(s)
         /\ DOMAIN Append(s, e) = 1 .. (Len(s) + 1)
         /\ \A k \in 1 .. Len(s) : Append(s, e)[k] = s[k] /\ s[k] \in LedgerEntry
         /\ Append(s, e)[Len(s) + 1] = e
<1>1. Len(s) \in Nat /\ DOMAIN s = 1 .. Len(s)
  BY LenProperties
<1>2. Append(s, e) \in Seq(LedgerEntry) /\ Len(Append(s, e)) = Len(s) + 1
      /\ (\A k \in 1 .. Len(s) : Append(s, e)[k] = s[k]) /\ Append(s, e)[Len(s) + 1] = e
  BY AppendProperties
<1>3. DOMAIN Append(s, e) = 1 .. (Len(s) + 1)
  BY <1>2, LenProperties
<1>4. \A k \in 1 .. Len(s) : s[k] \in LedgerEntry
  BY <1>1, ElementOfSeq
<1> QED BY <1>1, <1>2, <1>3, <1>4

\* An entry that is appended.
LEMMA Appended ==
  ASSUME TInv, NEW e \in LedgerEntry, Appends(e), NEW kind \in {"created", "revoked"}, NEW l \in Link
  PROVE  Ledgered(kind, l)' <=> Ledgered(kind, l) \/ e = [kind |-> kind, link |-> l]
<1>1. ledger \in Seq(LedgerEntry) /\ ledger' = Append(ledger, e)
  BY DEF TInv, Types, Appends
<1> DEFINE n == Len(ledger)
<1>2. /\ n \in Nat /\ DOMAIN ledger = 1 .. n /\ DOMAIN ledger' = 1 .. (n + 1)
      /\ (\A k \in 1 .. n : ledger'[k] = ledger[k]) /\ ledger'[n + 1] = e
  BY <1>1, AppendFacts
<1> HIDE DEF n
<1>3. \A k \in 1 .. (n + 1) : k \in 1 .. n \/ k = n + 1
  BY <1>2
<1>4. (\A k \in 1 .. n : k \in 1 .. (n + 1)) /\ n + 1 \in 1 .. (n + 1)
  BY <1>2
<1> QED BY <1>2, <1>3, <1>4 DEF Ledgered

\* What was stored stays so, and nothing comes but what is appended.
LEMMA StoredKept ==
  ASSUME TInv, Moves, NEW l \in Link, NEW kind \in {"created", "revoked"}
  PROVE  /\ Stored(kind, l) => Stored(kind, l)'
         /\ Stored(kind, l)' => Stored(kind, l) \/ Appends([kind |-> kind, link |-> l])
<1>1. CASE held' = held
  BY <1>1 DEF Stored
<1>2. ASSUME NEW e \in LedgerEntry, Appends(e)
      PROVE  /\ Stored(kind, l) => Stored(kind, l)'
             /\ Stored(kind, l)' => Stored(kind, l) \/ e = [kind |-> kind, link |-> l]
  <2>1. held' = held \cup {ledger'} /\ ledger \in held
    BY <1>2 DEF Appends, TInv, Types
  <2>2. Ledgered(kind, l)' => Ledgered(kind, l) \/ e = [kind |-> kind, link |-> l]
    BY <1>2, Appended
  <2> QED BY <2>1, <2>2 DEF Stored, Ledgered
<1> QED BY <1>1, <1>2 DEF Moves

\* The states of the links follow the ledgers that were stored.
LEMMA StatesKept ==
  ASSUME IInv, Moves
  PROVE  StateIsLedgered'
<1> SUFFICES ASSUME NEW l \in Link
             PROVE  /\ link'[l] \in {"active", "pending-revoke", "revoked"} => Stored("created", l)'
                    /\ link'[l] = "revoked" => Stored("revoked", l)'
                    /\ Stored("revoked", l)' => link'[l] \in {"pending-revoke", "revoked"}
                    /\ ~overwritten' => \A kind \in {"created", "revoked"} :
                                          Stored(kind, l)' => Ledgered(kind, l)'
  BY DEF StateIsLedgered, Stored, Ledgered
<1>1. /\ link[l] \in {"active", "pending-revoke", "revoked"} => Stored("created", l)
      /\ link[l] = "revoked" => Stored("revoked", l)
      /\ Stored("revoked", l) => link[l] \in {"pending-revoke", "revoked"}
  BY DEF IInv, StateIsLedgered
<1>2. /\ Stored("created", l) => Stored("created", l)'
      /\ Stored("revoked", l) => Stored("revoked", l)'
      /\ Stored("revoked", l)' =>
           Stored("revoked", l) \/ Appends([kind |-> "revoked", link |-> l])
  BY StoredKept DEF IInv
<1>3. Appends([kind |-> "revoked", link |-> l]) => link'[l] \in Closing
  BY DEF Appends
<1>4. LinkMove(l)
  BY DEF Moves
<1>5. link[l] \in Closing => link'[l] \in Closing
  BY <1>4 DEF LinkMove, Closing
<1>6. link'[l] \in {"active", "pending-revoke", "revoked"} => Stored("created", l)
  BY <1>1, <1>4 DEF LinkMove
<1>7. link'[l] = "revoked" => Stored("revoked", l)
  BY <1>1, <1>4 DEF LinkMove
<1>8. ASSUME ~overwritten', NEW kind \in {"created", "revoked"}, Stored(kind, l)'
      PROVE  Ledgered(kind, l)'
  <2>1. ~overwritten /\ (Stored(kind, l) => Ledgered(kind, l))
    BY <1>8 DEF IInv, Moves, StateIsLedgered
  <2>2. CASE ledger' = ledger /\ held' = held
    BY <1>8, <2>1, <2>2 DEF Stored, Ledgered
  <2>3. ASSUME NEW e \in LedgerEntry, Appends(e) PROVE Ledgered(kind, l)'
    <3>1. held' = held \cup {ledger'}
      BY <2>3 DEF Appends
    <3>2. Stored(kind, l) \/ Ledgered(kind, l)'
      BY <1>8, <3>1 DEF Stored, Ledgered
    <3>3. Ledgered(kind, l) => Ledgered(kind, l)'
      BY <2>3, Appended DEF IInv
    <3> QED BY <2>1, <3>2, <3>3
  <2> QED BY <1>8, <2>2, <2>3 DEF Moves
<1> QED BY <1>1, <1>2, <1>3, <1>5, <1>6, <1>7, <1>8 DEF Closing

\* An entry that is not in a ledger repeats nothing of it.
LEMMA NoRepeatKept ==
  ASSUME IInv, NEW e \in LedgerEntry, Appends(e)
  PROVE  /\ NoRepeat(ledger')
         /\ ~overwritten => \A i, j \in DOMAIN ledger' :
              ledger'[i].link = ledger'[j].link /\ i < j => ledger'[i].kind = "created"
<1>1. ledger \in Seq(LedgerEntry) /\ ledger' = Append(ledger, e)
  BY DEF IInv, TInv, Types, Appends
<1> DEFINE n == Len(ledger)
<1>2. /\ n \in Nat /\ DOMAIN ledger = 1 .. n /\ DOMAIN ledger' = 1 .. (n + 1)
      /\ (\A k \in 1 .. n : ledger'[k] = ledger[k] /\ ledger[k] \in LedgerEntry)
      /\ ledger'[n + 1] = e
  BY <1>1, AppendFacts
<1> HIDE DEF n
<1>3. ASSUME NEW i \in 1 .. (n + 1), NEW j \in 1 .. (n + 1),
             ledger'[i].link = ledger'[j].link, i < j
      PROVE  /\ ledger'[i].kind # ledger'[j].kind
             /\ ~overwritten => ledger'[i].kind = "created"
  <2>1. i \in 1 .. n
    BY <1>2, <1>3
  <2>2. CASE j \in 1 .. n
    BY <1>2, <1>3, <2>1, <2>2 DEF IInv, LedgeredOnce
  <2>3. CASE j = n + 1
    <3>1. ledger[i] \in LedgerEntry /\ ledger[i].link = e.link
      BY <1>2, <1>3, <2>1, <2>3
    <3>2. ledger[i] = [kind |-> ledger[i].kind, link |-> e.link]
          /\ ledger[i].kind \in {"created", "revoked"}
      BY <3>1 DEF LedgerEntry
    <3>3. Ledgered(ledger[i].kind, e.link)
      BY <1>2, <2>1, <3>2 DEF Ledgered
    <3>4. ~Ledgered(e.kind, e.link) /\ e.kind \in {"created", "revoked"} /\ e.link \in Link
      BY DEF Appends, LedgerEntry
    <3>5. ledger[i].kind # e.kind
      BY <3>3, <3>4
    <3>6. ASSUME ~overwritten PROVE ledger[i].kind = "created"
      <4>1. Ledgered("revoked", e.link) => Stored("revoked", e.link)
        BY DEF Ledgered, Stored, IInv, TInv, Types
      <4>2. Stored("revoked", e.link) => Stored("created", e.link)
        BY <3>4 DEF IInv, StateIsLedgered
      <4>3. Stored("created", e.link) => Ledgered("created", e.link)
        BY <3>4, <3>6 DEF IInv, StateIsLedgered
      <4> QED BY <3>2, <3>3, <3>4, <3>5, <4>1, <4>2, <4>3
    <3> QED BY <1>2, <2>1, <2>3, <3>5, <3>6
  <2> QED BY <1>2, <2>2, <2>3
<1> QED BY <1>2, <1>3 DEF NoRepeat

\* No transition comes twice, and the revocation after the creation.
LEMMA OnceKept ==
  ASSUME IInv, Moves
  PROVE  HeldOnce' /\ LedgeredOnce'
<1>1. CASE ledger' = ledger /\ held' = held /\ overwritten' = overwritten
  BY <1>1 DEF IInv, HeldOnce, LedgeredOnce
<1>2. ASSUME overwritten' = overwritten, NEW e \in LedgerEntry, Appends(e)
      PROVE  HeldOnce' /\ LedgeredOnce'
  <2>1. held' = held \cup {ledger'}
    BY <1>2 DEF Appends
  <2> QED BY <1>2, <2>1, NoRepeatKept DEF IInv, HeldOnce, LedgeredOnce, NoRepeat
<1>3. CASE overwritten' = TRUE /\ ledger' \in held /\ held' = held
  BY <1>3 DEF IInv, HeldOnce, LedgeredOnce, NoRepeat
<1> QED BY <1>1, <1>2, <1>3 DEF Moves

-----------------------------------------------------------------------------
(* What a step does to each process                                        *)

QueueMove(p) ==
  \/ queue'[p] = queue[p] \/ queue'[p] = <<>>
  \/ queue[p] # <<>> /\ queue'[p] = Tail(queue[p])
  \/ \A k \in 1 .. Len(queue'[p]) : link[queue'[p][k].link] = queue'[p][k].state

CopyMove(p) ==
  \/ copy'[p] = copy[p] \/ copy'[p] = NoCopy
  \/ copy'[p] = [rev |-> revision, ledger |-> ledger] /\ UNCHANGED <<revision, ledger>>

MarkMove(p) ==
  req'[p].pc = "mark" =>
    /\ queue'[p] = queue[p] /\ queue[p] # <<>>
    /\ req[p].pc = "mark" \/ Stored(Entry(p).kind, Entry(p).link)'

ClosedMove(p) ==
  /\ closed'[p] = closed[p]
  /\ closed[p] => /\ req'[p].kind = req[p].kind /\ req'[p].about = req[p].about
                  /\ req'[p].pc \notin {"idle", "serve"} /\ req'[p].answer # "served"

PMove(p) == QueueMove(p) /\ CopyMove(p) /\ MarkMove(p) /\ ClosedMove(p)

LEMMA ClosingKept ==
  ASSUME Moves, NEW l \in Link, link[l] \in Closing PROVE link'[l] \in Closing
BY DEF Moves, LinkMove, Closing

LEMMA ItemsKept ==
  ASSUME IInv, TInv', Moves, NEW p \in Process, QueueMove(p)
  PROVE  ItemsTrue(p)'
<1>1. queue[p] \in Seq(Item) /\ queue'[p] \in Seq(Item)
  BY DEF IInv, TInv, Types
<1>2. ASSUME NEW k \in 1 .. Len(queue'[p]) PROVE queue'[p][k] \in Item /\ queue'[p][k].link \in Link
  <2>1. queue'[p][k] \in Item
    BY <1>1, ElementOfSeq
  <2> QED BY <2>1 DEF Item
<1> SUFFICES ASSUME NEW k \in 1 .. Len(queue'[p]), queue'[p][k].state = "pending-revoke"
             PROVE  link'[queue'[p][k].link] \in Closing
  BY DEF ItemsTrue
<1> SUFFICES link[queue'[p][k].link] \in Closing
  BY <1>2, ClosingKept
<1>3. ItemsTrue(p)
  BY DEF IInv, PInv
<1>4. CASE queue'[p] = queue[p]
  BY <1>3, <1>4 DEF ItemsTrue
<1>5. CASE queue'[p] = <<>>
  <2>1. Len(queue'[p]) = 0
    BY <1>5, EmptySeq
  <2> QED BY <2>1
<1>6. CASE queue[p] # <<>> /\ queue'[p] = Tail(queue[p])
  <2>1. /\ Len(queue[p]) \in Nat \ {0} /\ Len(queue'[p]) = Len(queue[p]) - 1
        /\ queue'[p][k] = queue[p][k + 1]
    BY <1>6, SequenceFacts DEF IInv
  <2>2. k + 1 \in 1 .. Len(queue[p])
    BY <2>1
  <2> QED BY <1>3, <2>1, <2>2 DEF ItemsTrue
<1>7. CASE \A m \in 1 .. Len(queue'[p]) : link[queue'[p][m].link] = queue'[p][m].state
  BY <1>7 DEF Closing
<1> QED BY <1>4, <1>5, <1>6, <1>7 DEF QueueMove

LEMMA CopyKept ==
  ASSUME IInv, Moves, NEW p \in Process, CopyMove(p)
  PROVE  CopyAgrees(p)' /\ 1 <= revision'
<1>1. revision \in Nat /\ 1 <= revision /\ copy[p].rev \in Nat
  BY DEF IInv, TInv, Types, CopyType
<1>2. CopyAgrees(p)
  BY DEF IInv, PInv
<1>3. (revision' = revision /\ ledger' = ledger) \/ revision' = revision + 1
  BY DEF Moves
<1>4. 1 <= revision'
  BY <1>1, <1>3
<1>5. CASE copy'[p] = copy[p]
  BY <1>1, <1>2, <1>3, <1>5 DEF CopyAgrees
<1>6. CASE copy'[p] = NoCopy
  BY <1>1, <1>4, <1>3, <1>6 DEF CopyAgrees, NoCopy
<1>7. CASE copy'[p] = [rev |-> revision, ledger |-> ledger] /\ UNCHANGED <<revision, ledger>>
  BY <1>1, <1>7 DEF CopyAgrees
<1> QED BY <1>4, <1>5, <1>6, <1>7 DEF CopyMove

LEMMA MarkKept ==
  ASSUME IInv, TInv', Moves, NEW p \in Process, MarkMove(p)
  PROVE  MarkLedgered(p)'
<1> SUFFICES ASSUME req'[p].pc = "mark" PROVE Stored(Entry(p).kind, Entry(p).link)'
  BY DEF MarkLedgered
<1>1. queue'[p] = queue[p] /\ queue[p] # <<>>
  BY DEF MarkMove
<1>2. Entry(p)' = Entry(p)
  BY <1>1 DEF Entry
<1>3. req[p].pc \in Working
  BY <1>1 DEF IInv, TInv, Placed
<1>4. Entry(p).kind \in {"created", "revoked"} /\ Entry(p).link \in Link
  BY <1>3, EntryType DEF IInv, LedgerEntry
<1>5. CASE req[p].pc = "mark"
  <2>1. Stored(Entry(p).kind, Entry(p).link)
    BY <1>5 DEF IInv, PInv, MarkLedgered
  <2>2. \A e \in LedgerEntry : Stored(e.kind, e.link) => Stored(e.kind, e.link)'
    BY StoredKept DEF IInv, LedgerEntry
  <2>3. Entry(p) \in LedgerEntry
    BY <1>3, EntryType DEF IInv
  <2>4. ASSUME NEW e \in LedgerEntry, e = Entry(p) PROVE Stored(Entry(p).kind, Entry(p).link)'
    BY <1>2, <2>1, <2>2, <2>4 DEF Stored
  <2> QED BY <2>3, <2>4
<1>6. CASE req[p].pc # "mark"
  BY <1>6 DEF MarkMove
<1> QED BY <1>5, <1>6

LEMMA ClosedKept ==
  ASSUME IInv, TInv', Moves, NEW p \in Process, ClosedMove(p)
  PROVE  ClosedStays(p)'
<1> SUFFICES ASSUME closed[p] PROVE ClosedStays(p)'
  BY DEF ClosedMove, ClosedStays
<1>1. ClosedStays(p)
  BY DEF IInv, PInv
<1>2. req[p].about \in SUBSET Link
  BY DEF IInv, TInv, Types, ReqType
<1> QED BY <1>1, <1>2, ClosingKept DEF ClosedStays, ClosedMove

LEMMA PInvKept ==
  ASSUME IInv, TInv', Moves, NEW p \in Process, PMove(p)
  PROVE  PInv(p)'
BY ItemsKept, CopyKept, MarkKept, ClosedKept DEF PMove, PInv

\* A process that does not move.
LEMMA Elsewhere ==
  ASSUME IInv, NEW p \in Process, req'[p] = req[p], queue'[p] = queue[p],
         copy'[p] = copy[p], closed'[p] = closed[p]
  PROVE  PMove(p)
<1>1. ClosedMove(p)
  BY DEF IInv, PInv, ClosedStays, ClosedMove
<1>2. req[p].pc = "mark" => queue[p] # <<>>
  BY DEF IInv, TInv, Placed, Working
<1> QED BY <1>1, <1>2 DEF PMove, QueueMove, CopyMove, MarkMove

LEMMA AllKept ==
  ASSUME IInv, TInv', Moves, \A p \in Process : PMove(p)
  PROVE  IInv'
<1>1. \A p \in Process : PInv(p)'
  BY PInvKept
<1>2. 1 <= revision'
  <2>1. Sweep \in Process
    BY DEF Process
  <2> QED BY <2>1, CopyKept DEF PMove
<1> QED BY <1>1, <1>2, StatesKept, OnceKept DEF IInv

-----------------------------------------------------------------------------
(* The steps, one by one                                                   *)

\* A request that came to a closed link is about that link alone.
LEMMA ClosedLink ==
  ASSUME IInv, NEW p \in Process, closed[p]
  PROVE  /\ p # Sweep /\ req[p].kind = "public" /\ req[p].pc \notin {"idle", "serve"}
         /\ req[p].answer # "served"
         /\ LinkOf(p) \in Link /\ link[LinkOf(p)] \in Closing
<1>1. ClosedStays(p)
  BY DEF IInv, PInv
<1>2. \E l \in Link : req[p].about = {l}
  BY <1>1 DEF IInv, TInv, Placed, ClosedStays
<1>3. LinkOf(p) \in Link /\ req[p].about = {LinkOf(p)}
  BY <1>2 DEF LinkOf
<1> QED BY <1>1, <1>3 DEF ClosedStays

LEMMA StartMoves ==
  ASSUME IInv, NEW p \in Process, Starts(p)
  PROVE  Moves /\ \A q \in Process : PInv(q)'
<1>1. /\ TInv' /\ UNCHANGED <<link, live, revision, ledger, held, overwritten, queue, copy, writes, faults>>
      /\ req[p].pc = "idle" /\ req'[p].pc \in {"insert", "read", "look"}
      /\ req'[p].answer = "none" /\ \A q \in Process \ {p} : req'[q] = req[q]
      /\ closed' = [closed EXCEPT ![p] =
                      req'[p].kind = "public" /\ \A l \in req'[p].about : link[l] \in Closing]
  BY StartFields DEF IInv
<1>2. Moves
  BY <1>1 DEF Moves, LinkMove
<1>3. ASSUME NEW q \in Process \ {p} PROVE PInv(q)'
  <2>1. closed'[q] = closed[q]
    BY <1>1 DEF IInv, TInv, Types
  <2> QED BY <1>1, <1>2, <2>1, Elsewhere, PInvKept
<1>4. ItemsTrue(p)' /\ CopyAgrees(p)' /\ MarkLedgered(p)'
  <2>1. QueueMove(p) /\ CopyMove(p) /\ MarkMove(p)
    BY <1>1 DEF QueueMove, CopyMove, MarkMove
  <2> QED BY <1>1, <1>2, <2>1, ItemsKept, CopyKept, MarkKept
<1>5. ClosedStays(p)'
  <2>1. closed'[p] <=> req'[p].kind = "public" /\ \A l \in req'[p].about : link[l] \in Closing
    BY <1>1 DEF IInv, TInv, Types
  <2>2. req'[p].kind = "public" => p # Sweep
    BY StartFields DEF IInv
  <2> QED BY <1>1, <2>1, <2>2 DEF ClosedStays
<1> QED BY <1>2, <1>3, <1>4, <1>5 DEF PInv

\* The steps of a request outside a reconciliation.
LEMMA RequestMoves ==
  ASSUME IInv, NEW p \in Process,
         \/ Insert(p) \/ BeginRevocation(p) \/ Report(p) \/ Look(p) \/ Resolve(p)
         \/ Serve(p) \/ End(p)
  PROVE  Moves /\ \A q \in Process : PMove(q)
<1>1. UNCHANGED <<revision, ledger, held, overwritten, queue, copy, closed>>
  BY DEF Insert, BeginRevocation, Report, Look, Resolve, Serve, End, database, project, bounds
<1>2. Moves
  <2>1. ASSUME NEW l \in Link PROVE LinkMove(l)
    <3>1. link \in [Link -> State]
      BY DEF IInv, TInv, Types
    <3>2. CASE Insert(p)
      BY <3>1, <3>2 DEF Insert, LinkMove
    <3>3. CASE BeginRevocation(p)
      BY <3>1, <3>3 DEF BeginRevocation, LinkMove
    <3>4. CASE Report(p) \/ Look(p) \/ Resolve(p) \/ Serve(p) \/ End(p)
      BY <3>4 DEF Report, Look, Resolve, Serve, End, LinkMove, database, project
    <3> QED BY <3>2, <3>3, <3>4
  <2> QED BY <1>1, <2>1 DEF Moves
<1>3. req \in [Process -> ReqType]
  BY DEF IInv, TInv, Types
<1>4. \A q \in Process \ {p} : req'[q] = req[q]
  BY <1>3 DEF Insert, BeginRevocation, Report, Look, Resolve, Serve, End, Goto, Answer
<1>5. req'[p].pc # "mark"
  BY <1>3 DEF Insert, BeginRevocation, Report, Look, Resolve, Serve, End, Goto, Answer, Idle,
      ReqType
<1>6. ASSUME closed[p]
      PROVE  /\ req'[p].kind = req[p].kind /\ req'[p].about = req[p].about
             /\ req'[p].pc \notin {"idle", "serve"} /\ req'[p].answer # "served"
  <2>1. /\ p # Sweep /\ req[p].pc \notin {"idle", "serve"} /\ req[p].answer # "served"
        /\ link[LinkOf(p)] \in Closing
    BY <1>6, ClosedLink
  <2>2. CASE Insert(p) \/ BeginRevocation(p) \/ Report(p)
    BY <1>3, <2>1, <2>2 DEF Insert, BeginRevocation, Report, Goto, Answer, ReqType
  <2>3. CASE Look(p) \/ Resolve(p) \/ Serve(p) \/ End(p)
    BY <1>3, <2>1, <2>3 DEF Look, Resolve, Serve, End, At, Goto, Answer, ReqType, Closing, Pending
  <2> QED BY <2>2, <2>3
<1>7. PMove(p)
  BY <1>1, <1>5, <1>6 DEF PMove, QueueMove, CopyMove, MarkMove, ClosedMove
<1> QED BY <1>1, <1>2, <1>4, <1>7, Elsewhere

Seen == [link : Link, state : State]

\* A reconciliation reads the pending links.
LEMMA ReadMoves ==
  ASSUME IInv, NEW p \in Process, ReadPending(p)
  PROVE  Moves /\ \A q \in Process : PMove(q)
<1>1. /\ req[p].pc = "read" /\ UNCHANGED <<link, live, revision, ledger, held, overwritten, copy, closed>>
  BY DEF ReadPending, At, database, project, bounds
<1>2. Moves
  BY <1>1 DEF Moves, LinkMove
<1> DEFINE found == {l \in req[p].about : link[l] \in Pending}
<1>n. Cardinality(found) \in Nat
  <2>1. found \in SUBSET Link /\ IsFiniteSet(Link)
    BY ShareConstants DEF IInv, TInv, Types, ReqType
  <2> QED BY <2>1, FS_Subset, FS_CardinalityType
<1>3. PICK s \in [1 .. Cardinality(found) -> Link] :
        /\ queue' = [queue EXCEPT ![p] = [k \in DOMAIN s |-> [link |-> s[k], state |-> link[s[k]]]]]
        /\ Goto(p, IF s = <<>> THEN Onward(p) ELSE "load")
  BY DEF ReadPending
<1> DEFINE items == [k \in DOMAIN s |-> [link |-> s[k], state |-> link[s[k]]]]
           pc == IF s = <<>> THEN Onward(p) ELSE "load"
<1>c. pc \in Control \ {"idle", "serve", "mark"}
  <2>1. Onward(p) \in Control \ (Working \cup {"idle", "serve"})
    BY <1>1, OnwardType DEF IInv
  <2> QED BY <2>1 DEF Working, Control
<1> HIDE DEF found, pc
<1>4. queue'[p] = items /\ \A q \in Process \ {p} : queue'[q] = queue[q]
  BY <1>3 DEF IInv, TInv, Types
<1>5. \A k \in 1 .. Len(items) : link[items[k].link] = items[k].state
  <2>1. items \in [1 .. Cardinality(found) -> Seen]
    <3>1. ASSUME NEW k \in 1 .. Cardinality(found)
          PROVE  [link |-> s[k], state |-> link[s[k]]] \in Seen
      BY DEF IInv, TInv, Types, Seen
    <3> QED BY <3>1
  <2>2. DOMAIN items = 1 .. Len(items)
    <3> HIDE DEF items
    <3>1. items \in Seq(Seen)
      BY <1>n, <2>1, SeqDef
    <3> QED BY <3>1, LenProperties
  <2> QED BY <2>2
<1> HIDE DEF items
<1>6. /\ req'[p].kind = req[p].kind /\ req'[p].about = req[p].about /\ req'[p].pc = pc
      /\ req'[p].answer = req[p].answer /\ \A q \in Process \ {p} : req'[q] = req[q]
  <2>1. Goto(p, pc)
    BY <1>3 DEF pc
  <2> QED BY <1>c, <2>1, GotoType DEF IInv
<1>7. closed[p] => req[p].answer # "served"
  BY ClosedLink
<1>8. PMove(p)
  BY <1>1, <1>4, <1>5, <1>6, <1>7, <1>c DEF PMove, QueueMove, CopyMove, MarkMove, ClosedMove
<1> QED BY <1>1, <1>2, <1>4, <1>6, <1>8, Elsewhere

\* A link is left: the queue goes on, or the request.
LEMMA AdvanceMove ==
  ASSUME IInv, NEW p \in Process, req[p].pc \in Working, Advance(p), UNCHANGED closed
  PROVE  /\ \A q \in Process : PMove(q)
         /\ queue[p] # <<>>
<1>1. /\ queue[p] # <<>> /\ queue'[p] = Tail(queue[p]) /\ copy'[p] = NoCopy
      /\ \A q \in Process \ {p} : queue'[q] = queue[q] /\ copy'[q] = copy[q]
      /\ \E pc \in Control \ {"idle", "put", "mark", "serve"} : Reconciles(p, pc)
  BY AdvanceType DEF IInv
<1>2. closed[p] => req[p].answer # "served"
  BY ClosedLink
<1>3. PMove(p)
  BY <1>1, <1>2 DEF PMove, QueueMove, CopyMove, MarkMove, ClosedMove, Reconciles
<1> QED BY <1>1, <1>3, Elsewhere DEF Reconciles

LEMMA LoadMoves ==
  ASSUME IInv, NEW p \in Process, Load(p)
  PROVE  Moves /\ \A q \in Process : PMove(q)
<1>1. req[p].pc = "load" /\ UNCHANGED <<link, live, revision, ledger, held, overwritten, closed>>
  BY DEF Load, At, database, project, bounds
<1>2. Moves
  BY <1>1 DEF Moves, LinkMove
<1>3. CASE Advance(p)
  BY <1>1, <1>2, <1>3, AdvanceMove DEF Working
<1>4. CASE ~Advance(p)
  <2> DEFINE new == [rev |-> revision, ledger |-> ledger]
  <2>1. copy' = [copy EXCEPT ![p] = new] /\ Goto(p, "put") /\ UNCHANGED queue
    BY <1>4 DEF Load
  <2>2. copy'[p] = new /\ \A q \in Process \ {p} : copy'[q] = copy[q]
    BY <2>1 DEF IInv, TInv, Types
  <2>3. /\ req'[p].kind = req[p].kind /\ req'[p].about = req[p].about /\ req'[p].pc = "put"
        /\ req'[p].answer = req[p].answer /\ \A q \in Process \ {p} : req'[q] = req[q]
    BY <2>1, GotoType DEF IInv, Control
  <2>4. closed[p] => req[p].answer # "served"
    BY ClosedLink
  <2>5. PMove(p)
    BY <1>1, <2>1, <2>2, <2>3, <2>4 DEF PMove, QueueMove, CopyMove, MarkMove, ClosedMove
  <2> QED BY <1>1, <1>2, <2>1, <2>2, <2>3, <2>5, Elsewhere
<1> QED BY <1>3, <1>4

\* The record is stored over the one that was read, or not at all.
LEMMA PutMoves ==
  ASSUME IInv, NEW p \in Process, Put(p)
  PROVE  Moves /\ \A q \in Process : PMove(q)
<1>1. /\ req[p].pc = "put" /\ UNCHANGED <<link, live, overwritten, queue, copy, closed, writes, faults>>
  BY DEF Put, At, bounds
<1>2. queue[p] # <<>>
  BY <1>1 DEF IInv, TInv, Placed, Working
<1>3. PICK e \in LedgerEntry : e = Entry(p)
  BY <1>1, EntryType DEF IInv, Working
<1>4. closed[p] => req[p].answer # "served"
  BY ClosedLink
<1>5. PICK pc \in {"load", "mark"} :
        /\ Goto(p, pc)
        /\ pc = "mark" => /\ revision = copy[p].rev /\ revision' = revision + 1
                          /\ ledger' = Execute(p) /\ held' = held \cup {ledger'}
        /\ pc = "load" => UNCHANGED <<revision, ledger, held>>
  BY DEF Put, Store
<1>6. /\ req'[p].kind = req[p].kind /\ req'[p].about = req[p].about /\ req'[p].pc = pc
      /\ req'[p].answer = req[p].answer /\ \A q \in Process \ {p} : req'[q] = req[q]
  BY <1>5, GotoType DEF IInv, Control
<1>7. CASE pc = "load"
  <2>1. Moves
    BY <1>1, <1>5, <1>7 DEF Moves, LinkMove
  <2>2. PMove(p)
    BY <1>1, <1>4, <1>6, <1>7 DEF PMove, QueueMove, CopyMove, MarkMove, ClosedMove
  <2> QED BY <1>1, <1>6, <2>1, <2>2, Elsewhere
<1>8. CASE pc = "mark"
  <2>1. copy[p].ledger = ledger
    BY <1>5, <1>8 DEF IInv, PInv, CopyAgrees
  <2>2. e = [kind |-> e.kind, link |-> e.link] /\ e.kind \in {"created", "revoked"} /\ e.link \in Link
    BY DEF LedgerEntry
  <2>3. ledger' = IF Ledgered(e.kind, e.link) THEN ledger ELSE Append(ledger, e)
    BY <1>3, <1>5, <1>8, <2>1, <2>2 DEF Execute, Ledgered
  <2>4. e.kind = "revoked" => link[e.link] \in Closing
    <3>1. /\ e.link = Head(queue[p]).link
          /\ e.kind = IF Head(queue[p]).state = "pending-create" THEN "created" ELSE "revoked"
      BY <1>1, <1>3, EntryType DEF IInv, Working
    <3>2. /\ Head(queue[p]) \in Item /\ Head(queue[p]) = queue[p][1]
          /\ Len(queue[p]) \in Nat \ {0}
      BY <1>2, SequenceFacts DEF IInv
    <3>3. ASSUME e.kind = "revoked" PROVE queue[p][1].state = "pending-revoke"
      BY <3>1, <3>2, <3>3 DEF Item, Pending
    <3>4. 1 \in 1 .. Len(queue[p]) /\ ItemsTrue(p)
      BY <3>2 DEF IInv, PInv
    <3> QED BY <3>1, <3>2, <3>3, <3>4 DEF ItemsTrue
  <2>5. (ledger' = ledger /\ held' = held) \/ Appends(e)
    BY <1>1, <1>5, <1>8, <2>3, <2>4 DEF Appends, IInv, TInv, Types
  <2>6. Moves
    BY <1>1, <1>5, <1>8, <2>5 DEF Moves, LinkMove
  <2>7. Stored(Entry(p).kind, Entry(p).link)'
    <3>1. Ledgered(e.kind, e.link)'
      BY <1>1, <2>2, <2>3, <2>4, Appended DEF IInv, Appends, Ledgered
    <3>2. Entry(p)' = e /\ ledger' \in held'
      BY <1>1, <1>3, <1>5, <1>8 DEF Entry
    <3> QED BY <3>1, <3>2 DEF Stored, Ledgered
  <2>8. PMove(p)
    <3>1. MarkMove(p)
      <4>1. Entry(p)' = Entry(p)
        BY <1>1 DEF Entry
      <4> QED BY <1>1, <1>2, <2>7, <4>1 DEF MarkMove, Stored
    <3> QED BY <1>1, <1>4, <1>6, <1>8, <3>1 DEF PMove, QueueMove, CopyMove, ClosedMove
  <2> QED BY <1>1, <1>6, <2>6, <2>8, Elsewhere
<1> QED BY <1>7, <1>8

\* A link is marked with the transition that was stored.
LEMMA MarkMoves ==
  ASSUME IInv, NEW p \in Process, Mark(p)
  PROVE  Moves /\ \A q \in Process : PMove(q)
<1>1. req[p].pc = "mark" /\ Advance(p) /\ UNCHANGED <<live, revision, ledger, held, overwritten, closed>>
  BY DEF Mark, At, bounds, project
<1>2. queue[p] # <<>>
  BY <1>1 DEF IInv, TInv, Placed, Working
<1> DEFINE item == Head(queue[p])
<1>3. item \in Item
  BY <1>2, SequenceFacts DEF IInv
<1>4. link' = IF link[item.link] # item.state THEN link
              ELSE [link EXCEPT ![item.link] =
                      IF item.state = "pending-create" THEN "active" ELSE "revoked"]
  BY DEF Mark
<1>5. Stored(IF item.state = "pending-create" THEN "created" ELSE "revoked", item.link)
  <2>1. Stored(Entry(p).kind, Entry(p).link)
    BY <1>1 DEF IInv, PInv, MarkLedgered
  <2> QED BY <2>1 DEF Entry
<1> HIDE DEF item
<1>6. ASSUME NEW l \in Link PROVE LinkMove(l)
  <2>1. link \in [Link -> State] /\ item.link \in Link /\ item.state \in Pending
    BY <1>3 DEF IInv, TInv, Types, Item
  <2>2. CASE link' = link
    BY <2>2 DEF LinkMove
  <2>3. CASE link[item.link] = item.state /\ l # item.link
    BY <1>4, <2>1, <2>3 DEF LinkMove
  <2>4. CASE link[item.link] = item.state /\ l = item.link
    BY <1>4, <1>5, <2>1, <2>4 DEF LinkMove, Pending
  <2> QED BY <1>4, <2>2, <2>3, <2>4
<1>7. Moves
  BY <1>1, <1>6 DEF Moves
<1> QED BY <1>1, <1>7, AdvanceMove DEF Working

LEMMA FailMoves ==
  ASSUME IInv, NEW p \in Process, Fail(p)
  PROVE  Moves /\ \A q \in Process : PMove(q)
<1>1. /\ req[p].pc \in Working /\ UNCHANGED <<link, live, revision, ledger, held, overwritten, closed>>
      /\ Advance(p)
  BY DEF Fail, database, project, Working
<1>2. Moves
  BY <1>1 DEF Moves, LinkMove
<1> QED BY <1>1, <1>2, AdvanceMove

LEMMA DieMoves ==
  ASSUME IInv, NEW p \in Process, Die(p)
  PROVE  Moves /\ \A q \in Process : PMove(q)
<1>1. UNCHANGED <<link, live, revision, ledger, held, overwritten, closed>>
  BY DEF Die, database, project
<1>2. /\ req'[p].pc \in {"idle", "done"}
      /\ p # Sweep => /\ req'[p].kind = req[p].kind /\ req'[p].about = req[p].about
                      /\ req'[p].pc = "done" /\ req'[p].answer = req[p].answer
      /\ queue'[p] = <<>> /\ copy'[p] = NoCopy
      /\ \A q \in Process \ {p} : req'[q] = req[q] /\ queue'[q] = queue[q] /\ copy'[q] = copy[q]
  BY DieFields DEF IInv
<1>3. Moves
  BY <1>1 DEF Moves, LinkMove
<1>4. closed[p] => p # Sweep /\ req[p].answer # "served"
  BY ClosedLink
<1>5. PMove(p)
  BY <1>1, <1>2, <1>4 DEF PMove, QueueMove, CopyMove, MarkMove, ClosedMove
<1> QED BY <1>1, <1>2, <1>3, <1>5, Elsewhere

LEMMA WriteMoves ==
  ASSUME IInv, Write \/ Overwrite
  PROVE  Moves /\ \A q \in Process : PMove(q)
<1>1. /\ revision' = revision + 1 /\ UNCHANGED <<link, held, req, queue, copy, closed>>
      /\ \/ ledger' = ledger /\ overwritten' = overwritten
         \/ ledger' \in held /\ overwritten' = TRUE
  BY DEF Write, Overwrite
<1>2. Moves
  BY <1>1 DEF Moves, LinkMove
<1> QED BY <1>1, <1>2, Elsewhere

LEMMA StutterMoves ==
  ASSUME IInv, UNCHANGED vars
  PROVE  Moves /\ \A q \in Process : PMove(q)
<1>1. UNCHANGED <<revision, link, ledger, held, overwritten, req, queue, copy, closed>>
  BY DEF vars, database, project
<1>2. Moves
  BY <1>1 DEF Moves, LinkMove
<1> QED BY <1>1, <1>2, Elsewhere

LEMMA StepInvariant == IInv /\ [Next]_vars => IInv'
<1> SUFFICES ASSUME IInv, [Next]_vars PROVE IInv'
  OBVIOUS
<1>0. TInv'
  BY StepTyped DEF IInv
<1>1. CASE UNCHANGED vars
  BY <1>0, <1>1, StutterMoves, AllKept
<1>2. CASE Write \/ Overwrite
  BY <1>0, <1>2, WriteMoves, AllKept
<1>3. ASSUME NEW p \in Process, Starts(p) PROVE IInv'
  <2>1. Moves /\ \A q \in Process : PInv(q)'
    BY <1>3, StartMoves
  <2>2. 1 <= revision'
    BY <1>3, StartFields DEF IInv
  <2> QED BY <1>0, <2>1, <2>2, StatesKept, OnceKept DEF IInv
<1>4. ASSUME NEW p \in Process, Step(p) PROVE IInv'
  <2>1. Moves /\ \A q \in Process : PMove(q)
    BY <1>4, RequestMoves, ReadMoves, LoadMoves, PutMoves, MarkMoves DEF Step
  <2> QED BY <1>0, <2>1, AllKept
<1>5. ASSUME NEW p \in Process, Fail(p) \/ Die(p) PROVE IInv'
  BY <1>0, <1>5, FailMoves, DieMoves, AllKept
<1> QED BY <1>1, <1>2, <1>3, <1>4, <1>5, NextCases

-----------------------------------------------------------------------------
(* The beginning                                                           *)

\* The first entries of a ledger.
LEMMA Beginning ==
  ASSUME NEW S, NEW s \in Seq(S), NEW m \in 0 .. Len(s)
  PROVE  /\ SubSeq(s, 1, m) \in Seq(S) /\ DOMAIN SubSeq(s, 1, m) = 1 .. m
         /\ \A k \in 1 .. m : SubSeq(s, 1, m)[k] = s[k]
<1>1. SubSeq(s, 1, m) = [k \in 1 .. m |-> s[k]]
  BY SubSeqRestrict DEF Restrict
<1>2. [k \in 1 .. m |-> s[k]] \in [1 .. m -> S]
  <2>1. \A k \in 1 .. m : k \in 1 .. Len(s)
    BY LenProperties
  <2> QED BY <2>1, ElementOfSeq
<1>3. m \in Nat
  BY LenProperties
<1> QED BY <1>1, <1>2, <1>3, SeqDef

\* The ledger of as many entries as there are links has each link once.
LEMMA InitOnce ==
  ASSUME Init
  PROVE  /\ ledger \in Seq(LedgerEntry) /\ ledger \in held /\ held \in SUBSET Seq(LedgerEntry)
         /\ HeldOnce /\ LedgeredOnce /\ StateIsLedgered
<1>1. PICK old \in SUBSET Link :
        /\ link = [l \in Link |-> IF l \in old THEN "active" ELSE "none"]
        /\ ledger \in [1 .. Cardinality(old) -> [kind : {"created"}, link : old]]
        /\ {ledger[k].link : k \in DOMAIN ledger} = old
  BY DEF Init
<1>2. IsFiniteSet(old) /\ Cardinality(old) \in Nat
  BY ShareConstants, FS_Subset, FS_CardinalityType
<1>3. PICK n \in Nat : n = Cardinality(old)
  BY <1>2
<1>4. ledger \in [1 .. n -> [kind : {"created"}, link : old]] /\ DOMAIN ledger = 1 .. n
  BY <1>1, <1>3
<1>5. \A k \in 1 .. n : /\ ledger[k].kind = "created" /\ ledger[k].link \in old
                        /\ ledger[k] \in LedgerEntry
                        /\ ledger[k] = [kind |-> "created", link |-> ledger[k].link]
  <2> SUFFICES ASSUME NEW k \in 1 .. n
               PROVE  /\ ledger[k].kind = "created" /\ ledger[k].link \in old
                      /\ ledger[k] \in LedgerEntry
                      /\ ledger[k] = [kind |-> "created", link |-> ledger[k].link]
    OBVIOUS
  <2>1. ledger[k] \in [kind : {"created"}, link : old]
    BY <1>4
  <2> QED BY <2>1 DEF LedgerEntry
<1>6. ledger \in Seq(LedgerEntry)
  <2>1. ledger \in [1 .. n -> LedgerEntry]
    BY <1>4, <1>5
  <2> QED BY <2>1, SeqDef
<1> DEFINE f == [k \in 1 .. n |-> ledger[k].link]
<1>7. f \in Surjection(1 .. n, old)
  BY <1>1, <1>4, <1>5 DEF Surjection
<1>8. IsFiniteSet(1 .. n) /\ Cardinality(1 .. n) = Cardinality(old)
  BY <1>3, FS_Interval
<1>9. f \in Injection(1 .. n, old)
  <2> HIDE DEF f
  <2> QED BY <1>7, <1>8, FS_SurjSameCardinalityImpliesInj
<1>10. \A i, j \in 1 .. n : ledger[i].link = ledger[j].link => i = j
  BY <1>9 DEF Injection, IsInjective
<1>11. LedgeredOnce
  BY <1>4, <1>10 DEF LedgeredOnce
\* The ledgers that were stored before are the beginnings of this one.
<1>12. \A h \in held : /\ h \in Seq(LedgerEntry)
                        /\ \E m \in 0 .. n : DOMAIN h = 1 .. m /\ \A k \in 1 .. m : h[k] = ledger[k]
  <2>1. Len(ledger) = n
    BY <1>4, <1>6, LenProperties
  <2>2. ASSUME NEW m \in 0 .. n
        PROVE  /\ SubSeq(ledger, 1, m) \in Seq(LedgerEntry) /\ DOMAIN SubSeq(ledger, 1, m) = 1 .. m
               /\ \A k \in 1 .. m : SubSeq(ledger, 1, m)[k] = ledger[k]
    BY <1>6, <2>1, Beginning
  <2>3. held = {SubSeq(ledger, 1, m) : m \in 0 .. n}
    BY <2>1 DEF Init
  <2> QED BY <2>2, <2>3
<1>13. ledger \in held
  <2>1. Len(ledger) = n
    BY <1>4, <1>6, LenProperties
  <2>2. SubSeq(ledger, 1, n) = ledger
    BY <1>6, <2>1, SubSeqFull
  <2> QED BY <2>1, <2>2 DEF Init
<1>14. HeldOnce
  BY <1>10, <1>12 DEF HeldOnce, NoRepeat
<1>15. StateIsLedgered
  <2> SUFFICES ASSUME NEW l \in Link
               PROVE  /\ link[l] \in {"active", "pending-revoke", "revoked"} => Stored("created", l)
                      /\ link[l] = "revoked" => Stored("revoked", l)
                      /\ Stored("revoked", l) => link[l] \in {"pending-revoke", "revoked"}
                      /\ \A kind \in {"created", "revoked"} : Stored(kind, l) => Ledgered(kind, l)
    BY DEF StateIsLedgered
  <2>1. ~Ledgered("revoked", l)
    BY <1>4, <1>5 DEF Ledgered
  <2>2. l \in old => Ledgered("created", l)
    BY <1>1, <1>4, <1>5 DEF Ledgered
  <2>3. ASSUME NEW kind, Ledgered(kind, l) PROVE Stored(kind, l)
    BY <1>13, <2>3 DEF Stored, Ledgered
  <2>4. ASSUME NEW kind, Stored(kind, l) PROVE Ledgered(kind, l)
    BY <1>4, <1>12, <2>4 DEF Stored, Ledgered
  <2> QED BY <1>1, <2>1, <2>2, <2>3, <2>4
<1> QED BY <1>6, <1>11, <1>12, <1>13, <1>14, <1>15

LEMMA InitInvariant == Init => IInv
<1> SUFFICES ASSUME Init PROVE IInv
  OBVIOUS
<1>1. /\ link \in [Link -> State] /\ live = TRUE /\ revision = 1
      /\ req = [p \in Process |-> Idle] /\ queue = [p \in Process |-> <<>>]
      /\ copy = [p \in Process |-> NoCopy] /\ closed = [p \in Process |-> FALSE]
      /\ overwritten = FALSE /\ writes = 0 /\ faults = 0
  BY DEF Init, State
<1>2. <<>> \in Seq(Item)
  BY EmptySeq
<1>3. Types
  BY <1>1, <1>2, InitOnce, IdleType, NoCopyType DEF Types
<1>4. ASSUME NEW p \in Process PROVE Placed(p) /\ PInv(p)
  <2>1. req[p] = Idle /\ queue[p] = <<>> /\ copy[p] = NoCopy /\ closed[p] = FALSE
    BY <1>1
  <2>2. Len(queue[p]) = 0
    BY <2>1, EmptySeq
  <2>3. Placed(p) /\ MarkLedgered(p) /\ ClosedStays(p)
    BY <2>1 DEF Placed, MarkLedgered, ClosedStays, Idle, Working
  <2>4. ItemsTrue(p) /\ CopyAgrees(p)
    BY <1>1, <2>1, <2>2 DEF ItemsTrue, CopyAgrees, NoCopy
  <2> QED BY <2>3, <2>4 DEF PInv
<1> QED BY <1>1, <1>3, <1>4, InitOnce DEF IInv, TInv

-----------------------------------------------------------------------------
(* Theorems                                                                *)

\* The inductive invariant: the copy a reconciliation works on is the record
\* unless the record moved on, what it read as a revocation still is one, and a
\* link is marked only after a record with its entry was stored.
THEOREM Invariance == Spec => []IInv
BY InitInvariant, StepInvariant, PTL DEF Spec

\* Rows, requests, queues and copies keep their types: a reconciliation at work has
\* a link at hand.
THEOREM SharingTypeCorrect == Spec => []TypeOK
<1>1. ASSUME TInv PROVE TypeOK
  <2>1. ASSUME NEW p \in Process
        PROVE  /\ req[p] \in ReqType /\ queue[p] \in Seq(Item)
               /\ req[p].kind \in {"create", "revoke", "public"} => \E l \in Link : req[p].about = {l}
               /\ req[p].pc \in {"load", "put", "mark"} <=> queue[p] # <<>>
               /\ copy[p].rev \in Nat /\ closed[p] \in BOOLEAN
    BY <1>1 DEF TInv, Types, Placed, Working, CopyType
  <2>2. /\ link \in [Link -> State] /\ live \in BOOLEAN /\ revision \in Nat
        /\ held \subseteq Seq(LedgerEntry) /\ ledger \in held /\ overwritten \in BOOLEAN
        /\ {writes, faults} \subseteq Nat
    BY <1>1 DEF TInv, Types
  <2> QED BY <2>1, <2>2 DEF TypeOK, ReqType, Item, LedgerEntry
<1>2. IInv => TypeOK
  BY <1>1 DEF IInv
<1> QED BY <1>2, Invariance, PTL

\* Reconciliations of one link by several requests never leave a transition in the
\* ledger twice, and the revocation after the creation unless an older snapshot was
\* stored over the record (reconcileShareOperations).
THEOREM Once == Spec => []LedgeredOnce
<1>1. IInv => LedgeredOnce
  BY DEF IInv
<1> QED BY <1>1, Invariance, PTL

\* A link is active or revoked only after the entry that says so was stored, a
\* revocation that was stored is one in the table whatever is stored over it, and
\* no reconciliation loses an entry (markLinkCreated, markLinkRevoked).
THEOREM Follows == Spec => []StateIsLedgered
<1>1. IInv => StateIsLedgered
  BY DEF IInv
<1> QED BY <1>1, Invariance, PTL

\* Nobody who comes after a revocation is served (GET /api/share).
THEOREM Closes == Spec => []RevokedIsClosed
<1>1. IInv => RevokedIsClosed
  BY DEF IInv, PInv, ClosedStays, RevokedIsClosed
<1> QED BY <1>1, Invariance, PTL

-----------------------------------------------------------------------------
(*****************************************************************************)
(* The outbox of e-mails: EmailOutbox, for any number of mails, drains and   *)
(* failing calls. Inv says, beside the types, that no two drains have one    *)
(* token, that a mail is on the list of its lease's drain only, and what a   *)
(* mail that was marked delivered went through.                              *)
(*****************************************************************************)

Phase == {"resting", "release", "select", "claim", "send", "delivered", "failed"}

DrainType == [pc : Phase, token : Token \cup {NoToken}, due : SUBSET Token,
              selected : SUBSET Mail, claimed : Seq(Mail)]

OutboxTypes ==
  /\ outbox \in [Mail -> [there : BOOLEAN, delivered : BOOLEAN, token : Token \cup {NoToken}]]
  /\ drain \in [Drainer -> DrainType]
  /\ over \subseteq Token /\ accepted \subseteq Mail /\ mailFaults \in Nat

\* Where a drain is says what it has.
Shapes ==
  \A d \in Drainer :
    /\ DrainAt(d, "resting") => drain[d] = Resting
    /\ ~DrainAt(d, "resting") => drain[d].token \in Token
    /\ DrainAt(d, "claim") => drain[d].selected # {}
    /\ drain[d].pc \in {"send", "delivered", "failed"} => drain[d].claimed # <<>>

\* No two drains have one token.
TokensApart ==
  \A d, e \in Drainer : d # e /\ drain[d].token # NoToken => drain[d].token # drain[e].token

\* What a drain takes back is over, and stays so.
DueIsOver == \A d \in Drainer : drain[d].due \subseteq over

\* A drain whose time is not over has no mail twice.
ClaimedOnce ==
  \A d \in Drainer : drain[d].token \notin over =>
    \A j, k \in DOMAIN drain[d].claimed :
      j # k => drain[d].claimed[j] # drain[d].claimed[k]

\* A mail that is not there has no lease, and what was selected is there.
Rows ==
  /\ \A m \in Mail : ~outbox[m].there => outbox[m] = Absent
  /\ \A d \in Drainer : \A m \in drain[d].selected : outbox[m].there

\* What a drain is about to mark as delivered was taken.
SentWasTaken == \A d \in Drainer : DrainAt(d, "delivered") => Current(d) \in accepted

Inv == /\ OutboxTypes /\ Shapes /\ TokensApart /\ DueIsOver /\ ClaimedOnce /\ LeaseHolds
       /\ Rows /\ SentWasTaken /\ DeliveredWasTaken

-----------------------------------------------------------------------------
LEMMA RestingFacts ==
  /\ Resting \in DrainType
  /\ Resting.pc = "resting" /\ Resting.token = NoToken /\ Resting.due = {}
  /\ Resting.selected = {} /\ Resting.claimed = <<>>
  /\ NoToken \notin Token
<1>1. NoToken \notin Token
  BY DEF NoToken, Token
<1> QED
  BY <1>1 DEF Resting, DrainType, Phase

\* What a drain goes on with after a claim or a mark.
LEMMA OnwardFacts ==
  ASSUME NEW dr \in DrainType
  PROVE  /\ DrainOnward(dr) \in DrainType
         /\ \/ DrainOnward(dr) = Resting
            \/ /\ DrainOnward(dr).token = dr.token /\ DrainOnward(dr).due = dr.due
               /\ DrainOnward(dr).claimed = dr.claimed
               /\ \/ DrainOnward(dr).pc = "claim" /\ DrainOnward(dr).selected # {}
                  \/ DrainOnward(dr).pc = "send" /\ DrainOnward(dr).claimed # <<>>
<1>1. CASE dr.selected # {}
  BY <1>1 DEF DrainOnward, DrainType, Phase
<1>2. CASE dr.selected = {} /\ dr.claimed # <<>>
  BY <1>2 DEF DrainOnward, DrainType, Phase
<1>3. CASE dr.selected = {} /\ dr.claimed = <<>>
  BY <1>3, RestingFacts DEF DrainOnward
<1> QED
  BY <1>1, <1>2, <1>3

LEMMA OnwardSelected ==
  ASSUME NEW dr \in DrainType
  PROVE  DrainOnward(dr).selected \subseteq dr.selected
<1>1. CASE dr.selected # {}
  BY <1>1 DEF DrainOnward, DrainType
<1>2. CASE dr.selected = {}
  BY <1>2, RestingFacts DEF DrainOnward, DrainType
<1> QED
  BY <1>1, <1>2

LEMMA TailFacts ==
  ASSUME NEW S, NEW s \in Seq(S), s # <<>>
  PROVE  /\ Tail(s) \in Seq(S) /\ 1 \in DOMAIN s /\ Head(s) = s[1]
         /\ \A k \in DOMAIN Tail(s) : k \in Nat /\ k >= 1 /\ k + 1 \in DOMAIN s /\ Tail(s)[k] = s[k + 1]
<1>1. Tail(s) \in Seq(S) /\ Len(Tail(s)) = Len(s) - 1 /\ Len(s) \in Nat \ {0}
  OBVIOUS
<1>2. DOMAIN s = 1 .. Len(s) /\ DOMAIN Tail(s) = 1 .. Len(s) - 1
  BY <1>1
<1>3. \A k \in 1 .. Len(s) - 1 : Tail(s)[k] = s[k + 1]
  BY <1>1
<1> QED
  BY <1>1, <1>2, <1>3

LEMMA InitInv == OutboxInit => Inv
<1> SUFFICES ASSUME OutboxInit PROVE Inv
  OBVIOUS
<1>1. \A d \in Drainer : drain[d] = Resting
  BY DEF OutboxInit
<1>2. OutboxTypes
  BY RestingFacts DEF OutboxInit, OutboxTypes, Absent
<1>3. Shapes
  BY <1>1, RestingFacts DEF Shapes, DrainAt
<1>4. TokensApart /\ DueIsOver
  BY <1>1, RestingFacts DEF TokensApart, DueIsOver
<1>5. \A d \in Drainer : DOMAIN drain[d].claimed = {}
  BY <1>1, RestingFacts
<1>6. ClaimedOnce /\ LeaseHolds
  BY <1>5 DEF ClaimedOnce, LeaseHolds
<1>7. SentWasTaken /\ DeliveredWasTaken
  BY <1>1, RestingFacts DEF SentWasTaken, DeliveredWasTaken, DrainAt, OutboxInit,
      Absent
<1>8. Rows
  BY <1>1, RestingFacts DEF Rows, OutboxInit
<1> QED
  BY <1>2, <1>3, <1>4, <1>6, <1>7, <1>8 DEF Inv

\* A drain that keeps or gives up its token, and takes nothing more back, leaves
\* the tokens apart.
LEMMA TokensKept ==
  ASSUME Inv, NEW d \in Drainer, NEW dr \in DrainType,
         drain' = [drain EXCEPT ![d] = dr],
         dr.token \in {drain[d].token, NoToken}, dr.due \in {drain[d].due, {}},
         over \subseteq over'
  PROVE  TokensApart' /\ DueIsOver'
<1>1. drain \in [Drainer -> DrainType]
  BY DEF Inv, OutboxTypes
<1>2. drain'[d] = dr /\ \A e \in Drainer \ {d} : drain'[e] = drain[e]
  BY <1>1
<1>3. TokensApart'
  BY <1>2 DEF Inv, TokensApart
<1>4. DueIsOver'
  BY <1>2 DEF Inv, DueIsOver
<1> QED
  BY <1>3, <1>4

\* The other drains do not notice what one does with its own record, as long as
\* it leaves their mails alone.
LEMMA OthersKeep ==
  ASSUME Inv, NEW d \in Drainer, NEW dr \in DrainType,
         drain' = [drain EXCEPT ![d] = dr], over' = over, accepted \subseteq accepted',
         \A m \in Mail : outbox'[m] # outbox[m] => outbox[m].there /\ outbox'[m].there,
         dr.selected \subseteq drain[d].selected \cup {m \in Mail : outbox[m].there},
         \A e \in Drainer \ {d} : \A k \in DOMAIN drain[e].claimed :
           drain[e].token \notin over =>
             outbox'[drain[e].claimed[k]] = outbox[drain[e].claimed[k]],
         \* and the same for the drain itself
         dr.token \notin over =>
           /\ \A j, k \in DOMAIN dr.claimed : j # k => dr.claimed[j] # dr.claimed[k]
           /\ \A k \in DOMAIN dr.claimed : ~outbox'[dr.claimed[k]].delivered
                                         /\ outbox'[dr.claimed[k]].token = dr.token,
         dr.pc = "delivered" => Head(dr.claimed) \in accepted',
         dr.pc = "resting" => dr = Resting,
         dr.pc # "resting" => dr.token \in Token,
         dr.pc = "claim" => dr.selected # {},
         dr.pc \in {"send", "delivered", "failed"} => dr.claimed # <<>>
  PROVE  Shapes' /\ ClaimedOnce' /\ LeaseHolds' /\ SentWasTaken' /\ Rows'
<1>1. drain \in [Drainer -> DrainType]
  BY DEF Inv, OutboxTypes
<1>2. drain'[d] = dr /\ \A e \in Drainer \ {d} : drain'[e] = drain[e]
  BY <1>1
<1>3. Shapes'
  BY <1>2 DEF Inv, Shapes, DrainAt
<1>4. ClaimedOnce'
  <2> SUFFICES ASSUME NEW e \in Drainer, drain'[e].token \notin over,
                      NEW j \in DOMAIN drain'[e].claimed, NEW k \in DOMAIN drain'[e].claimed, j # k
               PROVE  drain'[e].claimed[j] # drain'[e].claimed[k]
    BY DEF ClaimedOnce
  <2>1. CASE e = d
    BY <2>1, <1>2
  <2>2. CASE e # d
    BY <2>2, <1>2 DEF Inv, ClaimedOnce
  <2> QED
    BY <2>1, <2>2
<1>5. LeaseHolds'
  <2> SUFFICES ASSUME NEW e \in Drainer, drain'[e].token \notin over, NEW k \in DOMAIN drain'[e].claimed
               PROVE  /\ ~outbox'[drain'[e].claimed[k]].delivered
                      /\ outbox'[drain'[e].claimed[k]].token = drain'[e].token
    BY DEF LeaseHolds
  <2>1. CASE e = d
    BY <2>1, <1>2
  <2>2. CASE e # d
    BY <2>2, <1>2 DEF Inv, LeaseHolds
  <2> QED
    BY <2>1, <2>2
<1>6. SentWasTaken'
  <2> SUFFICES ASSUME NEW e \in Drainer, drain'[e].pc = "delivered"
               PROVE  Head(drain'[e].claimed) \in accepted'
    BY DEF SentWasTaken, DrainAt, Current
  <2>1. CASE e = d
    BY <2>1, <1>2
  <2>2. CASE e # d
    BY <2>2, <1>2 DEF Inv, SentWasTaken, DrainAt, Current
  <2> QED
    BY <2>1, <2>2
<1>7. \A m \in Mail : ~outbox'[m].there => outbox'[m] = Absent
  BY DEF Inv, Rows
<1>8. ASSUME NEW e \in Drainer, NEW m \in drain'[e].selected
      PROVE  outbox'[m].there
  <2>1. m \in Mail
    BY <1>1, <1>2, <1>8 DEF DrainType
  <2>2. outbox[m].there
    BY <1>2, <1>8 DEF Inv, Rows
  <2> QED
    BY <2>1, <2>2
<1> QED
  BY <1>3, <1>4, <1>5, <1>6, <1>7, <1>8 DEF Rows

\* What Inv says of the drain that moves.
LEMMA OwnFacts ==
  ASSUME Inv, NEW d \in Drainer
  PROVE  /\ drain[d] \in DrainType
         /\ drain[d].token \notin over =>
              /\ \A j, k \in DOMAIN drain[d].claimed :
                   j # k => drain[d].claimed[j] # drain[d].claimed[k]
              /\ \A k \in DOMAIN drain[d].claimed :
                   /\ ~outbox[drain[d].claimed[k]].delivered
                   /\ outbox[drain[d].claimed[k]].token = drain[d].token
         /\ ~DrainAt(d, "resting") => drain[d].token \in Token
         /\ drain[d].pc \in {"send", "delivered", "failed"} => drain[d].claimed # <<>>
         /\ DrainAt(d, "claim") => drain[d].selected # {}
         /\ DrainAt(d, "delivered") => Current(d) \in accepted
BY DEF Inv, OutboxTypes, ClaimedOnce, LeaseHolds, Shapes, SentWasTaken

\* A drain that has a mail has a token.
LEMMA WorksWithToken ==
  ASSUME Inv, NEW e \in Drainer, NEW k \in DOMAIN drain[e].claimed
  PROVE  drain[e].token \in Token
<1>1. CASE DrainAt(e, "resting")
  BY <1>1, RestingFacts DEF Inv, Shapes
<1>2. CASE ~DrainAt(e, "resting")
  BY <1>2, OwnFacts
<1> QED
  BY <1>1, <1>2

\* The mail at hand.
LEMMA CurrentFacts ==
  ASSUME Inv, NEW d \in Drainer, drain[d].claimed # <<>>
  PROVE  Current(d) \in Mail /\ Current(d) = drain[d].claimed[1]
<1>1. drain[d].claimed \in Seq(Mail)
  BY OwnFacts DEF DrainType
<1> QED
  BY <1>1, TailFacts DEF Current

LEMMA AddInv ==
  ASSUME Inv, NEW m \in Mail, Add(m)
  PROVE  Inv'
<1>1. outbox' = [outbox EXCEPT ![m] = Fresh] /\ ~outbox[m].there
      /\ UNCHANGED <<drain, over, accepted, mailFaults>>
  BY DEF Add
<1>2. OutboxTypes'
  BY <1>1 DEF Inv, OutboxTypes, Fresh
<1>3. Shapes' /\ TokensApart' /\ DueIsOver' /\ ClaimedOnce' /\ SentWasTaken'
  BY <1>1 DEF Inv, Shapes, TokensApart, DueIsOver, ClaimedOnce, SentWasTaken, DrainAt,
      Current
<1>4. DeliveredWasTaken'
  BY <1>1 DEF Inv, OutboxTypes, DeliveredWasTaken, Fresh
<1>5. LeaseHolds'
  <2> SUFFICES ASSUME NEW e \in Drainer, drain[e].token \notin over, NEW k \in DOMAIN drain[e].claimed
               PROVE  /\ ~outbox'[drain[e].claimed[k]].delivered
                      /\ outbox'[drain[e].claimed[k]].token = drain[e].token
    BY <1>1 DEF LeaseHolds
  <2>1. outbox[drain[e].claimed[k]].token = drain[e].token
    BY OwnFacts
  <2>2. drain[e].token \in Token
    BY WorksWithToken
  <2>3. outbox[m].token = NoToken
    BY <1>1 DEF Inv, Rows, Absent
  <2>4. drain[e].claimed[k] # m
    BY <2>1, <2>2, <2>3, RestingFacts
  <2> QED
    BY <1>1, <2>4 DEF Inv, OutboxTypes, LeaseHolds
<1>6. Rows'
  BY <1>1 DEF Inv, OutboxTypes, Rows, Fresh
<1> QED
  BY <1>2, <1>3, <1>4, <1>5, <1>6 DEF Inv

LEMMA BeginInv ==
  ASSUME Inv, NEW d \in Drainer, BeginDrain(d)
  PROVE  Inv'
<1> DEFINE dr == [Resting EXCEPT !.pc = "release", !.token = NewToken, !.due = over \cap Held]
<1>1. /\ DrainAt(d, "resting") /\ drain' = [drain EXCEPT ![d] = dr]
      /\ over' = over \ {NewToken}
      /\ UNCHANGED <<outbox, accepted, mailFaults>>
  BY DEF BeginDrain
<1>2. NewToken \in Unused
  BY DEF BeginDrain, NewToken
<1>3. /\ NewToken \in Token /\ NewToken \notin Held
      /\ \A e \in Drainer : NewToken # drain[e].token /\ NewToken \notin drain[e].due
  BY <1>2 DEF Unused
<1>4. over \subseteq Token
  BY DEF Inv, OutboxTypes
<1>5. dr \in DrainType /\ dr.pc = "release" /\ dr.token = NewToken /\ dr.due = over \cap Held
      /\ dr.selected = {} /\ dr.claimed = <<>>
  BY <1>3, <1>4, RestingFacts DEF Resting, DrainType, Phase
<1> HIDE DEF dr
<1>6. drain \in [Drainer -> DrainType]
  BY DEF Inv, OutboxTypes
<1>7. drain'[d] = dr /\ \A e \in Drainer \ {d} : drain'[e] = drain[e]
  BY <1>1, <1>6
<1>8. OutboxTypes'
  BY <1>1, <1>4, <1>5, <1>6 DEF Inv, OutboxTypes
<1>9. Shapes'
  BY <1>3, <1>5, <1>7 DEF Inv, Shapes, DrainAt
<1>10. TokensApart'
  BY <1>3, <1>5, <1>7 DEF Inv, TokensApart
<1>11. DueIsOver'
  <2> SUFFICES ASSUME NEW e \in Drainer PROVE drain'[e].due \subseteq over'
    BY DEF DueIsOver
  <2>1. CASE e = d
    BY <2>1, <1>1, <1>3, <1>5, <1>7
  <2>2. CASE e # d
    BY <2>2, <1>1, <1>3, <1>7 DEF Inv, DueIsOver
  <2> QED
    BY <2>1, <2>2
<1>12. ASSUME NEW e \in Drainer
       PROVE  \/ drain'[e].claimed = <<>>
              \/ /\ drain'[e] = drain[e]
                 /\ drain[e].token \notin over' => drain[e].token \notin over
  BY <1>1, <1>3, <1>5, <1>7
<1>13. ClaimedOnce'
  BY <1>12 DEF Inv, ClaimedOnce
<1>14. LeaseHolds'
  BY <1>1, <1>12 DEF Inv, LeaseHolds
<1>15. Rows'
  BY <1>1, <1>5, <1>7 DEF Inv, Rows
<1>16. SentWasTaken' /\ DeliveredWasTaken'
  BY <1>1, <1>5, <1>7 DEF Inv, SentWasTaken, DeliveredWasTaken, DrainAt, Current
<1> QED
  BY <1>8, <1>9, <1>10, <1>11, <1>13, <1>14, <1>15, <1>16 DEF Inv

\* A drain that ends, and leaves its leases behind.
LEMMA RestInv ==
  ASSUME Inv, NEW d \in Drainer, drain' = [drain EXCEPT ![d] = Resting],
         UNCHANGED <<outbox, over, accepted>>, mailFaults' \in Nat
  PROVE  Inv'
<1>1. drain \in [Drainer -> DrainType]
  BY DEF Inv, OutboxTypes
<1>2. OutboxTypes'
  BY <1>1, RestingFacts DEF Inv, OutboxTypes
<1>3. TokensApart' /\ DueIsOver'
  BY RestingFacts, TokensKept
<1>4. Shapes' /\ ClaimedOnce' /\ LeaseHolds' /\ SentWasTaken' /\ Rows'
  <2>1. over' = over /\ accepted \subseteq accepted' /\ outbox' = outbox
    OBVIOUS
  <2>2. DOMAIN Resting.claimed = {}
    BY RestingFacts
  <2> QED
    BY <2>1, <2>2, RestingFacts, OthersKeep
<1>5. DeliveredWasTaken'
  BY DEF Inv, DeliveredWasTaken
<1> QED
  BY <1>2, <1>3, <1>4, <1>5 DEF Inv

\* The same for a drain whose mails stay what they were, while every row whose
\* lease counts is left alone.
LEMMA SameMails ==
  ASSUME Inv, NEW d \in Drainer, NEW dr \in DrainType, ~DrainAt(d, "resting"),
         drain' = [drain EXCEPT ![d] = dr], over' = over, accepted \subseteq accepted',
         dr.token = drain[d].token, dr.claimed = drain[d].claimed,
         dr.pc # "resting",
         dr.selected \subseteq drain[d].selected \cup {m \in Mail : outbox[m].there},
         \A m \in Mail : outbox'[m] # outbox[m] =>
           outbox[m].there /\ outbox'[m].there /\ outbox[m].token \in over,
         dr.pc = "delivered" => Head(dr.claimed) \in accepted',
         dr.pc = "claim" => dr.selected # {},
         dr.pc \in {"send", "delivered", "failed"} => dr.claimed # <<>>
  PROVE  Shapes' /\ ClaimedOnce' /\ LeaseHolds' /\ SentWasTaken' /\ Rows'
<1>1. drain \in [Drainer -> DrainType]
  BY DEF Inv, OutboxTypes
<1>2. ASSUME NEW e \in Drainer, NEW k \in DOMAIN drain[e].claimed, drain[e].token \notin over
      PROVE  outbox'[drain[e].claimed[k]] = outbox[drain[e].claimed[k]]
  <2>1. outbox[drain[e].claimed[k]].token = drain[e].token /\ drain[e].claimed[k] \in Mail
    BY <1>1, <1>2, OwnFacts DEF DrainType
  <2> QED
    BY <2>1, <1>2
<1>3. \A e \in Drainer \ {d} : \A k \in DOMAIN drain[e].claimed :
        drain[e].token \notin over => outbox'[drain[e].claimed[k]] = outbox[drain[e].claimed[k]]
  BY <1>2
<1>4. dr.token \notin over =>
        /\ \A j, k \in DOMAIN dr.claimed : j # k => dr.claimed[j] # dr.claimed[k]
        /\ \A k \in DOMAIN dr.claimed : ~outbox'[dr.claimed[k]].delivered
                                      /\ outbox'[dr.claimed[k]].token = dr.token
  BY <1>2, OwnFacts
<1>5. dr.token \in Token
  BY OwnFacts
<1>6. \A m \in Mail : outbox'[m] # outbox[m] => outbox[m].there /\ outbox'[m].there
  OBVIOUS
<1>7. dr.pc = "resting" => dr = Resting
  OBVIOUS
<1> QED
  BY <1>3, <1>4, <1>5, <1>6, <1>7, OthersKeep

LEMMA ReleaseInv ==
  ASSUME Inv, NEW d \in Drainer, Release(d)
  PROVE  Inv'
<1> DEFINE dr == [drain[d] EXCEPT !.pc = "select", !.due = {}]
<1>1. drain \in [Drainer -> DrainType]
  BY DEF Inv, OutboxTypes
<1>2. /\ DrainAt(d, "release") /\ drain' = [drain EXCEPT ![d] = dr]
      /\ UNCHANGED <<over, accepted, mailFaults>>
  BY <1>1 DEF Release, DrainType
<1>3. /\ dr \in DrainType /\ dr.pc = "select" /\ dr.token = drain[d].token /\ dr.due = {}
      /\ dr.selected = drain[d].selected /\ dr.claimed = drain[d].claimed
  BY <1>1 DEF DrainType, Phase
<1> HIDE DEF dr
<1>4. \A m \in Mail : outbox'[m] = IF ~outbox[m].delivered /\ outbox[m].token \in drain[d].due
                                  THEN [outbox[m] EXCEPT !.token = NoToken] ELSE outbox[m]
  BY DEF Release
<1>5. OutboxTypes'
  <2>1. outbox' \in [Mail -> [there : BOOLEAN, delivered : BOOLEAN, token : Token \cup {NoToken}]]
    <3> DEFINE Row == [there : BOOLEAN, delivered : BOOLEAN, token : Token \cup {NoToken}]
               row(m) == IF ~outbox[m].delivered /\ outbox[m].token \in drain[d].due
                         THEN [outbox[m] EXCEPT !.token = NoToken] ELSE outbox[m]
    <3>1. outbox \in [Mail -> Row]
      BY DEF Inv, OutboxTypes
    <3>2. \A m \in Mail : row(m) \in Row
      BY <3>1
    <3>3. outbox' = [m \in Mail |-> row(m)]
      BY DEF Release
    <3> HIDE DEF row, Row
    <3>4. outbox' \in [Mail -> Row]
      BY <3>2, <3>3
    <3> QED
      BY <3>4 DEF Row
  <2>2. drain' \in [Drainer -> DrainType]
    BY <1>1, <1>2, <1>3
  <2> QED
    BY <1>2, <2>1, <2>2 DEF Inv, OutboxTypes
<1>6. ASSUME NEW m \in Mail, outbox'[m] # outbox[m]
      PROVE  outbox[m].there /\ outbox'[m].there /\ outbox[m].token \in over
  <2>1. outbox[m].token \in over /\ outbox[m].token \in Token
    BY <1>4, <1>6 DEF Inv, OutboxTypes, DueIsOver
  <2>2. outbox[m] # Absent
    BY <2>1, RestingFacts DEF Absent
  <2>3. outbox[m].there
    BY <2>2 DEF Inv, Rows
  <2>4. outbox'[m].there = outbox[m].there
    BY <1>4 DEF Inv, OutboxTypes
  <2> QED
    BY <2>1, <2>3, <2>4
<1>7. TokensApart' /\ DueIsOver'
  BY <1>2, <1>3, TokensKept
<1>8. ~DrainAt(d, "resting")
  BY <1>2 DEF DrainAt
<1>9. over' = over /\ accepted \subseteq accepted'
  BY <1>2
<1>10. Shapes' /\ ClaimedOnce' /\ LeaseHolds' /\ SentWasTaken' /\ Rows'
  BY <1>2, <1>3, <1>6, <1>8, <1>9, SameMails
<1>11. DeliveredWasTaken'
  BY <1>2, <1>4 DEF Inv, OutboxTypes, DeliveredWasTaken
<1> QED
  BY <1>5, <1>7, <1>10, <1>11 DEF Inv

LEMMA SelectInv ==
  ASSUME Inv, NEW d \in Drainer, Select(d)
  PROVE  Inv'
<1> DEFINE rows == Oldest(Claimable(d))
           dr   == [drain[d] EXCEPT !.pc = "claim", !.selected = rows]
<1>1. drain \in [Drainer -> DrainType] /\ drain[d] \in DrainType
  BY DEF Inv, OutboxTypes
<1>2. UNCHANGED <<outbox, over, accepted, mailFaults>> /\ DrainAt(d, "select")
  BY DEF Select
<1>3. rows \subseteq {m \in Mail : outbox[m].there}
  BY OutboxConstants DEF Oldest, Claimable
<1>4. CASE rows = {}
  <2>1. drain' = [drain EXCEPT ![d] = Resting]
    BY <1>4 DEF Select
  <2>2. mailFaults' \in Nat
    BY <1>2 DEF Inv, OutboxTypes
  <2> QED
    BY <1>2, <2>1, <2>2, RestInv
<1>5. CASE rows # {}
  <2>1. drain' = [drain EXCEPT ![d] = dr]
    BY <1>1, <1>5 DEF Select, DrainType
  <2>2. /\ dr \in DrainType /\ dr.pc = "claim" /\ dr.token = drain[d].token /\ dr.due = drain[d].due
        /\ dr.selected = rows /\ dr.claimed = drain[d].claimed
    BY <1>1, <1>3 DEF DrainType, Phase
  <2> HIDE DEF dr, rows
  <2>3. OutboxTypes'
    BY <1>1, <1>2, <2>1, <2>2 DEF Inv, OutboxTypes
  <2>4. TokensApart' /\ DueIsOver'
    BY <1>2, <2>1, <2>2, TokensKept
  <2>5. Shapes' /\ ClaimedOnce' /\ LeaseHolds' /\ SentWasTaken' /\ Rows'
    <3>1. ~DrainAt(d, "resting")
      BY <1>2 DEF DrainAt
    <3>2. over' = over /\ accepted \subseteq accepted'
      BY <1>2
    <3>3. \A m \in Mail : outbox'[m] = outbox[m]
      BY <1>2
    <3> QED
      BY <1>3, <1>5, <2>1, <2>2, <3>1, <3>2, <3>3, SameMails
  <2>6. DeliveredWasTaken'
    BY <1>2 DEF Inv, DeliveredWasTaken
  <2> QED
    BY <2>3, <2>4, <2>5, <2>6 DEF Inv
<1> QED
  BY <1>4, <1>5

LEMMA ClaimInv ==
  ASSUME Inv, NEW d \in Drainer, Claim(d)
  PROVE  Inv'
<1>1. drain \in [Drainer -> DrainType] /\ drain[d] \in DrainType
  BY DEF Inv, OutboxTypes
<1>2. PICK m \in drain[d].selected :
        LET rest == [drain[d] EXCEPT !.selected = @ \ {m}]
        IN  /\ DrainAt(d, "claim")
            /\ IF Free(m)
               THEN /\ outbox' = [outbox EXCEPT ![m].token = drain[d].token]
                    /\ drain' = [drain EXCEPT ![d] = DrainOnward([rest EXCEPT !.claimed = Append(@, m)])]
               ELSE /\ drain' = [drain EXCEPT ![d] = DrainOnward(rest)]
                    /\ UNCHANGED outbox
            /\ UNCHANGED <<over, accepted, mailFaults>>
  BY DEF Claim
<1> DEFINE rest == [drain[d] EXCEPT !.selected = @ \ {m}]
           more == [rest EXCEPT !.claimed = Append(@, m)]
<1>3. m \in Mail /\ outbox[m].there
  BY <1>1 DEF Inv, Rows, DrainType
<1>4. /\ rest \in DrainType /\ rest.token = drain[d].token /\ rest.due = drain[d].due
      /\ rest.claimed = drain[d].claimed /\ rest.selected \subseteq drain[d].selected
  BY <1>1 DEF DrainType
<1>5. /\ more \in DrainType /\ more.token = drain[d].token /\ more.due = drain[d].due
      /\ more.claimed = Append(drain[d].claimed, m) /\ more.selected \subseteq drain[d].selected
  <2>1. Append(drain[d].claimed, m) \in Seq(Mail)
    BY <1>1, <1>3 DEF DrainType
  <2>2. more = [rest EXCEPT !.claimed = Append(drain[d].claimed, m)]
    BY <1>4
  <2> HIDE DEF rest
  <2> QED
    BY <1>4, <2>1, <2>2 DEF DrainType
<1>6. /\ DrainAt(d, "claim") /\ UNCHANGED <<over, accepted, mailFaults>>
      /\ Free(m) => /\ outbox' = [outbox EXCEPT ![m].token = drain[d].token]
                    /\ drain' = [drain EXCEPT ![d] = DrainOnward(more)]
      /\ ~Free(m) => drain' = [drain EXCEPT ![d] = DrainOnward(rest)] /\ outbox' = outbox
  BY <1>2
<1> HIDE DEF rest, more
<1>7. ~DrainAt(d, "resting") /\ drain[d].token \in Token
  BY <1>6, OwnFacts DEF DrainAt
<1>8. CASE ~Free(m)
  <2>1. \/ DrainOnward(rest) = Resting
        \/ /\ DrainOnward(rest).token = drain[d].token /\ DrainOnward(rest).due = drain[d].due
           /\ DrainOnward(rest).claimed = drain[d].claimed
           /\ \/ DrainOnward(rest).pc = "claim" /\ DrainOnward(rest).selected # {}
              \/ DrainOnward(rest).pc = "send" /\ DrainOnward(rest).claimed # <<>>
    BY <1>4, OnwardFacts
  <2>2. DrainOnward(rest) \in DrainType /\ DrainOnward(rest).selected \subseteq drain[d].selected
    BY <1>4, OnwardFacts, OnwardSelected
  <2>3. CASE DrainOnward(rest) = Resting
    <3>1. mailFaults' \in Nat
      BY <1>6 DEF Inv, OutboxTypes
    <3> QED
      BY <2>3, <3>1, <1>6, <1>8, RestInv
  <2>4. CASE DrainOnward(rest) # Resting
    <3> DEFINE dr == DrainOnward(rest)
    <3>1. /\ dr \in DrainType /\ dr.token = drain[d].token /\ dr.due = drain[d].due
          /\ dr.claimed = drain[d].claimed /\ dr.pc \in {"claim", "send"}
          /\ (dr.pc = "claim" => dr.selected # {}) /\ (dr.pc = "send" => dr.claimed # <<>>)
          /\ dr.selected \subseteq drain[d].selected
      BY <2>1, <2>2, <2>4
    <3> HIDE DEF dr
    <3>2. /\ drain' = [drain EXCEPT ![d] = dr] /\ outbox' = outbox
          /\ over' = over /\ accepted' = accepted /\ mailFaults' = mailFaults
      BY <1>6, <1>8 DEF dr
    <3>3. OutboxTypes'
      BY <1>1, <3>1, <3>2 DEF Inv, OutboxTypes
    <3>4. TokensApart' /\ DueIsOver'
      BY <3>1, <3>2, TokensKept
    <3>5. Shapes' /\ ClaimedOnce' /\ LeaseHolds' /\ SentWasTaken' /\ Rows'
      BY <3>1, <3>2, <1>7, SameMails
    <3>6. DeliveredWasTaken'
      BY <3>2 DEF Inv, DeliveredWasTaken
    <3> QED
      BY <3>3, <3>4, <3>5, <3>6 DEF Inv
  <2> QED
    BY <2>3, <2>4
<1>9. CASE Free(m)
  <2> DEFINE dr == DrainOnward(more)
  <2>1. /\ dr \in DrainType
        /\ \/ dr = Resting
           \/ /\ dr.token = drain[d].token /\ dr.due = drain[d].due
              /\ dr.claimed = Append(drain[d].claimed, m)
              /\ \/ dr.pc = "claim" /\ dr.selected # {}
                 \/ dr.pc = "send" /\ dr.claimed # <<>>
        /\ dr.selected \subseteq drain[d].selected
    BY <1>5, OnwardFacts, OnwardSelected
  <2>2. /\ drain' = [drain EXCEPT ![d] = dr]
        /\ over' = over /\ accepted' = accepted /\ mailFaults' = mailFaults
        /\ outbox' = [outbox EXCEPT ![m].token = drain[d].token]
    BY <1>6, <1>9
  <2> HIDE DEF dr
  <2>3. ~outbox[m].delivered /\ outbox[m].token = NoToken
    BY <1>9 DEF Free
  <2>4. OutboxTypes'
    BY <1>1, <1>3, <1>7, <2>1, <2>2 DEF Inv, OutboxTypes
  <2>5. TokensApart' /\ DueIsOver'
    BY <2>1, <2>2, RestingFacts, TokensKept
  <2>6. \A n \in Mail : outbox'[n] # outbox[n] => n = m
    BY <2>2 DEF Inv, OutboxTypes
  <2>7. outbox'[m].there /\ ~outbox'[m].delivered /\ outbox'[m].token = drain[d].token
    BY <1>3, <2>2, <2>3 DEF Inv, OutboxTypes
  <2>8. ASSUME NEW e \in Drainer, NEW k \in DOMAIN drain[e].claimed, drain[e].token \notin over
        PROVE  /\ drain[e].claimed[k] # m /\ drain[e].claimed[k] \in Mail
               /\ outbox'[drain[e].claimed[k]] = outbox[drain[e].claimed[k]]
    <3>1. outbox[drain[e].claimed[k]].token = drain[e].token
      BY <2>8, OwnFacts
    <3>2. drain[e].token \in Token
      BY <2>8, WorksWithToken
    <3>3. drain[e].claimed[k] \in Mail
      BY <1>1, <2>8 DEF DrainType
    <3> QED
      BY <3>1, <3>2, <3>3, <2>3, <2>6, RestingFacts
  <2>9. \A n \in Mail : outbox'[n] # outbox[n] => outbox[n].there /\ outbox'[n].there
    BY <2>6, <2>7, <1>3
  <2>10. dr.token \notin over =>
          /\ \A j, k \in DOMAIN dr.claimed : j # k => dr.claimed[j] # dr.claimed[k]
          /\ \A k \in DOMAIN dr.claimed : ~outbox'[dr.claimed[k]].delivered
                                        /\ outbox'[dr.claimed[k]].token = dr.token
    <3>1. CASE dr = Resting
      BY <3>1, RestingFacts
    <3>2. CASE dr # Resting
      <4> SUFFICES ASSUME drain[d].token \notin over
                   PROVE  /\ \A j, k \in DOMAIN dr.claimed : j # k => dr.claimed[j] # dr.claimed[k]
                          /\ \A k \in DOMAIN dr.claimed : ~outbox'[dr.claimed[k]].delivered
                                                        /\ outbox'[dr.claimed[k]].token = drain[d].token
        BY <3>2, <2>1
      <4>1. drain[d].claimed \in Seq(Mail) /\ dr.claimed = Append(drain[d].claimed, m)
        BY <1>1, <2>1, <3>2 DEF DrainType
      <4>2. \A k \in DOMAIN dr.claimed :
              \/ k \in DOMAIN drain[d].claimed /\ dr.claimed[k] = drain[d].claimed[k]
              \/ k = Len(drain[d].claimed) + 1 /\ dr.claimed[k] = m
        BY <4>1, <1>3
      <4>3. \A k \in DOMAIN drain[d].claimed :
              /\ drain[d].claimed[k] # m
              /\ ~outbox'[drain[d].claimed[k]].delivered
              /\ outbox'[drain[d].claimed[k]].token = drain[d].token
        BY <2>8, OwnFacts
      <4>4. \A j, k \in DOMAIN drain[d].claimed : j # k => drain[d].claimed[j] # drain[d].claimed[k]
        BY OwnFacts
      <4> QED
        BY <4>2, <4>3, <4>4, <2>7
    <3> QED
      BY <3>1, <3>2
  <2>11. /\ dr.pc = "delivered" => Head(dr.claimed) \in accepted'
         /\ dr.pc = "resting" => dr = Resting
         /\ dr.pc # "resting" => dr.token \in Token
         /\ dr.pc = "claim" => dr.selected # {}
         /\ dr.pc \in {"send", "delivered", "failed"} => dr.claimed # <<>>
    BY <2>1, <1>7, RestingFacts
  <2>12. \A e \in Drainer \ {d} : \A k \in DOMAIN drain[e].claimed :
           drain[e].token \notin over =>
             outbox'[drain[e].claimed[k]] = outbox[drain[e].claimed[k]]
    BY <2>8
  <2>13. Shapes' /\ ClaimedOnce' /\ LeaseHolds' /\ SentWasTaken' /\ Rows'
    BY <2>1, <2>2, <2>9, <2>10, <2>11, <2>12, OthersKeep
  <2>14. DeliveredWasTaken'
    BY <2>2, <2>6, <2>7 DEF Inv, DeliveredWasTaken
  <2> QED
    BY <2>4, <2>5, <2>13, <2>14 DEF Inv
<1> QED
  BY <1>8, <1>9

\* A mark: the row of the mail at hand becomes row if the drain still has it, and
\* the drain goes on.
LEMMA MarkInv ==
  ASSUME Inv, NEW d \in Drainer, drain[d].pc \in {"delivered", "failed"},
         drain' = [drain EXCEPT ![d] = NextMail(d)], over' = over, accepted' = accepted, mailFaults' = mailFaults,
         NEW row \in [there : {TRUE}, delivered : BOOLEAN, token : Token \cup {NoToken}],
         row.delivered => Current(d) \in accepted,
         outbox' = IF Owns(d) THEN [outbox EXCEPT ![Current(d)] = row] ELSE outbox
  PROVE  Inv'
<1> DEFINE less == [drain[d] EXCEPT !.claimed = Tail(@)]
           dr   == NextMail(d)
<1>1. drain \in [Drainer -> DrainType] /\ drain[d] \in DrainType
  BY DEF Inv, OutboxTypes
<1>2. drain[d].token \in Token /\ drain[d].claimed # <<>> /\ drain[d].claimed \in Seq(Mail)
  BY <1>1, OwnFacts DEF DrainAt, DrainType
<1>3. Current(d) \in Mail /\ Current(d) = drain[d].claimed[1]
  BY <1>2 DEF Current
<1>4. Tail(drain[d].claimed) \in Seq(Mail)
  BY <1>2
<1>5. /\ less \in DrainType /\ less.token = drain[d].token /\ less.due = drain[d].due
      /\ less.claimed = Tail(drain[d].claimed) /\ less.selected = drain[d].selected
  BY <1>1, <1>4 DEF DrainType
<1>6. dr = DrainOnward(less)
  BY DEF NextMail
<1> HIDE DEF less, dr
<1>7. /\ dr \in DrainType
      /\ \/ dr = Resting
         \/ /\ dr.token = drain[d].token /\ dr.due = drain[d].due
            /\ dr.claimed = Tail(drain[d].claimed)
            /\ \/ dr.pc = "claim" /\ dr.selected # {}
               \/ dr.pc = "send" /\ dr.claimed # <<>>
      /\ dr.selected \subseteq drain[d].selected
  BY <1>5, <1>6, OnwardFacts, OnwardSelected
<1>8. drain' = [drain EXCEPT ![d] = dr]
  BY DEF dr
<1>9. OutboxTypes'
  BY <1>1, <1>3, <1>7, <1>8 DEF Inv, OutboxTypes
<1>10. TokensApart' /\ DueIsOver'
  <2>1. dr.token \in {drain[d].token, NoToken} /\ dr.due \in {drain[d].due, {}}
    BY <1>7, RestingFacts
  <2> QED
    BY <1>7, <1>8, <2>1, TokensKept
<1>11. \A n \in Mail : outbox'[n] # outbox[n] => n = Current(d) /\ Owns(d) /\ outbox'[n] = row
  BY <1>3 DEF Inv, OutboxTypes
<1>12. \A n \in Mail : outbox'[n] # outbox[n] => outbox[n].there /\ outbox'[n].there
  <2> SUFFICES ASSUME NEW n \in Mail, outbox'[n] # outbox[n]
               PROVE  outbox[n].there /\ outbox'[n].there
    OBVIOUS
  <2>1. outbox[n].token \in Token
    BY <1>2, <1>11 DEF Owns
  <2>2. outbox[n].there
    BY <2>1, RestingFacts DEF Inv, Rows, Absent
  <2> QED
    BY <1>11, <2>2
<1>13. ASSUME NEW e \in Drainer \ {d}, NEW k \in DOMAIN drain[e].claimed, drain[e].token \notin over
       PROVE  outbox'[drain[e].claimed[k]] = outbox[drain[e].claimed[k]]
  <2>1. drain[e].claimed[k] \in Mail
    BY <1>1, <1>13 DEF DrainType
  <2>2. outbox[drain[e].claimed[k]].token = drain[e].token
    BY <1>13, OwnFacts
  <2>3. drain[d].token # drain[e].token
    BY <1>2, <1>13, RestingFacts DEF Inv, TokensApart
  <2> QED
    BY <2>1, <2>2, <2>3, <1>11 DEF Owns
<1>14. dr.token \notin over =>
        /\ \A j, k \in DOMAIN dr.claimed : j # k => dr.claimed[j] # dr.claimed[k]
        /\ \A k \in DOMAIN dr.claimed : ~outbox'[dr.claimed[k]].delivered
                                      /\ outbox'[dr.claimed[k]].token = dr.token
  <2>1. CASE dr = Resting
    BY <2>1, RestingFacts
  <2>2. CASE dr # Resting
    <3> SUFFICES ASSUME drain[d].token \notin over
                 PROVE  /\ \A j, k \in DOMAIN dr.claimed : j # k => dr.claimed[j] # dr.claimed[k]
                        /\ \A k \in DOMAIN dr.claimed : ~outbox'[dr.claimed[k]].delivered
                                                      /\ outbox'[dr.claimed[k]].token = drain[d].token
      BY <2>2, <1>7
    <3>1. \A k \in DOMAIN dr.claimed : /\ k \in Nat /\ k >= 1 /\ k + 1 \in DOMAIN drain[d].claimed
                                       /\ dr.claimed[k] = drain[d].claimed[k + 1]
      <4>1. dr.claimed = Tail(drain[d].claimed)
        BY <1>7, <2>2
      <4>2. \A k \in DOMAIN Tail(drain[d].claimed) :
              /\ k \in Nat /\ k >= 1 /\ k + 1 \in DOMAIN drain[d].claimed
              /\ Tail(drain[d].claimed)[k] = drain[d].claimed[k + 1]
        BY <1>2, TailFacts
      <4> QED
        BY <4>1, <4>2
    <3>2. \A j, k \in DOMAIN drain[d].claimed : j # k => drain[d].claimed[j] # drain[d].claimed[k]
      BY OwnFacts
    <3>3. 1 \in DOMAIN drain[d].claimed
      BY <1>2
    <3>4. \A k \in DOMAIN dr.claimed : dr.claimed[k] # Current(d) /\ dr.claimed[k] \in Mail
      BY <3>1, <3>2, <3>3, <1>2, <1>3
    <3>5. \A k \in DOMAIN dr.claimed : outbox'[dr.claimed[k]] = outbox[dr.claimed[k]]
      BY <3>4, <1>11
    <3>6. \A k \in DOMAIN dr.claimed : ~outbox[dr.claimed[k]].delivered
                                     /\ outbox[dr.claimed[k]].token = drain[d].token
      BY <3>1, OwnFacts
    <3>7. \A j, k \in DOMAIN dr.claimed : j # k => dr.claimed[j] # dr.claimed[k]
      BY <3>1, <3>2
    <3> QED
      BY <3>5, <3>6, <3>7
  <2> QED
    BY <2>1, <2>2
<1>15. /\ dr.pc = "delivered" => Head(dr.claimed) \in accepted'
       /\ dr.pc = "resting" => dr = Resting
       /\ dr.pc # "resting" => dr.token \in Token
       /\ dr.pc = "claim" => dr.selected # {}
       /\ dr.pc \in {"send", "delivered", "failed"} => dr.claimed # <<>>
  BY <1>2, <1>7, RestingFacts
<1>16. \A e \in Drainer \ {d} : \A k \in DOMAIN drain[e].claimed :
         drain[e].token \notin over =>
           outbox'[drain[e].claimed[k]] = outbox[drain[e].claimed[k]]
  BY <1>13
<1>17. Shapes' /\ ClaimedOnce' /\ LeaseHolds' /\ SentWasTaken' /\ Rows'
  BY <1>7, <1>8, <1>12, <1>14, <1>15, <1>16, OthersKeep
<1>18. DeliveredWasTaken'
  BY <1>11 DEF Inv, DeliveredWasTaken
<1> QED
  BY <1>9, <1>10, <1>17, <1>18 DEF Inv

\* A mark that comes too late.
LEMMA UnmarkedInv ==
  ASSUME Inv, NEW d \in Drainer, drain[d].pc \in {"delivered", "failed"}, ~Owns(d),
         drain' = [drain EXCEPT ![d] = NextMail(d)],
         over' = over, accepted' = accepted, mailFaults' = mailFaults, outbox' = outbox
  PROVE  Inv'
<1>1. Fresh \in [there : {TRUE}, delivered : BOOLEAN, token : Token \cup {NoToken}] /\ ~Fresh.delivered
  BY DEF Fresh
<1>2. outbox' = IF Owns(d) THEN [outbox EXCEPT ![Current(d)] = Fresh] ELSE outbox
  OBVIOUS
<1> QED
  BY <1>1, <1>2, MarkInv

\* A row a drain may mark is there.
LEMMA OwnedFacts ==
  ASSUME Inv, NEW d \in Drainer, drain[d].pc \in {"delivered", "failed"}, Owns(d)
  PROVE  outbox[Current(d)] \in [there : {TRUE}, delivered : {FALSE}, token : Token \cup {NoToken}]
<1>1. drain[d].token \in Token /\ drain[d].claimed # <<>>
  BY OwnFacts DEF DrainAt
<1>2. Current(d) \in Mail
  BY <1>1, CurrentFacts
<1>3. outbox[Current(d)] # Absent
  BY <1>1, RestingFacts DEF Owns, Absent
<1>4. outbox[Current(d)].there
  BY <1>2, <1>3 DEF Inv, Rows
<1>5. outbox[Current(d)] \in [there : BOOLEAN, delivered : BOOLEAN, token : Token \cup {NoToken}]
  BY <1>2 DEF Inv, OutboxTypes
<1> QED
  BY <1>4, <1>5 DEF Owns

LEMMA MarkDeliveredInv ==
  ASSUME Inv, NEW d \in Drainer, MarkDelivered(d)
  PROVE  Inv'
<1> DEFINE row == [outbox[Current(d)] EXCEPT !.delivered = TRUE, !.token = NoToken]
<1>1. /\ DrainAt(d, "delivered") /\ drain' = [drain EXCEPT ![d] = NextMail(d)]
      /\ over' = over /\ accepted' = accepted /\ mailFaults' = mailFaults
      /\ outbox' = IF Owns(d) THEN [outbox EXCEPT ![Current(d)] = row] ELSE outbox
  BY CurrentFacts DEF MarkDelivered, Inv, OutboxTypes
<1>2. Current(d) \in accepted
  BY <1>1, OwnFacts
<1>3. CASE Owns(d)
  <2>1. row \in [there : {TRUE}, delivered : BOOLEAN, token : Token \cup {NoToken}]
    BY <1>1, <1>3, OwnedFacts DEF DrainAt
  <2> HIDE DEF row
  <2>2. drain[d].pc \in {"delivered", "failed"}
    BY <1>1 DEF DrainAt
  <2> QED
    BY <1>1, <1>2, <2>1, <2>2, MarkInv
<1>4. CASE ~Owns(d)
  BY <1>1, <1>4, UnmarkedInv DEF DrainAt
<1> QED
  BY <1>3, <1>4

LEMMA MarkFailedInv ==
  ASSUME Inv, NEW d \in Drainer, MarkFailed(d)
  PROVE  Inv'
<1> DEFINE row == [outbox[Current(d)] EXCEPT !.token = NoToken]
<1>1. /\ DrainAt(d, "failed") /\ drain' = [drain EXCEPT ![d] = NextMail(d)]
      /\ over' = over /\ accepted' = accepted /\ mailFaults' = mailFaults
      /\ outbox' = IF Owns(d) THEN [outbox EXCEPT ![Current(d)] = row] ELSE outbox
  BY CurrentFacts DEF MarkFailed, Inv, OutboxTypes
<1>2. CASE Owns(d)
  <2>1. row \in [there : {TRUE}, delivered : BOOLEAN, token : Token \cup {NoToken}] /\ ~row.delivered
    BY <1>1, <1>2, OwnedFacts DEF DrainAt
  <2> HIDE DEF row
  <2>2. drain[d].pc \in {"delivered", "failed"}
    BY <1>1 DEF DrainAt
  <2> QED
    BY <1>1, <2>1, <2>2, MarkInv
<1>3. CASE ~Owns(d)
  BY <1>1, <1>3, UnmarkedInv DEF DrainAt
<1> QED
  BY <1>2, <1>3

\* The calls of the provider, and a mark that throws: the drain moves on with the
\* same mails, and the provider has what it had or the mail at hand too.
LEMMA SentInv ==
  ASSUME Inv, NEW d \in Drainer, drain[d].pc \in {"send", "delivered"},
         NEW pc \in {"delivered", "failed"}, drain' = [drain EXCEPT ![d].pc = pc],
         UNCHANGED <<outbox, over>>, mailFaults' \in Nat,
         accepted' \in {accepted, accepted \cup {Current(d)}},
         pc = "delivered" => Current(d) \in accepted'
  PROVE  Inv'
<1> DEFINE dr == [drain[d] EXCEPT !.pc = pc]
<1>1. drain \in [Drainer -> DrainType] /\ drain[d] \in DrainType
  BY DEF Inv, OutboxTypes
<1>2. /\ drain' = [drain EXCEPT ![d] = dr]
      /\ dr \in DrainType /\ dr.pc = pc /\ dr.token = drain[d].token /\ dr.due = drain[d].due
      /\ dr.selected = drain[d].selected /\ dr.claimed = drain[d].claimed
  BY <1>1 DEF DrainType, Phase
<1>3. dr.claimed # <<>> /\ ~DrainAt(d, "resting")
  BY <1>2, OwnFacts DEF DrainAt
<1> HIDE DEF dr
<1>4. Current(d) \in Mail
  BY <1>2, <1>3, CurrentFacts
<1>5. OutboxTypes'
  BY <1>1, <1>2, <1>4 DEF Inv, OutboxTypes
<1>6. TokensApart' /\ DueIsOver'
  BY <1>2, TokensKept
<1>7. Shapes' /\ ClaimedOnce' /\ LeaseHolds' /\ SentWasTaken' /\ Rows'
  <2>1. over' = over /\ accepted \subseteq accepted' /\ outbox' = outbox
    OBVIOUS
  <2>2. dr.pc = "delivered" => Head(dr.claimed) \in accepted'
    BY <1>2 DEF Current
  <2> QED
    BY <1>2, <1>3, <2>1, <2>2, SameMails
<1>8. DeliveredWasTaken'
  BY DEF Inv, DeliveredWasTaken
<1> QED
  BY <1>5, <1>6, <1>7, <1>8 DEF Inv

LEMMA ExpireInv ==
  ASSUME Inv, NEW t \in Token, Expire(t)
  PROVE  Inv'
<1>1. over' = over \cup {t} /\ UNCHANGED <<outbox, drain, accepted>>
  BY DEF Expire
<1>2. mailFaults' \in Nat
  BY DEF Expire, Inv, OutboxTypes
<1>3. OutboxTypes'
  BY <1>1, <1>2 DEF Inv, OutboxTypes
<1>4. Shapes' /\ TokensApart' /\ SentWasTaken' /\ DeliveredWasTaken' /\ Rows'
  BY <1>1 DEF Inv, Shapes, TokensApart, SentWasTaken, DeliveredWasTaken, Rows, DrainAt,
      Current
<1>5. DueIsOver'
  BY <1>1 DEF Inv, DueIsOver
<1>6. ClaimedOnce' /\ LeaseHolds'
  BY <1>1 DEF Inv, ClaimedOnce, LeaseHolds
<1> QED
  BY <1>3, <1>4, <1>5, <1>6 DEF Inv

LEMMA NextInv == Inv /\ [OutboxNext]_outboxVars => Inv'
<1> SUFFICES ASSUME Inv, [OutboxNext]_outboxVars PROVE Inv'
  OBVIOUS
<1>1. ASSUME NEW m \in Mail, Add(m) PROVE Inv'
  BY <1>1, AddInv
<1>2. ASSUME NEW d \in Drainer, BeginDrain(d) PROVE Inv'
  BY <1>2, BeginInv
<1>3. ASSUME NEW d \in Drainer, Work(d) PROVE Inv'
  <2>1. ASSUME Send(d) PROVE Inv'
    <3>1. /\ drain[d].pc = "send" /\ UNCHANGED <<outbox, over>> /\ mailFaults' = mailFaults
          /\ \/ drain' = [drain EXCEPT ![d].pc = "failed"] /\ accepted' = accepted
             \/ drain' = [drain EXCEPT ![d].pc = "delivered"] /\ accepted' = accepted \cup {Current(d)}
      BY <2>1 DEF Send, DrainAt
    <3>2. mailFaults' \in Nat
      BY <3>1 DEF Inv, OutboxTypes
    <3> QED
      BY <3>1, <3>2, SentInv
  <2> QED
    BY <1>3, <2>1, ReleaseInv, SelectInv, ClaimInv, MarkDeliveredInv,
        MarkFailedInv DEF Work
<1>4. ASSUME NEW d \in Drainer, SendFails(d) PROVE Inv'
  <2>1. /\ drain[d].pc = "send" /\ UNCHANGED <<outbox, over>> /\ mailFaults' = mailFaults + 1
        /\ drain' = [drain EXCEPT ![d].pc = "failed"]
        /\ accepted' \in {accepted, accepted \cup {Current(d)}}
    <3>1. {Current(d)} \ Refused = {} \/ {Current(d)} \ Refused = {Current(d)}
      OBVIOUS
    <3> QED
      BY <1>4, <3>1 DEF SendFails, DrainAt
  <2>2. mailFaults' \in Nat
    BY <2>1 DEF Inv, OutboxTypes
  <2> QED
    BY <2>1, <2>2, SentInv
<1>5. ASSUME NEW d \in Drainer, MarkThrows(d) PROVE Inv'
  <2>1. /\ drain[d].pc = "delivered" /\ UNCHANGED <<outbox, over>> /\ mailFaults' = mailFaults + 1
        /\ drain' = [drain EXCEPT ![d].pc = "failed"] /\ accepted' = accepted
    BY <1>5 DEF MarkThrows, DrainAt
  <2>2. mailFaults' \in Nat
    BY <2>1 DEF Inv, OutboxTypes
  <2> QED
    BY <2>1, <2>2, SentInv
<1>6. ASSUME NEW d \in Drainer, GiveUp(d) PROVE Inv'
  <2>1. mailFaults' \in Nat
    BY <1>6 DEF GiveUp, Inv, OutboxTypes
  <2> QED
    BY <1>6, <2>1, RestInv DEF GiveUp
<1>7. ASSUME NEW t \in Token, Expire(t) PROVE Inv'
  BY <1>7, ExpireInv
<1>8. CASE UNCHANGED outboxVars
  BY <1>8 DEF outboxVars, Inv, OutboxTypes, Shapes, TokensApart, DueIsOver, ClaimedOnce,
      LeaseHolds, Rows,
              SentWasTaken, DeliveredWasTaken, DrainAt, Current
<1> QED
  BY <1>1, <1>2, <1>3, <1>4, <1>5, <1>6, <1>7, <1>8 DEF OutboxNext

\* Inv holds in every state.
THEOREM Inductive == OutboxSpec => []Inv
  BY InitInv, NextInv, PTL DEF OutboxSpec

\* The rows and the drains have their types: a drain about to claim or to send
\* has a mail to claim or to send.
THEOREM OutboxTypeCorrect == OutboxSpec => []OutboxTypeOK
<1>1. Inv => OutboxTypeOK
  BY DEF Inv, OutboxTypes, Shapes, OutboxTypeOK, DrainType, Phase, DrainAt
<1> QED
  BY <1>1, Inductive, PTL

\* A drain whose time is not over has its mails for itself, however many drains
\* there are and wherever they end (claimEmailBatch, markEmailDelivered,
\* markEmailFailed).
THEOREM LeasesExclude == OutboxSpec => []LeaseHolds
<1>1. Inv => LeaseHolds
  BY DEF Inv
<1> QED
  BY <1>1, Inductive, PTL

\* delivered_at is set only for a mail the provider took (markEmailDelivered).
THEOREM DeliveredTaken == OutboxSpec => []DeliveredWasTaken
<1>1. Inv => DeliveredWasTaken
  BY DEF Inv
<1> QED
  BY <1>1, Inductive, PTL
=============================================================================
