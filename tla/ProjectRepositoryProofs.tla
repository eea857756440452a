----------------------- MODULE ProjectRepositoryProofs -----------------------
(***************************************************************************)
(* Proofs about ProjectRepository, for any set of requests and any number  *)
(* of deletions, recoveries and purges, and, in the second half, about     *)
(* CollaborationStream, for any PUTs, saves, events, pages, cuts and       *)
(* purges.                                                                 *)
(*                                                                         *)
(* The invariant IInv of ProjectRepository says, beside the types and the  *)
(* two properties themselves, which versions exist (Lineage), that the     *)
(* token in the row is the token of a request that was stored              *)
(* (TokenIsCommitted), and what a request's program counter says about it  *)
(* being stored (Phases).                                                  *)
(*                                                                         *)
(* CollaborationStream has two: GapInv, that an event up to one that was   *)
(* read has been told or is on its way, and ResetInv, that before a purge  *)
(* all that was read is in the log.                                        *)
(***************************************************************************)
EXTENDS ProjectRepository, CollaborationStream, KeepTheorems, TLAPS

\* No version is ahead of the row's, in this Project or a later one.
Lineage ==
  \A c \in commits : c.gen <= row.gen /\ (c.gen = row.gen => c.rev <= row.revision)

TokenIsCommitted == Exists => row.token \in Request /\ Committed(row.token) # {}

\* A request is stored by its batch and by nothing else.
Phases ==
  \A q \in Request :
    /\ request[q].pc \in {"idle", "select", "batch", "exists"} => Committed(q) = {}
    /\ request[q].pc \in {"get", "announce", "saved"} => Committed(q) # {}

IInv ==
  /\ TypeOK
  /\ NoLostUpdate
  /\ Lineage
  /\ TokenIsCommitted
  /\ Phases
  /\ StateIsWinners

-----------------------------------------------------------------------------
\* What a handler's step that only moves its program counter preserves: any
\* step that leaves the tables alone and does not skip the batch.
LEMMA HandlerStep ==
  ASSUME IInv, NEW q \in Request, TypeOK',
         UNCHANGED <<row, state, commits>>,
         \A p \in Request \ {q} : request'[p] = request[p],
         \/ request'[q].pc \in {"failed", "stale", "receipt"}
         \/ /\ request[q].pc \in {"idle", "select", "batch", "exists"}
            /\ request'[q].pc \in {"select", "batch", "exists"}
         \/ /\ request'[q].pc \in {"get", "announce", "saved"}
            /\ Committed(q) # {}
  PROVE  IInv'
<1>1. \A p : Committed(p)' = Committed(p)
  BY DEF Committed
<1>2. Phases'
  <2> SUFFICES ASSUME NEW p \in Request
               PROVE  /\ request'[p].pc \in {"idle", "select", "batch", "exists"}
                            => Committed(p)' = {}
                      /\ request'[p].pc \in {"get", "announce", "saved"}
                            => Committed(p)' # {}
    BY DEF Phases
  <2>1. CASE p = q
    BY <1>1, <2>1 DEF IInv, Phases
  <2>2. CASE p # q
    BY <1>1, <2>2 DEF IInv, Phases
  <2> QED BY <2>1, <2>2
<1>3. NoLostUpdate' /\ Lineage' /\ StateIsWinners'
  BY DEF IInv, NoLostUpdate, Lineage, StateIsWinners, Exists
<1>4. TokenIsCommitted'
  BY <1>1 DEF IInv, TokenIsCommitted, Exists
<1> QED BY <1>2, <1>3, <1>4 DEF IInv

\* Moving a program counter and adding a version are well typed.
LEMMA GotoType ==
  ASSUME TypeOK, NEW q \in Request, NEW pc \in Phase, Goto(q, pc)
  PROVE  request' \in [Request -> RequestState]
<1>1. [request[q] EXCEPT !.pc = pc] \in RequestState
  BY DEF TypeOK, RequestState
<1> QED BY <1>1 DEF TypeOK, Goto

\* A version added to commits is a version.
LEMMA CommitType ==
  ASSUME TypeOK, NEW by \in Request \cup {Lifecycle}, NEW basis \in Record, Commit(by, basis)
  PROVE  commits' \in SUBSET CommitRecord
BY DEF TypeOK, Commit, CommitRecord, Row

\* The rows the statements and the lifecycle operations write are rows.
LEMMA NextRowType ==
  ASSUME TypeOK, NEW t \in Request \cup {NoRequest}, NEW l \in {"live", "deleted"}
  PROVE  /\ [row EXCEPT !.revision = @ + 1, !.token = t, !.life = l] \in Row
         /\ [row EXCEPT !.revision = @ + 1, !.life = l] \in Row
<1>1. row \in Row /\ row.revision + 1 \in Nat
  BY DEF TypeOK, Row
<1> QED BY <1>1 DEF Row

\* Every action leaves the variables in their types.
LEMMA TypePreserved == TypeOK /\ [Next]_vars => TypeOK'
<1> SUFFICES ASSUME TypeOK, [Next]_vars PROVE TypeOK'
  OBVIOUS
<1> USE RepositoryConstants
<1>p. {"idle", "exists", "select", "stale", "batch", "get", "failed", "receipt", "announce", "saved"}
        \subseteq Phase
  BY DEF Phase, Working, Outcome
<1>s. Served \subseteq Record
  BY DEF Served, TypeOK, CommitRecord, Record
<1>1. ASSUME NEW q \in Request, ArriveCreate(q) PROVE TypeOK'
  <2>1. PICK pc \in Phase : request' = [request EXCEPT ![q] = [Idle EXCEPT !.kind = "create", !.pc = pc]]
    BY <1>1, <1>p DEF ArriveCreate
  <2>2. [Idle EXCEPT !.kind = "create", !.pc = pc] \in RequestState
    BY DEF Idle, RequestState, Record, Absent
  <2> QED BY <1>1, <2>1, <2>2 DEF ArriveCreate, TypeOK
<1>2. ASSUME NEW q \in Request, NEW basis \in Served, ArriveUpdate(q, basis) PROVE TypeOK'
  <2>1. PICK pc \in Phase : request' = [request EXCEPT ![q] = [Idle EXCEPT !.basis = basis, !.pc = pc]]
    BY <1>2, <1>p DEF ArriveUpdate
  <2>2. [Idle EXCEPT !.basis = basis, !.pc = pc] \in RequestState
    BY <1>s DEF Idle, RequestState, Record, Absent
  <2> QED BY <1>2, <2>1, <2>2 DEF ArriveUpdate, TypeOK
<1>3. ASSUME NEW q \in Request, Select(q) PROVE TypeOK'
  <2>1. PICK pc \in Phase : Goto(q, pc)
    BY <1>3, <1>p DEF Select
  <2> QED BY <1>3, <2>1, GotoType DEF Select, TypeOK
<1>4. ASSUME NEW q \in Request, Insert(q) PROVE TypeOK'
  <2>1. PICK pc \in Phase : Goto(q, pc)
    BY <1>4, <1>p DEF Insert
  <2>2. CASE Exists
    BY <1>4, <2>1, <2>2, GotoType DEF Insert, TypeOK
  <2>3. CASE ~Exists
    <3>1. /\ row' = [row EXCEPT !.revision = 1, !.token = q, !.life = "live"]
          /\ state' = q
          /\ UNCHANGED <<events, lifecycle>>
          /\ Commit(q, [gen |-> row.gen, rev |-> 0])
      BY <1>4, <2>3 DEF Insert
    <3>2. [gen |-> row.gen, rev |-> 0] \in Record /\ row' \in Row
      BY <3>1 DEF TypeOK, Row, Record
    <3> QED BY <2>1, <3>1, <3>2, GotoType, CommitType DEF TypeOK
  <2> QED BY <2>2, <2>3
<1>5. ASSUME NEW q \in Request, Update(q) PROVE TypeOK'
  <2>1. row' \in Row
    BY <1>5, NextRowType DEF Update, UpdatedRow, TypeOK
  <2>2. state' \in Request \cup {NoRequest}
    BY <1>5 DEF Update, UpdatedState, TypeOK
  <2>3. request[q].basis \in Record
    BY DEF TypeOK, RequestState
  <2>4. commits' \in SUBSET CommitRecord
    BY <1>5, <2>3, CommitType DEF Update, TypeOK
  <2>5. Goto(q, "receipt") /\ UNCHANGED <<events, lifecycle>>
    BY <1>5 DEF Update
  <2> QED BY <1>p, <2>1, <2>2, <2>4, <2>5, GotoType DEF TypeOK
<1>6. ASSUME NEW q \in Request, Receipt(q) PROVE TypeOK'
  <2>1. PICK pc \in Phase : Goto(q, pc)
    BY <1>6, <1>p DEF Receipt
  <2> QED BY <1>6, <2>1, GotoType DEF Receipt, TypeOK
<1>7. ASSUME NEW q \in Request, Get(q) PROVE TypeOK'
  <2>1. PICK pc \in Phase, r \in Record : request' = [request EXCEPT ![q].pc = pc, ![q].saved = r]
    <3>1. Current \in Record /\ request[q].saved \in Record
      BY DEF TypeOK, Row, Record, Current, RequestState
    <3> QED BY <1>7, <1>p, <3>1 DEF Get
  <2>2. [request[q] EXCEPT !.pc = pc, !.saved = r] \in RequestState
    BY DEF TypeOK, RequestState
  <2>3. request' \in [Request -> RequestState]
    BY <2>1, <2>2 DEF TypeOK
  <2> QED BY <1>7, <2>3 DEF Get, TypeOK
<1>8. ASSUME NEW q \in Request, Announce(q) PROVE TypeOK'
  <2>1. request[q].saved \in Record
    BY DEF TypeOK, RequestState
  <2> QED BY <1>8, <1>p, <2>1, GotoType DEF Announce, TypeOK
<1>9. ASSUME NEW q \in Request, Fail(q) PROVE TypeOK'
  BY <1>9, <1>p, GotoType DEF Fail, TypeOK
<1>10. ASSUME NEW basis \in Served, Delete(basis) PROVE TypeOK'
  <2>1. row' \in Row
    BY <1>10, NextRowType DEF Delete, TypeOK
  <2> QED BY <1>10, <1>s, <2>1, CommitType DEF Delete, LifecycleStep, TypeOK
<1>11. ASSUME Recover PROVE TypeOK'
  <2>1. row' \in Row
    BY <1>11, NextRowType DEF Recover, TypeOK
  <2>2. Current \in Record
    BY DEF TypeOK, Row, Current, Record
  <2> QED BY <1>11, <2>1, <2>2, CommitType DEF Recover, LifecycleStep, TypeOK
<1>12. ASSUME Purge PROVE TypeOK'
  BY <1>12 DEF Purge, LifecycleStep, TypeOK, Row
<1>13. CASE UNCHANGED vars
  BY <1>13 DEF vars, TypeOK
<1> QED
  BY <1>1, <1>2, <1>3, <1>4, <1>5, <1>6, <1>7, <1>8, <1>9, <1>10, <1>11, <1>12, <1>13
     DEF Next, PutNext, LifecycleNext
-----------------------------------------------------------------------------
\* A version added on top of the row's is the only one of its number.
LEMMA NewVersion ==
  ASSUME IInv, NEW by \in Request \cup {Lifecycle}, NEW basis \in Record,
         basis.rev = row.revision, Commit(by, basis),
         row'.gen = row.gen, row'.revision = row.revision + 1
  PROVE  NoLostUpdate' /\ Lineage'
<1> DEFINE new == [gen |-> row.gen, rev |-> row.revision + 1, by |-> by, basis |-> basis]
<1>1. commits' = commits \cup {new}
  BY DEF Commit
<1>2. row.gen \in Nat /\ row.revision \in Nat
  BY DEF IInv, TypeOK, Row
<1>3. \A c \in commits : c.gen \in Nat /\ c.rev \in Nat
  BY DEF IInv, TypeOK, CommitRecord
<1>4. new.gen = row.gen /\ new.rev = row.revision + 1 /\ new.basis.rev = row.revision
  OBVIOUS
<1>5. \A c \in commits : ~(c.gen = new.gen /\ c.rev = new.rev)
  BY <1>2, <1>3, <1>4 DEF IInv, Lineage
<1> HIDE DEF new
<1>6. NoLostUpdate'
  BY <1>1, <1>4, <1>5 DEF IInv, NoLostUpdate
<1>7. Lineage'
  BY <1>1, <1>2, <1>3, <1>4 DEF IInv, Lineage
<1> QED BY <1>6, <1>7

\* What a request that is stored does to the rest of the invariant.
LEMMA StoredKeeps ==
  ASSUME IInv, TypeOK', NEW q \in Request, NEW basis, Commit(q, basis),
         NEW pc \in {"get", "receipt"}, Goto(q, pc),
         row'.token = q, state' = q
  PROVE  TokenIsCommitted' /\ Phases' /\ StateIsWinners'
<1>1. Committed(q)' # {}
  <2> DEFINE new == [gen |-> row.gen, rev |-> row.revision + 1, by |-> q, basis |-> basis]
  <2>1. new \in commits'
    BY DEF Commit
  <2>2. new.by = q
    OBVIOUS
  <2> HIDE DEF new
  <2> QED BY <2>1, <2>2 DEF Committed
<1>2. \A p \in Request \ {q} : Committed(p)' = Committed(p) /\ request'[p] = request[p]
  BY DEF Commit, Committed, Goto, IInv, TypeOK
<1>3. request'[q].pc = pc
  BY DEF Goto, IInv, TypeOK, RequestState
<1>4. Phases'
  BY <1>1, <1>2, <1>3 DEF IInv, Phases
<1> QED BY <1>1, <1>4 DEF TokenIsCommitted, StateIsWinners

\* What deletion and recovery do to the rest of the invariant.
LEMMA Retagged ==
  ASSUME IInv, NEW basis, Commit(Lifecycle, basis), Exists,
         row'.token = row.token, UNCHANGED <<state, request>>
  PROVE  TokenIsCommitted' /\ Phases' /\ StateIsWinners'
<1>1. \A p \in Request : Committed(p)' = Committed(p)
  BY RepositoryConstants DEF Commit, Committed
<1> QED BY <1>1 DEF IInv, TokenIsCommitted, Phases, StateIsWinners, Exists

\* The invariant holds of the empty tables.
LEMMA Initially == Init => IInv
<1> SUFFICES ASSUME Init PROVE IInv
  OBVIOUS
<1>1. TypeOK
  <2>1. row \in Row
    BY DEF Init, Row
  <2>2. Idle \in RequestState
    BY DEF Idle, Absent, Record, RequestState, Phase
  <2> QED BY <2>1, <2>2 DEF Init, TypeOK
<1> QED
  BY <1>1 DEF Init, IInv, NoLostUpdate, Lineage, TokenIsCommitted, Phases, StateIsWinners,
              Exists, Committed, Idle

\* Every step, of a handler or of the record's lifecycle, keeps the invariant.
LEMMA Inductive == IInv /\ [Next]_vars => IInv'
<1> SUFFICES ASSUME IInv, [Next]_vars PROVE IInv'
  OBVIOUS
<1>t. TypeOK'
  BY TypePreserved DEF IInv
<1>r. \A q \in Request : request[q] \in RequestState
  BY DEF IInv, TypeOK
<1>1. ASSUME NEW q \in Request, ArriveCreate(q) PROVE IInv'
  BY <1>1, <1>t, HandlerStep DEF ArriveCreate, At, Idle, IInv, TypeOK
<1>2. ASSUME NEW q \in Request, NEW basis \in Served, ArriveUpdate(q, basis) PROVE IInv'
  BY <1>2, <1>t, HandlerStep DEF ArriveUpdate, At, Idle, IInv, TypeOK
<1>3. ASSUME NEW q \in Request, Select(q) PROVE IInv'
  BY <1>3, <1>t, <1>r, HandlerStep DEF Select, At, Goto, IInv, TypeOK, RequestState
<1>4. ASSUME NEW q \in Request, Insert(q) PROVE IInv'
  <2>1. CASE Exists
    BY <1>4, <2>1, <1>t, <1>r, HandlerStep DEF Insert, At, Goto, IInv, TypeOK, RequestState
  <2>2. CASE ~Exists
    <3> DEFINE basis == [gen |-> row.gen, rev |-> 0]
    <3>1. /\ row' = [row EXCEPT !.revision = 1, !.token = q, !.life = "live"]
          /\ state' = q
          /\ Goto(q, "get")
          /\ Commit(q, basis)
      BY <1>4, <2>2 DEF Insert
    <3>2. row.revision = 0 /\ basis \in Record /\ basis.rev = 0
      BY <2>2 DEF IInv, TypeOK, Row, Exists, Record
    <3>3. row'.gen = row.gen /\ row'.revision = row.revision + 1 /\ row'.token = q
      BY <3>1, <3>2 DEF IInv, TypeOK, Row
    <3> HIDE DEF basis
    <3>4. NoLostUpdate' /\ Lineage'
      BY <3>1, <3>2, <3>3, NewVersion
    <3>5. TokenIsCommitted' /\ Phases' /\ StateIsWinners'
      BY <3>1, <3>3, <1>t, StoredKeeps
    <3> QED BY <1>t, <3>4, <3>5 DEF IInv
  <2> QED BY <2>1, <2>2
<1>5. ASSUME NEW q \in Request, Update(q) PROVE IInv'
  <2> DEFINE basis == request[q].basis
  <2>1. basis \in Record
    BY <1>r DEF RequestState
  <2>2. CASE RowMatches(q)
    <3>1. /\ row' = [row EXCEPT !.revision = @ + 1, !.token = q, !.life = "live"]
          /\ state' = UpdatedState(q, row')
          /\ Commit(q, basis)
          /\ Goto(q, "receipt")
      BY <1>5, <2>2 DEF Update, UpdatedRow
    <3>2. /\ row'.gen = row.gen /\ row'.revision = row.revision + 1 /\ row'.token = q
          /\ row.revision \in Nat
      BY <3>1 DEF IInv, TypeOK, Row
    <3>3. state' = q
      BY <3>1, <3>2 DEF UpdatedState
    <3>4. basis.rev = row.revision
      BY <2>2 DEF RowMatches
    <3> HIDE DEF basis
    <3>5. NoLostUpdate' /\ Lineage'
      BY <2>1, <3>1, <3>2, <3>4, NewVersion
    <3>6. TokenIsCommitted' /\ Phases' /\ StateIsWinners'
      BY <3>1, <3>2, <3>3, <1>t, StoredKeeps
    <3> QED BY <1>t, <3>5, <3>6 DEF IInv
  <2>3. CASE ~RowMatches(q)
    <3>1. UNCHANGED <<row, commits>> /\ Goto(q, "receipt") /\ At(q, "batch")
      BY <1>5, <2>3 DEF Update, UpdatedRow
    <3>2. Committed(q) = {}
      BY <3>1 DEF At, IInv, Phases
    <3>3. ~(row.revision > 0 /\ row.token = q)
      BY <3>2 DEF IInv, TokenIsCommitted, Exists
    <3>4. UNCHANGED state
      BY <1>5, <3>1, <3>3 DEF Update, UpdatedState
    <3> QED BY <3>1, <3>4, <1>t, <1>r, HandlerStep DEF At, Goto, IInv, TypeOK, RequestState
  <2> QED BY <2>2, <2>3
<1>6. ASSUME NEW q \in Request, Receipt(q) PROVE IInv'
  <2>1. CASE Exists /\ row.token = q
    <3>1. Committed(q) # {}
      BY <2>1 DEF IInv, TokenIsCommitted
    <3>2. request' = [request EXCEPT ![q].pc = "get"] \/ request' = [request EXCEPT ![q].pc = "stale"]
      BY <1>6 DEF Receipt, Goto
    <3> QED BY <1>6, <3>1, <3>2, <1>t, <1>r, HandlerStep DEF Receipt, At, IInv, TypeOK, RequestState
  <2>2. CASE ~(Exists /\ row.token = q)
    BY <1>6, <2>2, <1>t, <1>r, HandlerStep DEF Receipt, At, Goto, IInv, TypeOK, RequestState
  <2> QED BY <2>1, <2>2
<1>7. ASSUME NEW q \in Request, Get(q) PROVE IInv'
  BY <1>7, <1>t, <1>r, HandlerStep DEF Get, At, IInv, TypeOK, RequestState, Phases
<1>8. ASSUME NEW q \in Request, Announce(q) PROVE IInv'
  BY <1>8, <1>t, <1>r, HandlerStep DEF Announce, At, Goto, IInv, TypeOK, RequestState, Phases
<1>9. ASSUME NEW q \in Request, Fail(q) PROVE IInv'
  BY <1>9, <1>t, <1>r, HandlerStep DEF Fail, Goto, IInv, TypeOK, RequestState
<1>10. ASSUME NEW basis \in Served, Delete(basis) PROVE IInv'
  <2>1. basis \in Record
    BY DEF Served, IInv, TypeOK, CommitRecord, Record
  <2>2. row'.gen = row.gen /\ row'.revision = row.revision + 1 /\ row'.token = row.token
    BY <1>10 DEF Delete, IInv, TypeOK, Row
  <2>3. Exists
    BY <1>10 DEF Delete, Live
  <2>4. NoLostUpdate' /\ Lineage'
    BY <1>10, <2>1, <2>2, NewVersion DEF Delete
  <2>5. TokenIsCommitted' /\ Phases' /\ StateIsWinners'
    BY <1>10, <2>2, <2>3, Retagged DEF Delete
  <2> QED BY <1>t, <2>4, <2>5 DEF IInv
<1>11. ASSUME Recover PROVE IInv'
  <2>1. Current \in Record /\ Current.rev = row.revision
    BY DEF IInv, TypeOK, Row, Current, Record
  <2>2. row'.gen = row.gen /\ row'.revision = row.revision + 1 /\ row'.token = row.token
    BY <1>11 DEF Recover, IInv, TypeOK, Row
  <2>3. NoLostUpdate' /\ Lineage'
    BY <1>11, <2>1, <2>2, NewVersion DEF Recover
  <2>4. TokenIsCommitted' /\ Phases' /\ StateIsWinners'
    BY <1>11, <2>2, Retagged DEF Recover
  <2> QED BY <1>t, <2>3, <2>4 DEF IInv
<1>12. ASSUME Purge PROVE IInv'
  <2>1. row'.gen = row.gen + 1 /\ row'.revision = 0 /\ UNCHANGED <<commits, request>>
    BY <1>12 DEF Purge
  <2>2. row.gen \in Nat /\ \A c \in commits : c.gen \in Nat
    BY DEF IInv, TypeOK, Row, CommitRecord
  <2>3. NoLostUpdate' /\ Phases'
    BY <2>1 DEF IInv, NoLostUpdate, Phases, Committed
  <2>4. Lineage'
    BY <2>1, <2>2 DEF IInv, Lineage
  <2>5. TokenIsCommitted' /\ StateIsWinners'
    BY <2>1 DEF TokenIsCommitted, StateIsWinners, Exists
  <2> QED BY <1>t, <2>3, <2>4, <2>5 DEF IInv
<1>13. CASE UNCHANGED vars
  BY <1>13, <1>t DEF vars, IInv, NoLostUpdate, Lineage, TokenIsCommitted, Phases,
                     StateIsWinners, Exists, Committed
<1> QED
  BY <1>1, <1>2, <1>3, <1>4, <1>5, <1>6, <1>7, <1>8, <1>9, <1>10, <1>11, <1>12, <1>13
     DEF Next, PutNext, LifecycleNext
-----------------------------------------------------------------------------
\* IInv holds in every state of every behaviour.
THEOREM Invariance == Spec => []IInv
<1>1. Init => IInv
  BY Initially
<1>2. IInv /\ [Next]_vars => IInv'
  BY Inductive
<1> QED BY <1>1, <1>2, PTL DEF Spec

\* The variables keep their types.
THEOREM TypeCorrect == Spec => []TypeOK
<1>1. IInv => TypeOK
  BY DEF IInv
<1> QED BY <1>1, Invariance, PTL

\* However the SELECTs, batches and receipts of concurrent puts, deletions
\* and recoveries interleave, every version replaces the one its author saw,
\* and no version is replaced twice.
THEOREM LostUpdateFree == Spec => []NoLostUpdate
<1>1. IInv => NoLostUpdate
  BY DEF IInv
<1> QED BY <1>1, Invariance, PTL

\* The snapshot stored is always that of the writer of the metadata row.
THEOREM TablesAgree == Spec => []StateIsWinners
<1>1. IInv => StateIsWinners
  BY DEF IInv
<1> QED BY <1>1, Invariance, PTL

-----------------------------------------------------------------------------
(* What is answered has been announced                                     *)

\* Of a stored request whose version is of the row's Project: the record it read
\* for its answer is no older, and once it is answered an event says so.
Announced ==
  \A q \in Request : \A c \in Committed(q) : c.gen = row.gen =>
    /\ At(q, "announce") => request[q].saved.gen = c.gen /\ request[q].saved.rev >= c.rev
    /\ At(q, "saved") => \E e \in events : e.gen = c.gen /\ e.rev >= c.rev

\* Steps that bring no request to its announcement leave Announced alone.
LEMMA Unannounced ==
  ASSUME Announced, row'.gen = row.gen, events' = events,
         \A p \in Request : \/ request'[p] = request[p] /\ Committed(p)' = Committed(p)
                            \/ request'[p].pc \notin {"announce", "saved"}
  PROVE  Announced'
BY DEF Announced, At

\* A version adds itself to those of its author alone.
LEMMA OthersCommitted ==
  ASSUME NEW by, NEW basis, Commit(by, basis)
  PROVE  \A p : p # by => Committed(p)' = Committed(p)
BY DEF Commit, Committed

\* The handler reads its answer after its batch and announces what it read, and
\* a purge leaves no version of the row's Project.
LEMMA AnnouncedInductive == IInv /\ Announced /\ [Next]_vars => Announced'
<1> SUFFICES ASSUME IInv, Announced, [Next]_vars PROVE Announced'
  OBVIOUS
<1>f. request \in [Request -> RequestState] /\ row \in Row
  BY DEF IInv, TypeOK
<1>r. \A q \in Request : request[q] \in RequestState
  BY <1>f
<1>h. ASSUME NEW q \in Request, UNCHANGED <<row, commits, events>>,
             \A p \in Request \ {q} : request'[p] = request[p],
             request'[q].pc \notin {"announce", "saved"}
      PROVE  Announced'
  BY <1>h, Unannounced DEF Committed
<1>c. ASSUME NEW q \in Request, NEW basis, Commit(q, basis), NEW pc \in {"get", "receipt"}, Goto(q, pc),
             row'.gen = row.gen, events' = events
      PROVE  Announced'
  <2>1. \A p \in Request \ {q} : request'[p] = request[p] /\ Committed(p)' = Committed(p)
    BY <1>c, <1>f, OthersCommitted DEF Goto
  <2>2. request'[q].pc = pc
    BY <1>c, <1>f DEF Goto, RequestState
  <2> QED BY <1>c, <2>1, <2>2, Unannounced
<1>l. ASSUME NEW basis, Commit(Lifecycle, basis), row'.gen = row.gen, UNCHANGED <<request, events>>
      PROVE  Announced'
  BY <1>l, OthersCommitted, Unannounced, RepositoryConstants
<1>1. ASSUME NEW q \in Request, ArriveCreate(q) PROVE Announced'
  BY <1>1, <1>f, <1>h DEF ArriveCreate, Idle
<1>2. ASSUME NEW q \in Request, NEW basis \in Served, ArriveUpdate(q, basis) PROVE Announced'
  BY <1>2, <1>f, <1>h DEF ArriveUpdate, Idle
<1>3. ASSUME NEW q \in Request, Select(q) PROVE Announced'
  BY <1>3, <1>f, <1>r, <1>h DEF Select, Goto, RequestState
<1>4. ASSUME NEW q \in Request, Insert(q) PROVE Announced'
  <2>1. CASE Exists
    BY <1>4, <2>1, <1>f, <1>r, <1>h DEF Insert, Goto, RequestState
  <2>2. CASE ~Exists
    BY <1>4, <2>2, <1>f, <1>c DEF Insert, Row
  <2> QED BY <2>1, <2>2
<1>5. ASSUME NEW q \in Request, Update(q) PROVE Announced'
  <2>1. CASE RowMatches(q)
    BY <1>5, <2>1, <1>f, <1>c DEF Update, UpdatedRow, Row
  <2>2. CASE ~RowMatches(q)
    BY <1>5, <2>2, <1>f, <1>r, <1>h DEF Update, UpdatedRow, Goto, RequestState
  <2> QED BY <2>1, <2>2
<1>6. ASSUME NEW q \in Request, Receipt(q) PROVE Announced'
  BY <1>6, <1>f, <1>r, <1>h DEF Receipt, Goto, RequestState
<1>7. ASSUME NEW q \in Request, Get(q) PROVE Announced'
  <2>1. UNCHANGED <<row, commits, events>> /\ \A p : Committed(p)' = Committed(p)
    BY <1>7 DEF Get, Committed
  <2>2. \A p \in Request \ {q} : request'[p] = request[p]
    BY <1>7, <1>f DEF Get
  <2>3. CASE Live
    <3>1. request'[q].pc = "announce" /\ request'[q].saved = Current
      BY <1>7, <1>f, <1>r, <2>3 DEF Get, RequestState
    <3>2. \A c \in Committed(q) : c.gen = row.gen => row.revision >= c.rev
      BY DEF IInv, Lineage, TypeOK, Row, CommitRecord, Committed
    <3> QED BY <2>1, <2>2, <3>1, <3>2 DEF Announced, At, Current
  <2>4. CASE ~Live
    BY <1>7, <1>f, <1>r, <2>1, <2>2, <2>4, <1>h DEF Get, RequestState
  <2> QED BY <2>3, <2>4
<1>8. ASSUME NEW q \in Request, Announce(q) PROVE Announced'
  <2>1. UNCHANGED <<row, commits>> /\ \A p : Committed(p)' = Committed(p)
    BY <1>8 DEF Announce, Committed
  <2>2. \A p \in Request \ {q} : request'[p] = request[p]
    BY <1>8, <1>f DEF Announce, Goto
  <2>3. request'[q].pc = "saved" /\ At(q, "announce") /\ events' = events \cup {request[q].saved}
    BY <1>8, <1>f, <1>r DEF Announce, Goto, RequestState
  <2> QED BY <2>1, <2>2, <2>3 DEF Announced, At
<1>9. ASSUME NEW q \in Request, Fail(q) PROVE Announced'
  BY <1>9, <1>f, <1>r, <1>h DEF Fail, Goto, RequestState
<1>10. ASSUME NEW basis \in Served, Delete(basis) PROVE Announced'
  BY <1>10, <1>f, <1>l DEF Delete, Row
<1>11. ASSUME Recover PROVE Announced'
  BY <1>11, <1>f, <1>l DEF Recover, Row
<1>12. ASSUME Purge PROVE Announced'
  <2>1. row'.gen = row.gen + 1 /\ UNCHANGED <<commits, request>>
    BY <1>12 DEF Purge
  <2>2. \A c \in commits : c.gen # row'.gen
    BY <2>1, <1>f DEF IInv, Lineage, TypeOK, Row, CommitRecord
  <2> QED BY <2>1, <2>2 DEF Announced, Committed
<1>13. CASE UNCHANGED vars
  BY <1>13 DEF vars, Announced, Committed, At
<1> QED
  BY <1>1, <1>2, <1>3, <1>4, <1>5, <1>6, <1>7, <1>8, <1>9, <1>10, <1>11, <1>12, <1>13
     DEF Next, PutNext, LifecycleNext

\* Whatever else happens to the Project, a writer that is told "saved" has been
\* announced to the collaborators, by an event of its version or a later one.
THEOREM AnswersAnnounced == Spec => []SavedIsAnnounced
<1>1. Init => Announced
  BY DEF Init, Announced, Committed
<1>2. IInv /\ Announced /\ [Next]_vars => Announced'
  BY AnnouncedInductive
<1>3. Announced => SavedIsAnnounced
  BY DEF Announced, SavedIsAnnounced
<1> QED BY <1>1, <1>2, <1>3, Invariance, PTL DEF Spec

-----------------------------------------------------------------------------
(* Refinement of ProjectRegister                                           *)

effective == {q \in Request : Committed(q) # {}}
confirmed == {q \in Request : At(q, "saved")}

\* The empty tables are the absent record.
LEMMA RegisterInitially == Init => Register!RegisterInit
BY DEF Init, Register!RegisterInit, Committed, At, Idle

\* A step that stores nothing and answers no one "saved" is a stutter.
LEMMA Stutter ==
  ASSUME UNCHANGED <<row, state, commits>>,
         \A p \in Request : (request'[p].pc = "saved") <=> (request[p].pc = "saved")
  PROVE  UNCHANGED <<row.revision, state, effective, confirmed>>
BY DEF effective, confirmed, Committed, At

\* A request that is stored adds itself, and only itself, to the effective ones.
LEMMA Swapped ==
  ASSUME IInv, NEW q \in Request, NEW basis, Commit(q, basis)
  PROVE  effective' = effective \cup {q}
<1> DEFINE new == [gen |-> row.gen, rev |-> row.revision + 1, by |-> q, basis |-> basis]
<1>1. commits' = commits \cup {new} /\ new.by = q
  BY DEF Commit
<1> HIDE DEF new
<1>2. Committed(q)' # {}
  BY <1>1 DEF Committed
<1>3. \A p \in Request \ {q} : Committed(p)' = Committed(p)
  BY <1>1 DEF Committed
<1> QED BY <1>2, <1>3 DEF effective

\* A deletion or a recovery makes no request effective.
LEMMA SameEffective ==
  ASSUME NEW basis, Commit(Lifecycle, basis)
  PROVE  effective' = effective
<1> DEFINE new == [gen |-> row.gen, rev |-> row.revision + 1, by |-> Lifecycle, basis |-> basis]
<1>1. commits' = commits \cup {new} /\ new.by = Lifecycle
  BY DEF Commit
<1> HIDE DEF new
<1>2. \A p \in Request : Committed(p)' = Committed(p)
  BY <1>1, RepositoryConstants DEF Committed
<1> QED BY <1>2 DEF effective

\* Every step is a step of the register, or changes nothing it shows.
LEMMA RegisterStep ==
  IInv /\ [Next]_vars => [Register!RegisterNext]_(Register!registerVars)
<1> SUFFICES ASSUME IInv, [Next]_vars
             PROVE  \/ Register!RegisterNext
                    \/ UNCHANGED <<row.revision, state, effective, confirmed>>
  BY DEF Register!registerVars, effective, confirmed
<1>r. \A q \in Request : request[q] \in RequestState
  BY DEF IInv, TypeOK
<1>f. request \in [Request -> RequestState] /\ row \in Row
  BY DEF IInv, TypeOK
<1>n. row.revision \in Nat
  BY <1>f DEF Row
<1>s. ASSUME NEW q \in Request, NEW pc \in Phase \ {"saved"}, ~At(q, "saved"), Goto(q, pc),
             UNCHANGED <<row, state, commits>>
      PROVE  UNCHANGED <<row.revision, state, effective, confirmed>>
  BY <1>s, <1>r, <1>f, Stutter DEF Goto, At, RequestState
<1>w. ASSUME NEW q \in Request, NEW basis, Commit(q, basis), At(q, "batch"),
             NEW pc \in {"get", "receipt"}, Goto(q, pc),
             row'.revision = row.revision + 1, state' = q
      PROVE  Register!RegisterNext
  <2>1. effective' = effective \cup {q}
    BY <1>w, Swapped
  <2>2. q \notin effective
    BY <1>w DEF IInv, Phases, At, effective
  <2>3. confirmed' = confirmed
    BY <1>w, <1>r, <1>f DEF confirmed, At, Goto, RequestState
  <2>4. row.revision \in 0..row.revision
    BY <1>n
  <2>5. Register!Swap(q, row.revision)
    BY <1>w, <2>1, <2>2, <2>3 DEF Register!Swap, effective, confirmed
  <2> QED BY <2>4, <2>5 DEF Register!RegisterNext
<1>p. {"idle", "exists", "select", "stale", "batch", "get", "failed", "receipt", "announce"}
        \subseteq Phase \ {"saved"}
  BY DEF Phase, Working, Outcome
<1>1. ASSUME NEW q \in Request, ArriveCreate(q)
      PROVE  UNCHANGED <<row.revision, state, effective, confirmed>>
  BY <1>1, <1>f, Stutter DEF ArriveCreate, At, Idle
<1>2. ASSUME NEW q \in Request, NEW basis \in Served, ArriveUpdate(q, basis)
      PROVE  UNCHANGED <<row.revision, state, effective, confirmed>>
  BY <1>2, <1>f, Stutter DEF ArriveUpdate, At, Idle
<1>3. ASSUME NEW q \in Request, Select(q)
      PROVE  UNCHANGED <<row.revision, state, effective, confirmed>>
  <2>1. PICK pc \in Phase \ {"saved"} : Goto(q, pc)
    BY <1>3, <1>p DEF Select
  <2>2. ~At(q, "saved")
    BY <1>3 DEF Select, At
  <2> QED BY <1>3, <1>s, <2>1, <2>2 DEF Select
<1>4. ASSUME NEW q \in Request, Insert(q)
      PROVE  Register!RegisterNext \/ UNCHANGED <<row.revision, state, effective, confirmed>>
  <2>1. CASE Exists
    <3>1. PICK pc \in Phase \ {"saved"} : Goto(q, pc)
      BY <1>4, <2>1, <1>p DEF Insert
    <3>2. ~At(q, "saved")
      BY <1>4 DEF Insert, At
    <3> QED BY <1>4, <2>1, <1>s, <3>1, <3>2 DEF Insert
  <2>2. CASE ~Exists
    <3> DEFINE basis == [gen |-> row.gen, rev |-> 0]
    <3>1. /\ row' = [row EXCEPT !.revision = 1, !.token = q, !.life = "live"]
          /\ state' = q /\ Goto(q, "get") /\ Commit(q, basis) /\ At(q, "batch")
      BY <1>4, <2>2 DEF Insert
    <3>2. row'.revision = row.revision + 1
      BY <3>1, <2>2, <1>f, <1>n DEF Row, Exists
    <3> HIDE DEF basis
    <3> QED BY <1>w, <3>1, <3>2
  <2> QED BY <2>1, <2>2
<1>5. ASSUME NEW q \in Request, Update(q)
      PROVE  Register!RegisterNext \/ UNCHANGED <<row.revision, state, effective, confirmed>>
  <2>1. CASE RowMatches(q)
    <3>1. /\ row' = [row EXCEPT !.revision = @ + 1, !.token = q, !.life = "live"]
          /\ state' = UpdatedState(q, row') /\ Goto(q, "receipt")
          /\ Commit(q, request[q].basis) /\ At(q, "batch")
      BY <1>5, <2>1 DEF Update, UpdatedRow
    <3>2. row'.revision = row.revision + 1 /\ row'.token = q
      BY <3>1, <1>f DEF Row
    <3>3. state' = q
      BY <3>1, <3>2, <1>n DEF UpdatedState
    <3> QED BY <1>w, <3>1, <3>2, <3>3
  <2>2. CASE ~RowMatches(q)
    <3>1. UNCHANGED <<row, commits>> /\ Goto(q, "receipt") /\ At(q, "batch")
      BY <1>5, <2>2 DEF Update, UpdatedRow
    <3>2. Committed(q) = {}
      BY <3>1 DEF At, IInv, Phases
    <3>3. UNCHANGED state
      BY <1>5, <3>1, <3>2 DEF Update, UpdatedState, IInv, TokenIsCommitted, Exists
    <3>4. ~At(q, "saved")
      BY <3>1 DEF At
    <3> QED BY <1>p, <1>s, <3>1, <3>3, <3>4
  <2> QED BY <2>1, <2>2
<1>6. ASSUME NEW q \in Request, Receipt(q)
      PROVE  UNCHANGED <<row.revision, state, effective, confirmed>>
  <2>1. PICK pc \in Phase \ {"saved"} : Goto(q, pc)
    BY <1>6, <1>p DEF Receipt
  <2>2. ~At(q, "saved")
    BY <1>6 DEF Receipt, At
  <2> QED BY <1>6, <1>s, <2>1, <2>2 DEF Receipt
<1>7. ASSUME NEW q \in Request, Get(q)
      PROVE  UNCHANGED <<row.revision, state, effective, confirmed>>
  BY <1>7, <1>r, <1>f, Stutter DEF Get, At, RequestState
<1>8. ASSUME NEW q \in Request, Announce(q) PROVE Register!RegisterNext
  <2>1. q \in effective
    BY <1>8 DEF Announce, At, IInv, Phases, effective
  <2>2. confirmed' = confirmed \cup {q}
    BY <1>8, <1>r, <1>f DEF Announce, confirmed, At, Goto, RequestState
  <2>3. UNCHANGED <<row.revision, state, effective>>
    BY <1>8 DEF Announce, effective, Committed
  <2>4. Register!Acknowledge(q)
    BY <2>1, <2>2, <2>3 DEF Register!Acknowledge, effective, confirmed
  <2> QED BY <2>4 DEF Register!RegisterNext
<1>9. ASSUME NEW q \in Request, Fail(q)
      PROVE  UNCHANGED <<row.revision, state, effective, confirmed>>
  <2>1. ~At(q, "saved") /\ Goto(q, "failed")
    BY <1>9 DEF Fail, At, Working
  <2> QED BY <1>9, <1>p, <1>s, <2>1 DEF Fail
<1>e. ASSUME NEW basis, Commit(Lifecycle, basis), row' = [row EXCEPT !.revision = @ + 1, !.life = row'.life],
             UNCHANGED <<state, request>>, Exists
      PROVE  Register!RegisterNext
  <2>1. row'.revision = row.revision + 1
    BY <1>e, <1>f DEF Row
  <2>2. effective' = effective
    BY <1>e, SameEffective
  <2>3. confirmed' = confirmed
    BY <1>e DEF confirmed, At
  <2>4. Register!Retag
    BY <1>e, <2>1, <2>2, <2>3 DEF Register!Retag, effective, confirmed, Exists
  <2> QED BY <2>4 DEF Register!RegisterNext
<1>10. ASSUME NEW basis \in Served, Delete(basis) PROVE Register!RegisterNext
  BY <1>10, <1>e, <1>f DEF Delete, Live, Row
<1>11. ASSUME Recover PROVE Register!RegisterNext
  BY <1>11, <1>e, <1>f DEF Recover, Row
<1>12. ASSUME Purge PROVE Register!RegisterNext
  <2>1. Exists /\ row'.revision = 0 /\ state' = NoRequest /\ UNCHANGED <<effective, confirmed>>
    BY <1>12 DEF Purge, effective, confirmed, Committed, At
  <2>2. Register!Drop
    BY <2>1 DEF Register!Drop, Exists, effective, confirmed
  <2> QED BY <2>2 DEF Register!RegisterNext
<1>13. CASE UNCHANGED vars
  BY <1>13 DEF vars, effective, confirmed, Committed, At
<1> QED
  BY <1>1, <1>2, <1>3, <1>4, <1>5, <1>6, <1>7, <1>8, <1>9, <1>10, <1>11, <1>12, <1>13
     DEF Next, PutNext, LifecycleNext

\* put, with its separate statements, implements the compare-and-swap register.
THEOREM Refinement == Spec => ImplementsRegister
<1>1. Init => Register!RegisterInit
  BY RegisterInitially
<1>2. IInv /\ [Next]_vars => [Register!RegisterNext]_(Register!registerVars)
  BY RegisterStep
<1> QED BY <1>1, <1>2, Invariance, PTL DEF Spec, ImplementsRegister, Register!RegisterSpec
-----------------------------------------------------------------------------
(* CollaborationStream: types                                              *)

Events == [id : Nat, previous : Nat, rev : Nat]
Chunks == [id : Nat, rev : Nat]

LEMMA LaterType ==
  ASSUME NEW x \in Nat, NEW y \in Nat
  PROVE  Later(x, y) \in Nat
BY DEF Later

LEMMA MaxIdType ==
  ASSUME log \in Seq(Events)
  PROVE  MaxId \in Nat
<1>1. CASE log = <<>>
  BY <1>1 DEF MaxId
<1>2. CASE log # <<>>
  <2>1. Len(log) \in 1 .. Len(log)
    BY <1>2
  <2>2. log[Len(log)] \in Events
    BY <2>1
  <2> QED BY <1>2, <2>2 DEF MaxId, Last, Events
<1> QED BY <1>1, <1>2

\* The page that is read is a sequence of events.
LEMMA PageType ==
  ASSUME log \in Seq(Events), NEW K
  PROVE  LET later == Keep(log, K)
         IN  SubSeq(later, 1, IF Len(later) > PageSize THEN PageSize ELSE Len(later)) \in Seq(Events)
<1> DEFINE later == Keep(log, K)
<1>1. later \in Seq(Events)
  BY KeepType
<1> HIDE DEF later
<1>2. PageSize \in Nat /\ Len(later) \in Nat
  BY <1>1, StreamConstants
<1>3. \A j \in 1 .. Len(later) : later[j] \in Events
  BY <1>1
<1>4. SubSeq(later, 1, IF Len(later) > PageSize THEN PageSize ELSE Len(later)) \in Seq(Events)
  BY <1>1, <1>2, <1>3
<1> QED BY <1>4 DEF later

\* A PUT's state, and what a PUT that goes on has left to append.
WriteTypes ==
  /\ write \in [Writer -> [pc : {"new", "append", "done", "failed"}, rev : Nat, left : Nat]]
  /\ \A w \in Writer : write[w].pc = "append" => write[w].rev > 0 /\ write[w].left > 0

StreamTypes == StreamTypeOK /\ WriteTypes

LEMMA StoredTypes ==
  ASSUME StreamTypes, NEW w \in Writer, NEW n \in Nat \ {0}, Stored(w, n)
  PROVE  revision' \in Nat /\ WriteTypes'
<1>1. revision \in Nat
  BY DEF StreamTypes, StreamTypeOK
<1>2. revision' \in Nat /\ revision' > 0
  BY <1>1 DEF Stored
<1> QED BY <1>2 DEF Stored, StreamTypes, WriteTypes

\* A chunk that is applied, or put off, or loaded for, keeps the types of the page.
LEMMA ApplyTypes ==
  ASSUME StreamTypes, NEW c \in Chunks, NEW postponed \in SUBSET Chunks, Apply(c, postponed)
  PROVE  /\ waiting' \subseteq Chunks /\ status' \in {"SAVED", "LOCAL", "STALE"}
         /\ loads' \subseteq [chunk : Chunks, step : {"sent", "read"}, rev : Nat] /\ unread' \in Nat
<1>1. /\ status \in {"SAVED", "LOCAL", "STALE"} /\ unread \in Nat
      /\ loads \subseteq [chunk : Chunks, step : {"sent", "read"}, rev : Nat]
      /\ revision \in Nat
  BY DEF StreamTypes, StreamTypeOK, Chunks
<1>2. Meant(c) \in Nat
  BY <1>1 DEF Meant, Chunks
<1>3. Later(unread, Meant(c)) \in Nat
  BY <1>1, <1>2, LaterType
<1>4. [chunk |-> c, step |-> "sent", rev |-> 0] \in [chunk : Chunks, step : {"sent", "read"}, rev : Nat]
  OBVIOUS
<1> QED BY <1>1, <1>3, <1>4 DEF Apply

LEMMA WorkerStreamTypes ==
  ASSUME StreamTypes, WorkerNext
  PROVE  StreamTypes'
<1> USE StreamConstants
<1>t. /\ log \in Seq(Events) /\ nextId \in Nat /\ revision \in Nat /\ WriteTypes
      /\ {purges, faults} \subseteq Nat
  BY DEF StreamTypes, StreamTypeOK, Events
<1>1. ASSUME NEW p \in Put, CommitPut(p) PROVE StreamTypes'
  <2>1. PICK n \in IF revision = 0 THEN {1} ELSE Types[p] : Stored(p, n)
    BY <1>1 DEF CommitPut
  <2>2. n \in Nat \ {0} /\ p \in Writer
    BY <2>1 DEF Writer
  <2>3. revision' \in Nat /\ WriteTypes'
    BY <2>1, <2>2, StoredTypes
  <2> QED BY <1>1, <2>3 DEF CommitPut, StreamTypes, StreamTypeOK, WriteTypes, stream, page, seenBy, bounds
<1>2. ASSUME NEW w \in Writer, AppendEvent(w) PROVE StreamTypes'
  <2>1. write[w].rev \in Nat /\ write[w].left \in Nat /\ write[w].left > 0 /\ write[w].rev > 0
    BY <1>t, <1>2 DEF AppendEvent, WriteTypes
  <2>2. nextId' \in Nat /\ Stride \in Nat
    BY <1>t, <1>2 DEF AppendEvent
  <2>3. [id |-> nextId', previous |-> MaxId, rev |-> write[w].rev] \in Events
    BY <1>t, <2>1, <2>2, MaxIdType DEF Events
  <2>4. log' \in Seq(Events)
    BY <1>t, <1>2, <2>3 DEF AppendEvent
  <2>5. WriteTypes'
    <3> DEFINE next == [pc |-> IF write[w].left = 1 THEN "done" ELSE "append",
                        rev |-> write[w].rev, left |-> write[w].left - 1]
    <3>1. next \in [pc : {"new", "append", "done", "failed"}, rev : Nat, left : Nat]
      BY <2>1
    <3>2. next.pc = "append" => next.rev > 0 /\ next.left > 0
      BY <2>1
    <3>3. write' = [write EXCEPT ![w] = next]
      BY <1>2 DEF AppendEvent
    <3> HIDE DEF next
    <3> QED BY <1>t, <3>1, <3>2, <3>3 DEF WriteTypes
  <2> QED BY <1>2, <2>2, <2>4, <2>5
          DEF AppendEvent, StreamTypes, StreamTypeOK, WriteTypes, Events, stream, page, seenBy, bounds
<1>3. ASSUME NEW w \in Writer, AppendFails(w) PROVE StreamTypes'
  <2>1. WriteTypes'
    BY <1>t, <1>3 DEF AppendFails, WriteTypes
  <2>2. faults' \in Nat
    BY <1>t, <1>3 DEF AppendFails
  <2> QED BY <1>3, <2>1, <2>2
          DEF AppendFails, StreamTypes, StreamTypeOK, WriteTypes, stream, page, seenBy
<1>4. ASSUME PurgeProject PROVE StreamTypes'
  <2>1. purges' \in Nat
    BY <1>t, <1>4 DEF PurgeProject
  <2>2. log' \in Seq(Events) /\ revision' \in Nat
    BY <1>4 DEF PurgeProject
  <2>3. UNCHANGED <<nextId, write, stream, page, seenBy, faults>>
    BY <1>4 DEF PurgeProject
  <2> QED BY <2>1, <2>2, <2>3
          DEF Events, StreamTypes, StreamTypeOK, WriteTypes, stream, page, seenBy
<1> QED BY <1>1, <1>2, <1>3, <1>4 DEF WorkerNext

LEMMA SourceStreamTypes ==
  ASSUME StreamTypes, SourceNext
  PROVE  StreamTypes'
<1> USE StreamConstants
<1>t. /\ log \in Seq(Events) /\ batch \in Seq(Events) /\ wire \in Seq(Chunks)
      /\ position \in Nat /\ {purges, faults} \subseteq Nat
  BY DEF StreamTypes, StreamTypeOK, Events, Chunks
<1>1. CASE Connect
  BY <1>1 DEF Connect, StreamTypes, StreamTypeOK, WriteTypes, worker, page, seenBy, bounds
<1>2. CASE SelectPage
  <2>1. batch' \in Seq(Events)
    BY <1>t, <1>2, PageType DEF SelectPage
  <2> QED BY <1>2, <2>1
          DEF SelectPage, StreamTypes, StreamTypeOK, WriteTypes, Events, worker, page, seenBy, bounds
<1>3. CASE SelectCursor
  <2>1. MaxId \in Nat
    BY <1>t, MaxIdType
  <2>2. [k \in DOMAIN batch |-> Chunk(batch[k])] \in Seq(Chunks)
    <3>e. \A e \in Events : Chunk(e) \in Chunks
      BY DEF Chunk, Events, Chunks
    <3>1. \A k \in DOMAIN batch : Chunk(batch[k]) \in Chunks
      BY <1>t, <3>e
    <3>2. DOMAIN batch = 1 .. Len(batch) /\ Len(batch) \in Nat
      BY <1>t
    <3> QED BY <3>1, <3>2
  <2>3. <<ResetChunk(MaxId)>> \in Seq(Chunks) /\ <<>> \in Seq(Chunks)
    BY <2>1 DEF ResetChunk, Chunks, Reset
  <2>4. wire' \in Seq(Chunks) /\ batch' = <<>>
    BY <1>3, <2>2, <2>3 DEF SelectCursor
  <2> QED BY <1>3, <2>4
          DEF SelectCursor, StreamTypes, StreamTypeOK, WriteTypes, Chunks, worker, page, seenBy, bounds
<1>4. CASE Refuse
  <2>1. faults' \in Nat
    BY <1>t, <1>4 DEF Refuse
  <2> QED BY <1>4, <2>1 DEF Refuse, StreamTypes, StreamTypeOK, WriteTypes, worker, page, seenBy
<1>5. CASE StreamEnds
  BY <1>5 DEF StreamEnds, StreamTypes, StreamTypeOK, WriteTypes, worker, page, seenBy, bounds
<1>6. CASE Cut
  <2>1. faults' \in Nat
    BY <1>t, <1>6 DEF Cut
  <2> QED BY <1>6, <2>1, SMTT(20) DEF Cut, StreamTypes, StreamTypeOK, WriteTypes, worker, page, seenBy
<1> QED BY <1>1, <1>2, <1>3, <1>4, <1>5, <1>6 DEF SourceNext

LEMMA PageStreamTypes ==
  ASSUME StreamTypes, PageNext
  PROVE  StreamTypes'
<1> DEFINE Loads == [chunk : Chunks, step : {"sent", "read"}, rev : Nat]
<1>t. /\ revision \in Nat /\ known \in Nat /\ wire \in Seq(Chunks) /\ waiting \subseteq Chunks
      /\ loads \subseteq Loads /\ told \subseteq Nat /\ unread \in Nat /\ faults \in Nat /\ purges \in Nat
      /\ WriteTypes
  BY DEF StreamTypes, StreamTypeOK, Chunks
<1>1. CASE Deliver
  <2>1. Head(wire) \in Chunks /\ wire' \in Seq(Chunks)
    BY <1>t, <1>1 DEF Deliver, Receive
  <2>2. told' \subseteq Nat /\ position' \in Nat
    <3>1. Head(wire).id \in Nat
      BY <2>1 DEF Chunks
    <3>2. told' = told \cup (IF Head(wire).rev = Reset THEN 0 .. Head(wire).id ELSE {Head(wire).id})
      BY <1>1 DEF Deliver, Receive
    <3>3. position' = Head(wire).id
      BY <1>1 DEF Deliver, Receive
    <3>4. 0 .. Head(wire).id \subseteq Nat /\ {Head(wire).id} \subseteq Nat
      BY <3>1
    <3> QED BY <1>t, <3>1, <3>2, <3>3, <3>4, Zenon
  <2>3. /\ waiting' \subseteq Chunks /\ status' \in {"SAVED", "LOCAL", "STALE"}
        /\ loads' \subseteq Loads /\ unread' \in Nat
    BY <1>t, <1>1, <2>1, ApplyTypes DEF Deliver
  <2> QED BY <1>1, <2>1, <2>2, <2>3
          DEF Deliver, Receive, StreamTypes, StreamTypeOK, WriteTypes, Chunks, worker, bounds
<1>2. CASE EditPage
  BY <1>2 DEF EditPage, StreamTypes, StreamTypeOK, WriteTypes, worker, stream, seenBy, bounds
<1>3. CASE SaveDone
  <2>1. mine \in Save
    BY <1>3 DEF SaveDone, StreamTypes, StreamTypeOK
  <2>2. known' \in Nat
    BY <1>t, <1>3, <2>1 DEF SaveDone, WriteTypes, Writer
  <2>3. overtaken' \in BOOLEAN
    BY <1>3 DEF SaveDone, StreamTypes, StreamTypeOK
  <2> QED BY <1>3, <2>2, <2>3
          DEF SaveDone, StreamTypes, StreamTypeOK, WriteTypes, worker, stream, bounds
<1>4. CASE SaveFails \/ SaveLost
  <2>1. faults' \in Nat /\ purges' \in Nat
    BY <1>t, <1>4 DEF SaveFails, SaveLost, bounds, StreamTypes, StreamTypeOK
  <2>2. UNCHANGED <<worker, stream, known, waiting, loads, seenBy>>
    BY <1>4 DEF SaveFails, SaveLost
  <2>3. work' = "none" /\ mine' = NoSave /\ status' = "LOCAL"
    BY <1>4 DEF SaveFails, SaveLost
  <2> QED BY <2>1, <2>2, <2>3
          DEF StreamTypes, StreamTypeOK, WriteTypes, worker, stream, seenBy
<1>5. ASSUME NEW c \in waiting, Again(c) PROVE StreamTypes'
  <2>1. /\ waiting' \subseteq Chunks /\ status' \in {"SAVED", "LOCAL", "STALE"}
        /\ loads' \subseteq Loads /\ unread' \in Nat
    <3>1. c \in Chunks /\ waiting \ {c} \in SUBSET Chunks
      BY <1>t
    <3> QED BY <1>5, <3>1, ApplyTypes DEF Again
  <2> QED BY <1>5, <2>1
          DEF Again, StreamTypes, StreamTypeOK, WriteTypes, Chunks, worker, stream, bounds
<1>6. ASSUME NEW l \in loads, Answer(l) \/ LoadFails(l) PROVE StreamTypes'
  <2>1. l \in Loads
    BY <1>t
  <2>2. CASE LoadRead(l)
    <3>1. [l EXCEPT !.step = "read", !.rev = revision] \in Loads
      BY <1>t, <2>1
    <3>2. loads' \subseteq Loads
      BY <1>t, <2>2, <3>1 DEF LoadRead
    <3> QED BY <2>2, <3>2
            DEF LoadRead, StreamTypes, StreamTypeOK, WriteTypes, Chunks, worker, stream, seenBy, bounds
  <2>3. CASE LoadDone(l)
    <3>1. loads' \subseteq Loads
      BY <1>t, <2>3 DEF LoadDone
    <3>2. known' \in Nat /\ status' \in {"SAVED", "LOCAL", "STALE"}
      BY <1>t, <2>1, <2>3 DEF LoadDone, StreamTypes, StreamTypeOK
    <3> QED BY <2>3, <3>1, <3>2
            DEF LoadDone, StreamTypes, StreamTypeOK, WriteTypes, Chunks, worker, stream, seenBy, bounds
  <2>4. CASE LoadFails(l)
    <3>1. l.chunk \in Chunks /\ Meant(l.chunk) \in Nat
      BY <1>t, <2>1 DEF Meant, Chunks
    <3>2. unread' \in Nat /\ faults' \in Nat
      BY <1>t, <2>4, <3>1, LaterType DEF LoadFails
    <3>3. loads' \subseteq Loads
      BY <1>t, <2>4 DEF LoadFails
    <3> QED BY <2>4, <3>2, <3>3
            DEF LoadFails, StreamTypes, StreamTypeOK, WriteTypes, Chunks, worker, stream
  <2> QED BY <1>6, <2>2, <2>3, <2>4 DEF Answer
<1>7. ASSUME NEW s \in Save, SaveCommits(s) PROVE StreamTypes'
  <2>1. PICK n \in Types[s] : Stored(s, n)
    BY <1>7 DEF SaveCommits
  <2>2. n \in Nat \ {0} /\ s \in Writer
    BY <2>1, StreamConstants DEF Writer
  <2>3. revision' \in Nat /\ WriteTypes'
    BY <2>1, <2>2, StoredTypes
  <2>4. mine' = s /\ s # NoSave
    BY <1>7, StreamConstants DEF SaveCommits
  <2> QED BY <1>7, <2>3, <2>4
          DEF SaveCommits, StreamTypes, StreamTypeOK, WriteTypes, stream, seenBy, bounds
<1> QED BY <1>1, <1>2, <1>3, <1>4, <1>5, <1>6, <1>7 DEF PageNext

LEMMA InitStreamTypes == StreamInit => StreamTypes
<1> SUFFICES ASSUME StreamInit PROVE StreamTypes
  OBVIOUS
<1>1. WriteTypes
  BY DEF StreamInit, WriteTypes
<1>2. /\ log = <<>> /\ batch = <<>> /\ wire = <<>> /\ waiting = {} /\ loads = {} /\ told = {}
      /\ mine = NoSave /\ work = "none" /\ overtaken = FALSE
  BY DEF StreamInit
<1>3. log \in Seq([id : Nat, previous : Nat, rev : Nat]) /\ batch \in Seq([id : Nat, previous : Nat, rev : Nat])
  BY <1>2
<1>4. wire \in Seq([id : Nat, rev : Nat])
  BY <1>2
<1>5. /\ revision \in Nat /\ nextId \in Nat /\ known \in Nat /\ position \in Nat
      /\ source = "waiting" /\ status = "SAVED" /\ unread \in Nat /\ purges \in Nat /\ faults \in Nat
  BY DEF StreamInit
<1>6. /\ waiting \subseteq [id : Nat, rev : Nat] /\ told \subseteq Nat
      /\ loads \subseteq [chunk : [id : Nat, rev : Nat], step : {"sent", "read"}, rev : Nat]
  BY <1>2
<1>7. StreamTypeOK
  BY <1>1, <1>2, <1>3, <1>4, <1>5, <1>6, Zenon DEF StreamTypeOK, WriteTypes
<1> QED BY <1>1, <1>7 DEF StreamTypes

LEMMA NextStreamTypes == StreamTypes /\ [StreamNext]_streamVars => StreamTypes'
<1> SUFFICES ASSUME StreamTypes, [StreamNext]_streamVars PROVE StreamTypes'
  OBVIOUS
<1>1. CASE UNCHANGED streamVars
  BY <1>1 DEF streamVars, StreamTypes, StreamTypeOK, WriteTypes, worker, stream, page, seenBy, bounds
<1> QED BY <1>1, WorkerStreamTypes, SourceStreamTypes, PageStreamTypes DEF StreamNext

LEMMA StreamTypesHold == StreamSpec => []StreamTypes
BY InitStreamTypes, NextStreamTypes, PTL DEF StreamSpec

\* The stream's variables have their types, a PUT that appends has an event left.
THEOREM StreamTypeCorrect == StreamSpec => []StreamTypeOK
<1>1. StreamTypes => StreamTypeOK
  BY DEF StreamTypes
<1> QED BY <1>1, StreamTypesHold, PTL

-----------------------------------------------------------------------------
(* CollaborationStream: no event is passed silently                        *)

\* Ids ascend along the log, and no id is ahead of the counter.
Ascending ==
  /\ \A k \in DOMAIN log : log[k].id <= nextId
  /\ \A j, k \in DOMAIN log : j < k => log[j].id < log[k].id

\* Nothing that was read is ahead of the counter.
Passed ==
  /\ position <= nextId
  /\ \A j \in DOMAIN wire : wire[j].id <= nextId
  /\ \A j \in DOMAIN batch : batch[j].id <= nextId

\* The ids the page is told of by a chunk.
Tells(c) == IF c.rev = Reset THEN 0 .. c.id ELSE {c.id}

\* An event up to one that was read has been told or was read before it.
BatchTells ==
  \A k \in DOMAIN log, j \in DOMAIN batch : log[k].id <= batch[j].id =>
    log[k].id \in told \/ \E i \in 1 .. j : log[k].id = batch[i].id
WireTells ==
  \A k \in DOMAIN log, j \in DOMAIN wire : log[k].id <= wire[j].id =>
    log[k].id \in told \/ \E i \in 1 .. j : log[k].id \in Tells(wire[i])

GapInv == Ascending /\ Passed /\ BatchTells /\ WireTells /\ NoSilentGap

LEMMA StreamParts ==
  ASSUME StreamTypes
  PROVE  /\ log \in Seq(Events) /\ batch \in Seq(Events) /\ wire \in Seq(Chunks)
         /\ position \in Nat /\ nextId \in Nat /\ known \in Nat /\ purges \in Nat
         /\ Len(log) \in Nat /\ DOMAIN log = 1 .. Len(log)
         /\ Len(batch) \in Nat /\ DOMAIN batch = 1 .. Len(batch)
         /\ Len(wire) \in Nat /\ DOMAIN wire = 1 .. Len(wire)
         /\ \A k \in DOMAIN log : log[k].id \in Nat
         /\ \A k \in DOMAIN batch : batch[k].id \in Nat
         /\ \A k \in DOMAIN wire : wire[k].id \in Nat
<1>1. /\ log \in Seq(Events) /\ batch \in Seq(Events) /\ wire \in Seq(Chunks)
      /\ position \in Nat /\ nextId \in Nat /\ known \in Nat /\ purges \in Nat
  BY DEF StreamTypes, StreamTypeOK, Events, Chunks
<1>2. /\ Len(log) \in Nat /\ DOMAIN log = 1 .. Len(log) /\ \A k \in 1 .. Len(log) : log[k] \in Events
      /\ Len(batch) \in Nat /\ DOMAIN batch = 1 .. Len(batch) /\ \A k \in 1 .. Len(batch) : batch[k] \in Events
      /\ Len(wire) \in Nat /\ DOMAIN wire = 1 .. Len(wire) /\ \A k \in 1 .. Len(wire) : wire[k] \in Chunks
  BY <1>1
<1>3. (\A e \in Events : e.id \in Nat) /\ \A c \in Chunks : c.id \in Nat
  BY DEF Events, Chunks
<1> QED BY <1>1, <1>2, <1>3

\* The page that is read is a part of the log: what comes right after what has
\* been passed.
LEMMA PageFollows ==
  ASSUME StreamTypes, Ascending, SelectPage
  PROVE  \E m \in 0 .. Len(log) :
           /\ \A k \in 1 .. m : log[k].id <= position
           /\ \A k \in m + 1 .. Len(log) : log[k].id > position
           /\ batch' \in Seq(Events) /\ Len(batch') <= Len(log) - m
           /\ \A j \in 1 .. Len(batch') : batch'[j] = log[m + j]
<1>t. /\ log \in Seq(Events) /\ Len(log) \in Nat /\ DOMAIN log = 1 .. Len(log) /\ position \in Nat
      /\ \A k \in DOMAIN log : log[k].id \in Nat
  BY StreamParts
<1> DEFINE n == Len(log)
           S == {k \in Nat : k = n + 1 \/ (k \in 1 .. n /\ log[k].id > position)}
<1>1. n + 1 \in S /\ S \subseteq Nat
  BY <1>t
<1>2. PICK f \in S : \A k \in S : f <= k
  <2> HIDE DEF S
  <2> QED BY <1>1, LeastElement
<1>3. f \in 1 .. n + 1
  BY <1>t, <1>2
<1> DEFINE m == f - 1
<1>4. m \in 0 .. n /\ m + 1 = f /\ m \in Nat
  BY <1>t, <1>3
<1>5. \A k \in 1 .. m : log[k].id <= position
  <2> SUFFICES ASSUME NEW k \in 1 .. m, ~(log[k].id <= position) PROVE FALSE
    OBVIOUS
  <2>1. k \in 1 .. n /\ k \in Nat /\ k < f
    BY <1>t, <1>3, <1>4
  <2>2. log[k].id > position
    BY <1>t, <2>1
  <2>3. k \in S
    BY <2>1, <2>2
  <2> QED BY <1>2, <1>3, <2>1, <2>3
<1>6. \A k \in m + 1 .. n : log[k].id > position
  <2> SUFFICES ASSUME NEW k \in m + 1 .. n PROVE log[k].id > position
    OBVIOUS
  <2>1. f \in 1 .. n /\ log[f].id > position
    BY <1>t, <1>2, <1>3, <1>4
  <2>2. f = k \/ f < k
    BY <1>4
  <2>4. k \in DOMAIN log /\ f \in DOMAIN log
    BY <1>t, <1>4, <2>1
  <2>3. log[f].id <= log[k].id
    <3>1. CASE f = k
      BY <1>t, <2>4, <3>1
    <3>2. CASE f < k
      <4>1. log[f].id < log[k].id
        BY <2>4, <3>2 DEF Ascending
      <4> QED BY <1>t, <2>4, <4>1
    <3> QED BY <2>2, <3>1, <3>2
  <2> QED BY <1>t, <2>1, <2>3, <2>4
<1> HIDE DEF m
<1>7. {k \in DOMAIN log : log[k].id > position} = m + 1 .. Len(log)
  <2>1. \A k \in DOMAIN log : k \in m + 1 .. Len(log) <=> log[k].id > position
    <3> SUFFICES ASSUME NEW k \in DOMAIN log PROVE k \in m + 1 .. Len(log) <=> log[k].id > position
      OBVIOUS
    <3>1. k \in 1 .. m \/ k \in m + 1 .. Len(log)
      BY <1>t, <1>4
    <3>2. k \in 1 .. m => k \notin m + 1 .. Len(log) /\ ~(log[k].id > position)
      BY <1>t, <1>4, <1>5
    <3> QED BY <1>6, <3>1, <3>2
  <2>2. m + 1 .. Len(log) \subseteq DOMAIN log
    BY <1>t, <1>4
  <2> QED BY <2>1, <2>2
<1> DEFINE later == Keep(log, {k \in DOMAIN log : log[k].id > position})
           size  == IF Len(later) > PageSize THEN PageSize ELSE Len(later)
<1>8. later \in Seq(Events) /\ Len(later) = n - m /\ \A j \in 1 .. n - m : later[j] = log[m + j]
  <2>1. later \in Seq(Events)
    BY <1>t, KeepType
  <2>2. m \in 0 .. Len(log)
    BY <1>4
  <2>3. /\ Len(Keep(log, m + 1 .. Len(log))) = Len(log) - m
        /\ \A j \in 1 .. Len(log) - m : Keep(log, m + 1 .. Len(log))[j] = log[m + j]
    BY <1>t, <2>2, KeepRest
  <2> QED BY <1>7, <2>1, <2>3
<1>9. batch' = SubSeq(later, 1, size)
  BY DEF SelectPage
<1> HIDE DEF later
<1>10. size \in Nat /\ size <= n - m
  BY <1>t, <1>4, <1>8, StreamConstants
<1> HIDE DEF size
<1>11. /\ Len(batch') = size /\ \A j \in 1 .. size : batch'[j] = later[j]
  <2>1. Len(later) \in Nat /\ size <= Len(later) /\ size \in Nat
    BY <1>8, <1>10
  <2> QED BY <1>8, <1>9, <2>1
<1>12. \A j \in 1 .. size : batch'[j] = log[m + j]
  <2>1. \A j \in 1 .. size : j \in 1 .. n - m
    BY <1>t, <1>4, <1>10
  <2> QED BY <1>8, <1>11, <2>1
<1>13. batch' \in Seq(Events)
  BY <1>t, PageType DEF SelectPage
<1> QED BY <1>t, <1>4, <1>5, <1>6, <1>10, <1>11, <1>12, <1>13

\* A row that is appended has an id of its own, ahead of all that was read.
LEMMA AppendedRow ==
  ASSUME StreamTypes, NEW w \in Writer, AppendEvent(w)
  PROVE  /\ nextId' \in Nat /\ nextId' > nextId /\ Len(log') = Len(log) + 1
         /\ DOMAIN log' = 1 .. Len(log) + 1
         /\ \A k \in DOMAIN log : log'[k] = log[k]
         /\ log'[Len(log) + 1] = [id |-> nextId', previous |-> MaxId, rev |-> write[w].rev]
<1>1. Stride \in Nat \ {0}
  BY StreamConstants
<1>2. log \in Seq(Events) /\ nextId \in Nat /\ nextId' = nextId + Stride
      /\ log' = Append(log, [id |-> nextId', previous |-> MaxId, rev |-> write[w].rev])
  BY StreamParts DEF AppendEvent
<1> QED BY <1>1, <1>2

LEMMA AppendGap ==
  ASSUME StreamTypes, GapInv, NEW w \in Writer, AppendEvent(w)
  PROVE  GapInv'
<1> DEFINE n == Len(log)
<1>t. /\ n \in Nat /\ DOMAIN log = 1 .. n /\ position \in Nat /\ nextId \in Nat
      /\ (\A k \in DOMAIN log : log[k].id \in Nat) /\ (\A k \in DOMAIN batch : batch[k].id \in Nat)
      /\ \A k \in DOMAIN wire : wire[k].id \in Nat
  BY StreamParts
<1>0. log'[n + 1] = [id |-> nextId', previous |-> MaxId, rev |-> write[w].rev]
  BY AppendedRow
<1>1. /\ nextId' \in Nat /\ nextId' > nextId /\ DOMAIN log' = 1 .. n + 1
      /\ (\A k \in DOMAIN log : log'[k] = log[k]) /\ log'[n + 1].id = nextId'
  BY <1>0, AppendedRow
<1>2. UNCHANGED <<wire, batch, position, told>>
  BY DEF AppendEvent, stream, seenBy
<1>3. \A k \in DOMAIN log' : \/ k \in DOMAIN log /\ log'[k].id = log[k].id /\ log[k].id <= nextId
                             \/ k = n + 1 /\ log'[k].id = nextId'
  BY <1>t, <1>1 DEF GapInv, Ascending
<1> HIDE DEF n
<1>4. Ascending'
  <2>1. \A k \in DOMAIN log' : log'[k].id <= nextId'
    BY <1>t, <1>1, <1>3
  <2>2. ASSUME NEW j \in DOMAIN log', NEW k \in DOMAIN log', j < k PROVE log'[j].id < log'[k].id
    <3>1. CASE k \in DOMAIN log
      <4>1. j \in DOMAIN log
        BY <1>t, <1>1, <2>2, <3>1
      <4> QED BY <1>1, <2>2, <3>1, <4>1 DEF GapInv, Ascending
    <3>2. CASE k = n + 1
      <4>1. j \in DOMAIN log
        BY <1>t, <1>1, <2>2, <3>2
      <4>2. log'[j].id = log[j].id /\ log[j].id <= nextId /\ log[j].id \in Nat
        BY <1>t, <1>1, <4>1 DEF GapInv, Ascending
      <4> QED BY <1>t, <1>1, <3>2, <4>2
    <3> QED BY <1>3, <3>1, <3>2
  <2> QED BY <2>1, <2>2 DEF Ascending
<1>5. Passed'
  BY <1>t, <1>1, <1>2 DEF GapInv, Passed
<1>6. BatchTells'
  BY <1>t, <1>1, <1>2, <1>3 DEF GapInv, Passed, BatchTells
<1>7. WireTells'
  <2> SUFFICES ASSUME NEW k \in DOMAIN log', NEW j \in DOMAIN wire, log'[k].id <= wire[j].id
               PROVE  log'[k].id \in told \/ \E i \in 1 .. j : log'[k].id \in Tells(wire[i])
    BY <1>2 DEF WireTells, Tells
  <2>1. wire[j].id <= nextId /\ wire[j].id \in Nat
    BY <1>t DEF GapInv, Passed
  <2>2. k \in DOMAIN log /\ log'[k].id = log[k].id
    BY <1>t, <1>1, <1>3, <2>1
  <2> QED BY <2>2 DEF GapInv, WireTells
<1>8. NoSilentGap'
  BY <1>t, <1>1, <1>2, <1>3 DEF GapInv, Passed, NoSilentGap
<1> QED BY <1>4, <1>5, <1>6, <1>7, <1>8 DEF GapInv

LEMMA PurgeGap ==
  ASSUME StreamTypes, GapInv, PurgeProject
  PROVE  GapInv'
<1>1. DOMAIN log' = {} /\ UNCHANGED <<nextId, wire, batch, position, told>>
  BY DEF PurgeProject, stream, seenBy
<1> QED BY <1>1 DEF GapInv, Ascending, Passed, BatchTells, WireTells, NoSilentGap

LEMMA PageGap ==
  ASSUME StreamTypes, GapInv, SelectPage
  PROVE  GapInv'
<1>t. /\ Len(log) \in Nat /\ DOMAIN log = 1 .. Len(log) /\ position \in Nat /\ nextId \in Nat
      /\ \A k \in DOMAIN log : log[k].id \in Nat
  BY StreamParts
<1>1. UNCHANGED <<log, nextId, wire, position, told>>
  BY DEF SelectPage, worker, seenBy
<1>2. PICK m \in 0 .. Len(log) :
        /\ \A k \in 1 .. m : log[k].id <= position
        /\ batch' \in Seq(Events) /\ Len(batch') <= Len(log) - m
        /\ \A j \in 1 .. Len(batch') : batch'[j] = log[m + j]
  BY PageFollows DEF GapInv
<1>3. m \in Nat /\ Len(batch') \in Nat /\ DOMAIN batch' = 1 .. Len(batch')
  BY <1>t, <1>2
<1>4. \A j \in DOMAIN batch' : m + j \in DOMAIN log /\ batch'[j].id = log[m + j].id
  BY <1>t, <1>2, <1>3
<1>5. Passed'
  BY <1>1, <1>4 DEF GapInv, Passed, Ascending
<1>6. BatchTells'
  <2> SUFFICES ASSUME NEW k \in DOMAIN log, NEW j \in DOMAIN batch', log[k].id <= batch'[j].id
               PROVE  log[k].id \in told \/ \E i \in 1 .. j : log[k].id = batch'[i].id
    BY <1>1 DEF BatchTells
  <2>1. CASE k \in 1 .. m
    BY <1>2, <2>1 DEF GapInv, NoSilentGap
  <2>2. CASE k \notin 1 .. m
    <3>1. k <= m + j
      <4> SUFFICES ASSUME ~(k <= m + j) PROVE FALSE
        OBVIOUS
      <4>1. log[m + j].id < log[k].id
        BY <1>t, <1>3, <1>4 DEF GapInv, Ascending
      <4> QED BY <1>t, <1>4, <4>1
    <3>2. k - m \in 1 .. j /\ m + (k - m) = k
      BY <1>t, <1>3, <2>2, <3>1
    <3>3. k - m \in DOMAIN batch'
      BY <1>3, <3>2
    <3> QED BY <1>4, <3>2, <3>3
  <2> QED BY <2>1, <2>2
<1>7. Ascending' /\ WireTells' /\ NoSilentGap'
  BY <1>1 DEF GapInv, Ascending, WireTells, NoSilentGap, Tells
<1> QED BY <1>5, <1>6, <1>7 DEF GapInv

\* The last id of the log is its greatest.
LEMMA MaxIdLast ==
  ASSUME StreamTypes, Ascending
  PROVE  /\ MaxId \in Nat /\ MaxId <= nextId
         /\ \A k \in DOMAIN log : log[k].id <= MaxId
         /\ log # <<>> => Len(log) \in DOMAIN log /\ MaxId = log[Len(log)].id
<1>t. /\ log \in Seq(Events) /\ Len(log) \in Nat /\ DOMAIN log = 1 .. Len(log) /\ nextId \in Nat
      /\ \A k \in DOMAIN log : log[k].id \in Nat
  BY StreamParts
<1>1. CASE log = <<>>
  BY <1>1, <1>t DEF MaxId
<1>2. CASE log # <<>>
  <2>1. Len(log) \in DOMAIN log /\ MaxId = log[Len(log)].id
    BY <1>t, <1>2 DEF MaxId, Last
  <2>2. ASSUME NEW k \in DOMAIN log PROVE log[k].id <= MaxId
    <3>1. k = Len(log) \/ k < Len(log)
      BY <1>t
    <3>2. log[k].id = MaxId \/ log[k].id < MaxId
      BY <2>1, <3>1 DEF Ascending
    <3> QED BY <1>t, <2>1, <3>2
  <2> QED BY <1>t, <1>2, <2>1, <2>2 DEF Ascending
<1> QED BY <1>1, <1>2

\* The answer is the page, after a reset if something was missed.
LEMMA CursorAnswer ==
  ASSUME StreamTypes, SelectCursor
  PROVE  LET r == IF Missed(MaxId) THEN 1 ELSE 0
         IN  /\ Len(wire') = r + Len(batch) /\ DOMAIN wire' = 1 .. r + Len(batch)
             /\ \A j \in 1 .. Len(batch) : wire'[r + j] = Chunk(batch[j])
             /\ r = 1 => wire'[1] = ResetChunk(MaxId)
             /\ batch' = <<>>
<1>t. batch \in Seq(Events) /\ Len(batch) \in Nat /\ DOMAIN batch = 1 .. Len(batch)
  BY StreamParts
<1> DEFINE chunks == [k \in DOMAIN batch |-> Chunk(batch[k])]
           any    == {Chunk(batch[k]) : k \in DOMAIN batch} \cup {ResetChunk(MaxId)}
<1>1. chunks \in Seq(any) /\ Len(chunks) = Len(batch)
      /\ \A k \in 1 .. Len(batch) : chunks[k] = Chunk(batch[k])
  <2>1. \A k \in 1 .. Len(batch) : Chunk(batch[k]) \in any
    BY <1>t
  <2> HIDE DEF any
  <2>2. chunks = [k \in 1 .. Len(batch) |-> Chunk(batch[k])]
    BY <1>t
  <2> QED BY <1>t, <2>1, <2>2
<1>2. <<ResetChunk(MaxId)>> \in Seq(any) /\ <<>> \in Seq(any)
  OBVIOUS
<1>3. wire' = (IF Missed(MaxId) THEN <<ResetChunk(MaxId)>> ELSE <<>>) \o chunks /\ batch' = <<>>
  BY DEF SelectCursor
<1> HIDE DEF chunks, any
<1>4. CASE Missed(MaxId)
  <2>1. wire' = <<ResetChunk(MaxId)>> \o chunks
    BY <1>3, <1>4
  <2>2. Len(wire') = 1 + Len(batch) /\ DOMAIN wire' = 1 .. 1 + Len(batch)
    BY <1>t, <1>1, <1>2, <2>1
  <2>3. wire'[1] = ResetChunk(MaxId)
    BY <1>t, <1>1, <1>2, <2>1
  <2>4. \A j \in 1 .. Len(batch) : wire'[1 + j] = chunks[j]
    BY <1>t, <1>1, <1>2, <2>1
  <2> QED BY <1>1, <1>3, <1>4, <2>2, <2>3, <2>4
<1>5. CASE ~Missed(MaxId)
  <2>1. wire' = chunks
    BY <1>1, <1>3, <1>5
  <2>2. \A j \in 1 .. Len(batch) : 0 + j = j
    BY <1>t
  <2>3. 0 + Len(batch) = Len(batch) /\ DOMAIN chunks = 1 .. Len(batch)
    BY <1>t, <1>1
  <2> QED BY <1>1, <1>3, <1>5, <2>1, <2>2, <2>3
<1> QED BY <1>4, <1>5

LEMMA ChunkParts == \A e : Chunk(e).id = e.id /\ Chunk(e).rev = e.rev
BY DEF Chunk

LEMMA CursorGap ==
  ASSUME StreamTypes, GapInv, SelectCursor
  PROVE  GapInv'
<1> DEFINE r == IF Missed(MaxId) THEN 1 ELSE 0
<1>t. /\ Len(batch) \in Nat /\ DOMAIN batch = 1 .. Len(batch) /\ nextId \in Nat /\ r \in {0, 1}
      /\ (\A k \in DOMAIN log : log[k].id \in Nat) /\ \A k \in DOMAIN batch : batch[k].id \in Nat
  BY StreamParts
<1>m. /\ MaxId \in Nat /\ MaxId <= nextId
      /\ \A k \in DOMAIN log : log[k].id <= MaxId
  BY MaxIdLast DEF GapInv
<1>1. UNCHANGED <<log, nextId, position, told>> /\ DOMAIN batch' = {}
  BY DEF SelectCursor, worker, seenBy
<1>2. /\ DOMAIN wire' = 1 .. r + Len(batch)
      /\ \A j \in 1 .. Len(batch) : wire'[r + j] = Chunk(batch[j])
      /\ r = 1 => wire'[1] = ResetChunk(MaxId)
  BY CursorAnswer
<1> HIDE DEF r
<1>3. \A j \in DOMAIN wire' : \/ r = 1 /\ j = 1 /\ wire'[j] = ResetChunk(MaxId)
                              \/ /\ j - r \in DOMAIN batch /\ r + (j - r) = j
                                 /\ wire'[j] = Chunk(batch[j - r])
  <2> SUFFICES ASSUME NEW j \in DOMAIN wire', ~(r = 1 /\ j = 1)
               PROVE  j - r \in 1 .. Len(batch) /\ r + (j - r) = j
    BY <1>t, <1>2
  <2> QED BY <1>t, <1>2
<1>4. Passed'
  BY <1>m, <1>1, <1>3 DEF GapInv, Passed, Chunk, ResetChunk
<1>5. WireTells'
  <2> SUFFICES ASSUME NEW k \in DOMAIN log, NEW j \in DOMAIN wire', log[k].id <= wire'[j].id
               PROVE  log[k].id \in told \/ \E i \in 1 .. j : log[k].id \in Tells(wire'[i])
    BY <1>1 DEF WireTells, Tells
  <2>1. CASE r = 1
    <3>1. 1 \in 1 .. j /\ wire'[1] = ResetChunk(MaxId)
      BY <1>t, <1>2, <2>1
    <3>2. log[k].id \in Tells(wire'[1])
      BY <1>t, <1>m, <3>1 DEF Tells, ResetChunk
    <3> QED BY <3>1, <3>2
  <2>2. CASE r = 0
    <3>1. j \in DOMAIN batch /\ \A i \in 1 .. j : i \in DOMAIN batch /\ wire'[i] = Chunk(batch[i])
      BY <1>t, <1>2, <2>2
    <3>4. wire'[j].id = batch[j].id
      <4>1. j \in 1 .. j
        BY <1>t, <3>1
      <4> QED BY <3>1, <4>1, ChunkParts
    <3>2. log[k].id \in told \/ \E i \in 1 .. j : log[k].id = batch[i].id
      BY <3>1, <3>4 DEF GapInv, BatchTells
    <3>3. \A i \in 1 .. j : batch[i].id \in Tells(wire'[i])
      <4> SUFFICES ASSUME NEW i \in 1 .. j PROVE batch[i].id \in Tells(wire'[i])
        OBVIOUS
      <4>1. wire'[i].id = batch[i].id /\ batch[i].id \in Nat
        BY <1>t, <3>1, ChunkParts
      <4> QED BY <4>1 DEF Tells
    <3> QED BY <3>2, <3>3
  <2> QED BY <1>t, <2>1, <2>2
<1>6. Ascending' /\ BatchTells' /\ NoSilentGap'
  BY <1>1 DEF GapInv, Ascending, BatchTells, NoSilentGap
<1> QED BY <1>4, <1>5, <1>6 DEF GapInv

\* A connection that is lost takes with it what was read.
LEMMA CutGap ==
  ASSUME StreamTypes, GapInv, Cut
  PROVE  GapInv'
<1>1. /\ UNCHANGED <<log, nextId, position, told>> /\ DOMAIN batch' = {} /\ DOMAIN wire' = {}
  BY DEF Cut, worker, seenBy
<1> QED BY <1>1 DEF GapInv, Ascending, Passed, BatchTells, WireTells, NoSilentGap

LEMMA DeliverGap ==
  ASSUME StreamTypes, GapInv, Deliver
  PROVE  GapInv'
<1>t. /\ wire \in Seq(Chunks) /\ Len(wire) \in Nat /\ DOMAIN wire = 1 .. Len(wire)
      /\ (\A k \in DOMAIN log : log[k].id \in Nat) /\ \A k \in DOMAIN wire : wire[k].id \in Nat
  BY StreamParts
<1>1. /\ UNCHANGED <<log, nextId, batch>> /\ wire # <<>>
      /\ wire' = Tail(wire) /\ position' = wire[1].id
      /\ told' = told \cup (IF wire[1].rev = Reset THEN 0 .. wire[1].id ELSE {wire[1].id})
  BY DEF Deliver, Receive, worker
<1>2. told' = told \cup Tells(wire[1])
  BY <1>1 DEF Tells
<1>3. /\ 1 \in DOMAIN wire /\ DOMAIN wire' = 1 .. Len(wire) - 1
      /\ \A j \in DOMAIN wire' : wire'[j] = wire[j + 1] /\ j + 1 \in DOMAIN wire
  BY <1>t, <1>1
<1>4. Passed'
  BY <1>1, <1>3 DEF GapInv, Passed
<1>5. WireTells'
  <2> SUFFICES ASSUME NEW k \in DOMAIN log, NEW j \in DOMAIN wire', log[k].id <= wire'[j].id,
                      log[k].id \notin told'
               PROVE  \E i \in 1 .. j : log[k].id \in Tells(wire'[i])
    BY <1>1 DEF WireTells, Tells
  <2>1. log[k].id \notin told /\ log[k].id \notin Tells(wire[1])
    BY <1>2
  <2>2. PICK i \in 1 .. j + 1 : log[k].id \in Tells(wire[i])
    BY <1>3, <2>1 DEF GapInv, WireTells
  <2>3. i # 1
    BY <2>1, <2>2
  <2>4. i - 1 \in 1 .. j /\ i - 1 \in DOMAIN wire' /\ (i - 1) + 1 = i
    BY <1>t, <1>3, <2>2, <2>3
  <2>5. wire'[i - 1] = wire[i]
    BY <1>3, <2>4
  <2> QED BY <2>2, <2>4, <2>5
<1>6. NoSilentGap'
  <2> SUFFICES ASSUME NEW k \in DOMAIN log, log[k].id <= wire[1].id PROVE log[k].id \in told'
    BY <1>1 DEF NoSilentGap
  <2>1. log[k].id \in told \/ \E i \in 1 .. 1 : log[k].id \in Tells(wire[i])
    BY <1>3 DEF GapInv, WireTells
  <2>2. \A i \in 1 .. 1 : i = 1
    OBVIOUS
  <2> QED BY <1>2, <2>1, <2>2
<1>7. Ascending' /\ BatchTells'
  BY <1>1 DEF GapInv, Ascending, BatchTells
<1> QED BY <1>4, <1>5, <1>6, <1>7 DEF GapInv

\* Every other step leaves the log, and what was read of it, alone.
LEMMA OtherSteps ==
  ASSUME [StreamNext]_streamVars
  PROVE  \/ \E w \in Writer : AppendEvent(w)
         \/ PurgeProject \/ SelectPage \/ SelectCursor \/ Cut \/ Deliver
         \/ UNCHANGED <<log, nextId, wire, batch, position, told, purges>>
<1>1. CASE WorkerNext
  BY <1>1 DEF WorkerNext, CommitPut, AppendFails, stream, seenBy, bounds
<1>2. CASE SourceNext
  BY <1>2 DEF SourceNext, Connect, Refuse, StreamEnds, worker, seenBy, bounds
<1>3. ASSUME PageNext, ~Deliver PROVE UNCHANGED <<log, nextId, wire, batch, position, told, purges>>
  <2>1. CASE EditPage \/ SaveDone \/ SaveFails \/ SaveLost
    BY <2>1 DEF EditPage, SaveDone, SaveFails, SaveLost, worker, stream, seenBy, bounds
  <2>2. ASSUME NEW c, Again(c) PROVE UNCHANGED <<log, nextId, wire, batch, position, told, purges>>
    BY <2>2 DEF Again, worker, stream, bounds
  <2>3. ASSUME NEW l, Answer(l) \/ LoadFails(l)
        PROVE  UNCHANGED <<log, nextId, wire, batch, position, told, purges>>
    BY <2>3 DEF Answer, LoadRead, LoadDone, LoadFails, worker, stream, seenBy, bounds
  <2>4. ASSUME NEW s, SaveCommits(s) PROVE UNCHANGED <<log, nextId, wire, batch, position, told, purges>>
    BY <2>4 DEF SaveCommits, stream, seenBy, bounds
  <2> QED BY <1>3, <2>1, <2>2, <2>3, <2>4 DEF PageNext
<1>4. CASE UNCHANGED streamVars
  BY <1>4 DEF streamVars, worker, stream, seenBy, bounds
<1> QED BY <1>1, <1>2, <1>3, <1>4 DEF StreamNext

LEMMA NextGap == StreamTypes /\ GapInv /\ [StreamNext]_streamVars => GapInv'
<1> SUFFICES ASSUME StreamTypes, GapInv, [StreamNext]_streamVars PROVE GapInv'
  OBVIOUS
<1>1. CASE UNCHANGED <<log, nextId, wire, batch, position, told, purges>>
  <2>1. Ascending' /\ Passed' /\ NoSilentGap'
    BY <1>1 DEF GapInv, Ascending, Passed, NoSilentGap
  <2>2. BatchTells'
    BY <1>1 DEF GapInv, BatchTells
  <2>3. WireTells'
    BY <1>1 DEF GapInv, WireTells, Tells
  <2> QED BY <2>1, <2>2, <2>3 DEF GapInv
<1> QED BY <1>1, OtherSteps, AppendGap, PurgeGap, PageGap, CursorGap, CutGap, DeliverGap

LEMMA InitGap == StreamInit => GapInv
BY DEF StreamInit, GapInv, Ascending, Passed, BatchTells, WireTells, NoSilentGap

LEMMA GapHolds == StreamSpec => []GapInv
BY InitGap, NextGap, StreamTypesHold, PTL DEF StreamSpec

\* Whatever the pages, the other Projects' ids and the connections that are lost:
\* the position a page resumes from never passes an event it was not told of.
THEOREM GapsAreTold == StreamSpec => []NoSilentGap
<1>1. GapInv => NoSilentGap
  BY DEF GapInv
<1> QED BY <1>1, GapHolds, PTL

-----------------------------------------------------------------------------
(* CollaborationStream: resets                                             *)

\* A row has the id before it, and a revision.
Chained ==
  \A k \in DOMAIN log : /\ log[k].previous = IF k = 1 THEN 0 ELSE log[k - 1].id
                        /\ log[k].rev # Reset

\* Before the first purge all that was read is in the log, and a page that is read
\* begins where the position is.
Read ==
  /\ position = 0 \/ \E k \in DOMAIN log : log[k].id = position
  /\ \A j \in DOMAIN batch : \E k \in DOMAIN log : log[k].id = batch[j].id
  /\ \A j \in DOMAIN batch : batch[j].rev # Reset
  /\ batch # <<>> /\ position > 0 => batch[1].previous = position
  /\ \A j \in DOMAIN wire : \E k \in DOMAIN log : log[k].id = wire[j].id
  /\ \A j \in DOMAIN wire : wire[j].rev # Reset

Rested == source # "paged" => batch = <<>>

ResetInv == Chained /\ Rested /\ (purges = 0 => Read)

LEMMA AppendReset ==
  ASSUME StreamTypes, GapInv, ResetInv, NEW w \in Writer, AppendEvent(w)
  PROVE  ResetInv'
<1> DEFINE n == Len(log)
<1>t. log \in Seq(Events) /\ n \in Nat /\ DOMAIN log = 1 .. n
  BY StreamParts
<1>0. log'[n + 1] = [id |-> nextId', previous |-> MaxId, rev |-> write[w].rev]
  BY AppendedRow
<1>1. /\ DOMAIN log' = 1 .. n + 1 /\ (\A k \in DOMAIN log : log'[k] = log[k])
      /\ log'[n + 1].previous = MaxId /\ log'[n + 1].rev = write[w].rev
  BY <1>0, AppendedRow
<1>2. UNCHANGED <<wire, batch, source, position, purges>>
  BY DEF AppendEvent, stream, bounds
<1>3. write[w].rev # Reset
  BY DEF AppendEvent, StreamTypes, WriteTypes, Reset
<1>4. MaxId = IF n + 1 = 1 THEN 0 ELSE log[(n + 1) - 1].id
  <2>1. log = <<>> <=> n = 0
    BY <1>t
  <2>2. (n + 1) - 1 = n /\ (n + 1 = 1 <=> n = 0)
    BY <1>t
  <2>3. n # 0 => MaxId = log[n].id
    BY <2>1, MaxIdLast DEF GapInv
  <2>4. n = 0 => MaxId = 0
    BY <2>1 DEF MaxId
  <2> QED BY <2>2, <2>3, <2>4
<1> HIDE DEF n
<1>5. Chained'
  <2> SUFFICES ASSUME NEW k \in DOMAIN log'
               PROVE  /\ log'[k].previous = IF k = 1 THEN 0 ELSE log'[k - 1].id
                      /\ log'[k].rev # Reset
    BY DEF Chained
  <2>1. k # 1 => k - 1 \in DOMAIN log
    BY <1>t, <1>1
  <2>2. CASE k \in DOMAIN log
    BY <1>1, <2>1, <2>2 DEF ResetInv, Chained
  <2>3. CASE k = n + 1
    BY <1>1, <1>3, <1>4, <2>1, <2>3
  <2>4. k \in DOMAIN log \/ k = n + 1
    BY <1>t, <1>1
  <2> QED BY <2>2, <2>3, <2>4
<1>6. DOMAIN log \subseteq DOMAIN log'
  BY <1>t, <1>1
<1>7. purges' = 0 => Read'
  BY <1>1, <1>2, <1>6 DEF ResetInv, Read
<1> QED BY <1>2, <1>5, <1>7 DEF ResetInv, Rested

LEMMA PurgeReset ==
  ASSUME StreamTypes, ResetInv, PurgeProject
  PROVE  ResetInv'
<1>1. purges \in Nat /\ purges' = purges + 1
  BY StreamParts DEF PurgeProject
<1>2. purges' # 0
  BY <1>1
<1>3. DOMAIN log' = {} /\ UNCHANGED <<source, batch>>
  BY DEF PurgeProject, stream
<1> QED BY <1>2, <1>3 DEF ResetInv, Chained, Rested

\* The first event of a page is the one after the position.
LEMMA PageReset ==
  ASSUME StreamTypes, GapInv, ResetInv, SelectPage
  PROVE  ResetInv'
<1>t. /\ Len(log) \in Nat /\ DOMAIN log = 1 .. Len(log) /\ position \in Nat
      /\ \A k \in DOMAIN log : log[k].id \in Nat
  BY StreamParts
<1>1. UNCHANGED <<log, wire, position, purges>> /\ source' = "paged"
  BY DEF SelectPage, worker, bounds
<1>2. PICK m \in 0 .. Len(log) :
        /\ \A k \in 1 .. m : log[k].id <= position
        /\ \A k \in m + 1 .. Len(log) : log[k].id > position
        /\ batch' \in Seq(Events) /\ Len(batch') <= Len(log) - m
        /\ \A j \in 1 .. Len(batch') : batch'[j] = log[m + j]
  BY PageFollows DEF GapInv
<1>3. m \in Nat /\ Len(batch') \in Nat /\ DOMAIN batch' = 1 .. Len(batch')
  BY <1>t, <1>2
<1>4. \A j \in DOMAIN batch' : m + j \in DOMAIN log /\ batch'[j] = log[m + j]
  BY <1>t, <1>2, <1>3
<1>5. ASSUME purges = 0, batch' # <<>>, position > 0 PROVE batch'[1].previous = position
  <2>1. PICK p \in DOMAIN log : log[p].id = position
    BY <1>5 DEF ResetInv, Read
  <2>2. p \in 1 .. m
    BY <1>t, <1>2, <1>3, <2>1
  <2>3. p = m
    <3> SUFFICES ASSUME p < m PROVE FALSE
      BY <1>3, <2>2
    <3>1. m \in DOMAIN log /\ m \in 1 .. m
      BY <1>t, <1>3, <2>2
    <3>2. log[p].id < log[m].id /\ log[m].id <= position
      BY <1>2, <3>1 DEF GapInv, Ascending
    <3> QED BY <1>t, <2>1, <3>1, <3>2
  <2>4. 1 \in DOMAIN batch'
    BY <1>2, <1>3, <1>5
  <2>5. batch'[1] = log[m + 1] /\ m + 1 \in DOMAIN log
    BY <1>4, <2>4
  <2>6. m + 1 # 1 /\ (m + 1) - 1 = m
    BY <1>3, <2>2
  <2> QED BY <2>1, <2>3, <2>5, <2>6 DEF ResetInv, Chained
<1>6. purges = 0 => Read'
  BY <1>1, <1>4, <1>5 DEF ResetInv, Read, Chained
<1> QED BY <1>1, <1>6 DEF ResetInv, Rested, Chained

\* Before the first purge nothing is missed: there is no reset.
LEMMA CursorReset ==
  ASSUME StreamTypes, GapInv, ResetInv, SelectCursor
  PROVE  ResetInv'
<1>t. /\ Len(batch) \in Nat /\ DOMAIN batch = 1 .. Len(batch) /\ position \in Nat
      /\ \A k \in DOMAIN log : log[k].id \in Nat
  BY StreamParts
<1>m. MaxId \in Nat /\ \A k \in DOMAIN log : log[k].id <= MaxId
  BY MaxIdLast DEF GapInv
<1>1. UNCHANGED <<log, position, purges>> /\ batch' = <<>>
  BY DEF SelectCursor, worker, bounds
<1>2. ASSUME purges = 0 PROVE Read'
  <2>1. Read
    BY <1>2 DEF ResetInv
  <2>2. position <= MaxId
    BY <1>t, <1>m, <2>1 DEF Read
  <2>3. ~Missed(MaxId)
    BY <1>t, <1>m, <2>1, <2>2 DEF Missed, Read
  <2>4. DOMAIN wire' = 1 .. 0 + Len(batch) /\ \A j \in 1 .. Len(batch) : wire'[0 + j] = Chunk(batch[j])
    BY <2>3, CursorAnswer
  <2>5. \A j \in DOMAIN wire' : j \in DOMAIN batch /\ wire'[j] = Chunk(batch[j])
    BY <1>t, <2>4
  <2>6. \A j \in DOMAIN wire' : wire'[j].id = batch[j].id /\ wire'[j].rev = batch[j].rev
    BY <2>5 DEF Chunk
  <2>7. DOMAIN batch' = {}
    BY <1>1
  <2> QED BY <1>1, <2>1, <2>5, <2>6, <2>7 DEF Read
<1> QED BY <1>1, <1>2 DEF ResetInv, Rested, Chained

LEMMA CutReset ==
  ASSUME StreamTypes, ResetInv, Cut
  PROVE  ResetInv'
<1>1. UNCHANGED <<log, position, purges>> /\ batch' = <<>> /\ wire' = <<>>
  BY DEF Cut, worker
<1> QED BY <1>1 DEF ResetInv, Chained, Rested, Read

LEMMA DeliverReset ==
  ASSUME StreamTypes, ResetInv, Deliver
  PROVE  ResetInv'
<1>t. wire \in Seq(Chunks) /\ Len(wire) \in Nat /\ DOMAIN wire = 1 .. Len(wire)
  BY StreamParts
<1>1. /\ UNCHANGED <<log, batch, source, purges>> /\ wire # <<>> /\ source = "open"
      /\ wire' = Tail(wire) /\ position' = wire[1].id
  BY DEF Deliver, Receive, worker, bounds
<1>2. 1 \in DOMAIN wire /\ \A j \in DOMAIN wire' : wire'[j] = wire[j + 1] /\ j + 1 \in DOMAIN wire
  BY <1>t, <1>1
<1>3. batch = <<>>
  BY <1>1 DEF ResetInv, Rested
<1> QED BY <1>1, <1>2, <1>3 DEF ResetInv, Chained, Rested, Read

\* A page is in hand between the two reads of an answer only.
LEMMA RestedStep ==
  ASSUME Rested, [StreamNext]_streamVars
  PROVE  Rested'
<1>1. CASE WorkerNext
  <2>1. UNCHANGED stream
    BY <1>1 DEF WorkerNext, CommitPut, AppendEvent, AppendFails, PurgeProject
  <2> QED BY <2>1 DEF stream, Rested
<1>2. CASE SourceNext
  BY <1>2 DEF SourceNext, Connect, SelectPage, SelectCursor, Refuse, StreamEnds, Cut, Rested
<1>3. CASE PageNext
  <2>1. CASE Deliver
    BY <2>1 DEF Deliver, Receive, Rested
  <2>2. CASE EditPage \/ SaveDone \/ SaveFails \/ SaveLost
    BY <2>2 DEF EditPage, SaveDone, SaveFails, SaveLost, stream, Rested
  <2>3. ASSUME NEW c, Again(c) PROVE Rested'
    BY <2>3 DEF Again, stream, Rested
  <2>4. ASSUME NEW l, Answer(l) \/ LoadFails(l) PROVE Rested'
    BY <2>4 DEF Answer, LoadRead, LoadDone, LoadFails, stream, Rested
  <2>5. ASSUME NEW s, SaveCommits(s) PROVE Rested'
    BY <2>5 DEF SaveCommits, stream, Rested
  <2> QED BY <1>3, <2>1, <2>2, <2>3, <2>4, <2>5 DEF PageNext
<1>4. CASE UNCHANGED streamVars
  BY <1>4 DEF streamVars, stream, Rested
<1> QED BY <1>1, <1>2, <1>3, <1>4 DEF StreamNext

LEMMA NextReset == StreamTypes /\ GapInv /\ ResetInv /\ [StreamNext]_streamVars => ResetInv'
<1> SUFFICES ASSUME StreamTypes, GapInv, ResetInv, [StreamNext]_streamVars PROVE ResetInv'
  OBVIOUS
<1>1. CASE UNCHANGED <<log, nextId, wire, batch, position, told, purges>>
  <2>1. Rested'
    BY RestedStep DEF ResetInv
  <2> QED BY <1>1, <2>1 DEF ResetInv, Chained, Read
<1> QED BY <1>1, OtherSteps, AppendReset, PurgeReset, PageReset, CursorReset, CutReset, DeliverReset

LEMMA InitReset == StreamInit => ResetInv
BY DEF StreamInit, ResetInv, Chained, Rested, Read

\* While the Project's events are all there no reset is sent, whatever is appended
\* between the two reads of an answer and wherever a connection ends.
THEOREM ResetsMeanGaps == StreamSpec => []ResetMeansGap
<1>1. ResetInv => ResetMeansGap
  BY DEF ResetInv, Read, ResetMeansGap
<1> QED BY <1>1, InitReset, NextReset, StreamTypesHold, GapHolds, PTL DEF StreamSpec

-----------------------------------------------------------------------------
(* CollaborationStream: the page                                           *)

\* A record that was loaded takes the page forward; only the answer of a save of
\* its own can take it back, in whatever order loads are answered.
THEOREM LoadsGoForward == StreamSpec => NoLoadGoesBack
<1>1. ASSUME StreamTypes, StreamNext, known' < known PROVE work = "saving" /\ work' = "none"
  <2>t. known \in Nat /\ \A l \in loads : l.rev \in Nat
    BY <1>1 DEF StreamTypes, StreamTypeOK
  <2>1. known' # known
    BY <1>1, <2>t
  <2>2. ~WorkerNext
    BY <2>1 DEF WorkerNext, CommitPut, AppendEvent, AppendFails, PurgeProject, page
  <2>3. ~SourceNext
    BY <2>1 DEF SourceNext, Connect, SelectPage, SelectCursor, Refuse, StreamEnds, Cut, page
  <2>4. ~Deliver /\ ~EditPage /\ ~SaveFails /\ ~SaveLost
    BY <2>1 DEF Deliver, Receive, EditPage, SaveFails, SaveLost
  <2>5. ASSUME NEW c PROVE ~Again(c) /\ ~SaveCommits(c)
    BY <2>1 DEF Again, SaveCommits
  <2>6. ASSUME NEW l \in loads PROVE ~Answer(l) /\ ~LoadFails(l)
    BY <1>1, <2>t, <2>1 DEF Answer, LoadRead, LoadDone, LoadFails
  <2>7. SaveDone
    BY <1>1, <2>2, <2>3, <2>4, <2>5, <2>6 DEF StreamNext, PageNext
  <2> QED BY <2>7 DEF SaveDone
<1>2. StreamTypes /\ [StreamNext]_streamVars =>
        [known' < known => work = "saving" /\ work' = "none"]_streamVars
  BY <1>1
<1> QED BY <1>2, StreamTypesHold, PTL DEF StreamSpec, NoLoadGoesBack

=============================================================================
