----------------------------- MODULE ShareLinks -----------------------------
(***************************************************************************)
(* The life of the review links of one Project: the rows of project_share_ *)
(* links (worker/sharing-repository.ts), the requests that create, revoke  *)
(* and resolve them and the scheduled sweep (worker/index.ts), all of which*)
(* reconcile: they bring a pending link's transition into the ledger of the*)
(* Project record with a compare-and-swap, and then mark the link.         *)
(* A Studio may store an older snapshot over that record, entries and      *)
(* receipts lost (ProjectSync shows how): Overwrite.                       *)
(*                                                                         *)
(* Requests run side by side and stop between any two statements.  Roles,  *)
(* scopes, tokens and the date of expiry are left out; the event a put is  *)
(* followed by (CollaborationStream) is part of the step that marks, which *)
(* its failure prevents.                                                   *)
(***************************************************************************)
EXTENDS Naturals, Sequences, FiniteSets

CONSTANTS
    Link,       \* share links
    Request,    \* requests, each made once
    Sweep,      \* the scheduled task, which begins again whenever it ended
    MaxWrites,  \* bound: writes of the Project by others, deletions, recoveries
    MaxFaults   \* bound: failing statements and ends of the worker

ASSUME ShareConstants ==
  /\ IsFiniteSet(Link) /\ Sweep \notin Request /\ MaxWrites \in Nat /\ MaxFaults \in Nat

VARIABLES
    link,      \* lifecycle_state of each link
    live,      \* the Project is not deleted
    revision,  \* projects.revision
    ledger,    \* the share_link entries of the record's ledger
    held,      \* history: the ledgers that were stored, which Studios may still hold
    overwritten, \* history: an older snapshot was stored over the record
    req,       \* where each request is, and what it has read
    queue,     \* the links a reconciliation read and has not dealt with
    copy,      \* the Project record it works on
    closed,    \* history: the link of the request was revoked when it began
    writes, faults   \* bounded counters

project  == <<live, revision, ledger, held, overwritten>>
database == <<link, project>>
bounds   == <<writes, faults>>
vars     == <<database, req, queue, copy, closed, bounds>>

Process == Request \cup {Sweep}
Idle    == [kind |-> "none", about |-> {}, pc |-> "idle", again |-> FALSE, answer |-> "none"]
NoCopy  == [rev |-> 0, ledger |-> <<>>]
Pending == {"pending-create", "pending-revoke"}

\* Links may be there from before, each active and in the ledger.
Init ==
  /\ \E old \in SUBSET Link :
       /\ link = [l \in Link |-> IF l \in old THEN "active" ELSE "none"]
       /\ ledger \in [1 .. Cardinality(old) -> [kind : {"created"}, link : old]]
       /\ {ledger[k].link : k \in DOMAIN ledger} = old
  /\ held = {SubSeq(ledger, 1, k) : k \in 0 .. Len(ledger)}
  /\ overwritten = FALSE
  /\ live = TRUE /\ revision = 1
  /\ req = [p \in Process |-> Idle]
  /\ queue = [p \in Process |-> <<>>]
  /\ copy = [p \in Process |-> NoCopy]
  /\ closed = [p \in Process |-> FALSE]
  /\ writes = 0 /\ faults = 0

At(p, pc)   == req[p].pc = pc
Goto(p, pc) == req' = [req EXCEPT ![p].pc = pc]
Answer(p, a) == req' = [req EXCEPT ![p].pc = "done", ![p].answer = a]
LinkOf(p)   == CHOOSE l \in Link : req[p].about = {l}
Ledgered(kind, l) == \E k \in DOMAIN ledger : ledger[k] = [kind |-> kind, link |-> l]

\* The first thing after a reconciliation.
Onward(p) ==
  CASE req[p].kind = "create" -> "report"
    [] req[p].kind = "revoke" -> IF req[p].again THEN "report" ELSE "begin"
    [] req[p].kind = "public" -> "resolve"
    [] req[p].kind = "list"   -> "end"

-----------------------------------------------------------------------------
(* Requests                                                                *)

Begin(p, kind, about, pc) ==
  /\ At(p, "idle")
  /\ req' = [req EXCEPT ![p] = [Idle EXCEPT !.kind = kind, !.about = about, !.pc = pc]]
  /\ closed' = [closed EXCEPT ![p] =
                  kind = "public" /\ \A l \in about : link[l] \in {"pending-revoke", "revoked"}]
  /\ UNCHANGED <<database, queue, copy, bounds>>

\* POST share-links, once the Project was found.
BeginCreate(p, l) == live /\ link[l] = "none" /\ Begin(p, "create", {l}, "insert")
BeginRevoke(p, l) == link[l] # "none" /\ Begin(p, "revoke", {l}, "read")
BeginPublic(p, l) == link[l] # "none" /\ Begin(p, "public", {l}, "look")
\* GET share-links and the scheduled sweep go over every pending link.
BeginList(p)      == live /\ p # Sweep /\ Begin(p, "list", Link, "read")
BeginSweep        == Begin(Sweep, "list", Link, "read")

\* createLink
Insert(p) ==
  /\ At(p, "insert") /\ link[LinkOf(p)] = "none"
  /\ link' = [link EXCEPT ![LinkOf(p)] = "pending-create"]
  /\ Goto(p, "read")
  /\ UNCHANGED <<project, queue, copy, closed, bounds>>

\* beginRevoke: only an active link changes.
BeginRevocation(p) ==
  LET l == LinkOf(p)
  IN  /\ At(p, "begin")
      /\ link' = IF link[l] = "active" THEN [link EXCEPT ![l] = "pending-revoke"] ELSE link
      /\ IF link[l] = "revoked" THEN Answer(p, "already-revoked")
         ELSE req' = [req EXCEPT ![p].pc = "read", ![p].again = TRUE]
      /\ UNCHANGED <<project, queue, copy, closed, bounds>>

\* What is answered: listLinks, and the state it shows.
Report(p) ==
  LET s == link[LinkOf(p)]
  IN  /\ At(p, "report")
      /\ IF req[p].kind = "create"
         THEN Answer(p, IF s = "active" THEN "active" ELSE "pending")
         ELSE Answer(p, IF s = "revoked" THEN "revoked" ELSE "pending-revoke")
      /\ UNCHANGED <<database, queue, copy, closed, bounds>>

\* GET /api/share: a pending link is reconciled and looked at again.
Look(p) ==
  LET s == link[LinkOf(p)]
  IN  /\ At(p, "look")
      /\ IF s \in Pending THEN Goto(p, "read")
         ELSE IF s = "active" THEN Goto(p, "serve") ELSE Answer(p, "unavailable")
      /\ UNCHANGED <<database, queue, copy, closed, bounds>>

\* Mutant: the link found before the reconciliation is taken for active after it.
ResolveFirstRow(p) ==
  /\ At(p, "resolve") /\ Goto(p, "serve")
  /\ UNCHANGED <<database, queue, copy, closed, bounds>>

\* The link is looked up by its token again.
Resolve(p) ==
  /\ At(p, "resolve")
  /\ IF link[LinkOf(p)] = "active" THEN Goto(p, "serve") ELSE Answer(p, "unavailable")
  /\ UNCHANGED <<database, queue, copy, closed, bounds>>

Serve(p) ==
  /\ At(p, "serve")
  /\ Answer(p, IF live THEN "served" ELSE "unavailable")
  /\ UNCHANGED <<database, queue, copy, closed, bounds>>

\* A sweep may begin again; a list is answered.
End(p) ==
  /\ At(p, "end")
  /\ IF p = Sweep THEN req' = [req EXCEPT ![p] = Idle] ELSE Answer(p, "listed")
  /\ UNCHANGED <<database, queue, copy, closed, bounds>>

-----------------------------------------------------------------------------
(* reconcileShareOperations                                                *)

\* Mutant: revocations are not among the pending operations.
ReadPendingCreates(p) ==
  /\ At(p, "read")
  /\ \E q \in [1 .. Cardinality({l \in req[p].about : link[l] = "pending-create"}) -> Link] :
       /\ {q[k] : k \in DOMAIN q} = {l \in req[p].about : link[l] = "pending-create"}
       /\ queue' = [queue EXCEPT ![p] = [k \in DOMAIN q |-> [link |-> q[k], state |-> link[q[k]]]]]
       /\ Goto(p, IF q = <<>> THEN Onward(p) ELSE "load")
  /\ UNCHANGED <<database, copy, closed, bounds>>

\* pendingLinkOperations: copies of the pending rows.
ReadPending(p) ==
  /\ At(p, "read")
  /\ \E q \in [1 .. Cardinality({l \in req[p].about : link[l] \in Pending}) -> Link] :
       /\ {q[k] : k \in DOMAIN q} = {l \in req[p].about : link[l] \in Pending}
       /\ queue' = [queue EXCEPT ![p] = [k \in DOMAIN q |-> [link |-> q[k], state |-> link[q[k]]]]]
       /\ Goto(p, IF q = <<>> THEN Onward(p) ELSE "load")
  /\ UNCHANGED <<database, copy, closed, bounds>>

\* The next link of the reconciliation, or what follows it.
Advance(p) ==
  /\ queue' = [queue EXCEPT ![p] = Tail(@)]
  /\ copy' = [copy EXCEPT ![p] = NoCopy]
  /\ req' = [req EXCEPT ![p].pc = IF Len(queue[p]) = 1 THEN Onward(p) ELSE "load"]

\* projects.get, before the first attempt and after a conflict.
Load(p) ==
  /\ At(p, "load")
  /\ IF live THEN /\ copy' = [copy EXCEPT ![p] = [rev |-> revision, ledger |-> ledger]]
                  /\ Goto(p, "put")
                  /\ UNCHANGED queue
             ELSE Advance(p)
  /\ UNCHANGED <<database, closed, bounds>>

Entry(p) == [kind |-> IF Head(queue[p]).state = "pending-create" THEN "created" ELSE "revoked",
             link |-> Head(queue[p]).link]

\* Mutant: no receipt keeps a repeated command from being executed again.
ExecuteAnyway(p) == Append(copy[p].ledger, Entry(p))

\* record_share_link_created or _revoked under the link's idempotency key: a
\* receipt in the snapshot stands for an entry that is there already.
Execute(p) ==
  IF \E k \in DOMAIN copy[p].ledger : copy[p].ledger[k] = Entry(p)
  THEN copy[p].ledger ELSE Append(copy[p].ledger, Entry(p))

Store(l) == revision' = revision + 1 /\ ledger' = l /\ held' = held \cup {l}

\* Mutant: the record is stored whatever became of it since it was read.
PutAlways(p) ==
  /\ At(p, "put")
  /\ Store(Execute(p)) /\ Goto(p, "mark")
  /\ UNCHANGED <<link, live, overwritten, queue, copy, closed, bounds>>

Put(p) ==
  /\ At(p, "put")
  /\ IF live /\ revision = copy[p].rev
     THEN Store(Execute(p)) /\ Goto(p, "mark")
     ELSE UNCHANGED <<revision, ledger, held>> /\ Goto(p, "load")
  /\ UNCHANGED <<link, live, overwritten, queue, copy, closed, bounds>>

\* markLinkCreated, markLinkRevoked
Mark(p) ==
  LET item == Head(queue[p])
  IN  /\ At(p, "mark")
      /\ link' = IF link[item.link] # item.state THEN link
                 ELSE [link EXCEPT ![item.link] =
                         IF item.state = "pending-create" THEN "active" ELSE "revoked"]
      /\ Advance(p)
      /\ UNCHANGED <<project, closed, bounds>>

\* A statement throws, or the fourth attempt conflicts: the failure is recorded
\* and the reconciliation goes on with the next link.
Fail(p) ==
  /\ req[p].pc \in {"load", "put", "mark"} /\ faults < MaxFaults
  /\ faults' = faults + 1
  /\ Advance(p)
  /\ UNCHANGED <<database, closed, writes>>

\* The worker ends.
Die(p) ==
  /\ req[p].pc \notin {"idle", "done"} /\ faults < MaxFaults
  /\ faults' = faults + 1
  /\ req' = [req EXCEPT ![p] = IF p = Sweep THEN Idle ELSE [@ EXCEPT !.pc = "done"]]
  /\ queue' = [queue EXCEPT ![p] = <<>>] /\ copy' = [copy EXCEPT ![p] = NoCopy]
  /\ UNCHANGED <<database, closed, writes>>

-----------------------------------------------------------------------------
(* Others                                                                  *)

\* They write the Project with the ledger it has (a merge takes the snapshot of
\* one side as a whole), or delete and recover it.
Write ==
  /\ writes < MaxWrites /\ writes' = writes + 1
  /\ revision' = revision + 1
  /\ live' \in BOOLEAN /\ (live \/ live')
  /\ UNCHANGED <<link, ledger, held, overwritten, req, queue, copy, closed, faults>>

\* A save of the Studio whose planner did not take up a merge stores the snapshot
\* it holds over the merged record.
Overwrite ==
  /\ live /\ writes < MaxWrites /\ writes' = writes + 1
  /\ revision' = revision + 1
  /\ ledger' \in held \ {ledger} /\ overwritten' = TRUE
  /\ UNCHANGED <<link, live, held, req, queue, copy, closed, faults>>

Step(p) == \/ Insert(p) \/ BeginRevocation(p) \/ Report(p) \/ Look(p) \/ Resolve(p)
           \/ Serve(p) \/ End(p) \/ ReadPending(p) \/ Load(p) \/ Put(p) \/ Mark(p)

Start(p) == \E l \in Link : BeginCreate(p, l) \/ BeginRevoke(p, l) \/ BeginPublic(p, l)

Next ==
  \/ \E p \in Request : Start(p) \/ BeginList(p)
  \/ BeginSweep
  \/ \E p \in Process : Step(p) \/ Fail(p) \/ Die(p)
  \/ Write \/ Overwrite

\* A request that began goes on, and the schedule comes round again.
Fairness == WF_vars(BeginSweep) /\ \A p \in Process : WF_vars(Step(p))

Spec == Init /\ [][Next]_vars /\ Fairness

-----------------------------------------------------------------------------
(* Properties                                                              *)

State   == {"none", "pending-create", "active", "pending-revoke", "revoked"}
Control == {"idle", "insert", "look", "read", "load", "put", "mark", "begin", "resolve",
            "serve", "report", "end", "done"}

TypeOK ==
  /\ link \in [Link -> State] /\ live \in BOOLEAN /\ revision \in Nat
  /\ held \subseteq Seq([kind : {"created", "revoked"}, link : Link]) /\ ledger \in held
  /\ overwritten \in BOOLEAN
  /\ \A p \in Process :
       /\ req[p] \in [kind : {"none", "create", "revoke", "public", "list"}, about : SUBSET Link,
                      pc : Control, again : BOOLEAN,
                      answer : {"none", "active", "pending", "revoked", "pending-revoke",
                                "already-revoked", "served", "unavailable", "listed"}]
       /\ req[p].kind \in {"create", "revoke", "public"} => \E l \in Link : req[p].about = {l}
       /\ queue[p] \in Seq([link : Link, state : Pending])
       /\ req[p].pc \in {"load", "put", "mark"} <=> queue[p] # <<>>
       /\ copy[p].rev \in Nat /\ closed[p] \in BOOLEAN
  /\ {writes, faults} \subseteq Nat

\* Reconciliations of one link by several requests, repeated after a failure, the
\* end of the worker or the loss of entry and receipt: no transition is in the
\* ledger twice, and while nothing was overwritten the revocation comes after the
\* creation (a creation that was lost may be appended again behind it).
LedgeredOnce ==
  \A i, j \in DOMAIN ledger : ledger[i].link = ledger[j].link /\ i < j =>
    /\ ledger[i].kind # ledger[j].kind
    /\ ~overwritten => ledger[i].kind = "created"

\* A record with this entry was stored.
Stored(kind, l) == \E h \in held : \E k \in DOMAIN h : h[k] = [kind |-> kind, link |-> l]

\* A link gives access, or is gone for good, only after a record with the
\* transition that says so was stored, and a revocation that was stored is never
\* taken back in the table, even if the entry is lost.  No reconciliation loses an
\* entry: what was stored is in the ledger until an older snapshot is stored.
StateIsLedgered ==
  \A l \in Link :
    /\ link[l] \in {"active", "pending-revoke", "revoked"} => Stored("created", l)
    /\ link[l] = "revoked" => Stored("revoked", l)
    /\ Stored("revoked", l) => link[l] \in {"pending-revoke", "revoked"}
    /\ ~overwritten => \A kind \in {"created", "revoked"} : Stored(kind, l) => Ledgered(kind, l)

\* docs/sharing-and-notifications.md: access stops with the transition to
\* pending-revoke.  No request that comes after it is served, whatever copies
\* of the link reconciliations still work on.
RevokedIsClosed == \A p \in Process : closed[p] => req[p].answer # "served"

\* Every pending transition is completed in the end by the scheduled sweep, if
\* not by a request, as long as the Project is there.
Settles == \A l \in Link : link[l] \in Pending ~> link[l] \notin Pending \/ ~live
=============================================================================
