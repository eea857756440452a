----------------------------- MODULE EmailOutbox -----------------------------
(***************************************************************************)
(* The e-mail outbox: rows of notification_email_outbox, put there with    *)
(* their Notification (addNotification), and drained by the scheduled task *)
(* and by administrators (worker/email-delivery.ts, worker/index.ts) with  *)
(* leases (worker/sharing-repository.ts).                                  *)
(*                                                                         *)
(* Drains run side by side; each statement and each call of the provider is*)
(* a step.  A drain may end anywhere, and leaves its leases behind.  Mails *)
(* are numbered in the order of created_at; addresses, codes and counts of *)
(* attempts are left out.                                                  *)
(***************************************************************************)
EXTENDS Naturals, Sequences, FiniteSets

CONSTANTS
    Mails,         \* the number of mails
    Drainer,       \* what drains: the schedule and the administrators
    Schedule,      \* the scheduled task, which drains every organization
    Scope,         \* the mails of the organizations each of them drains
    Limit,         \* the most mails a drain takes
    Refused,       \* mails the provider never accepts
    MaxMailFaults  \* bound: failing calls, ends of the worker, slow drains

Mail == 1 .. Mails

ASSUME OutboxConstants ==
  /\ Mails \in Nat /\ Schedule \in Drainer
  /\ Scope \in [Drainer -> SUBSET Mail] /\ Scope[Schedule] = Mail
  /\ Limit \in Nat \ {0} /\ Refused \subseteq Mail /\ MaxMailFaults \in Nat

VARIABLES
    outbox,        \* the row of each mail, or Absent
    drain,         \* where each drain is
    over,          \* lease tokens whose time is over
    accepted,      \* external: the mails the provider took
    mailFaults     \* bounded counter

outboxVars == <<outbox, drain, over, accepted, mailFaults>>

NoToken == 0
Token   == 1 .. (Mails + 1) * (Cardinality(Drainer) + 1)

Absent  == [there |-> FALSE, delivered |-> FALSE, token |-> NoToken]
Fresh   == [there |-> TRUE, delivered |-> FALSE, token |-> NoToken]
Resting == [pc |-> "resting", token |-> NoToken, due |-> {}, selected |-> {}, claimed |-> <<>>]

OutboxInit ==
  /\ outbox = [m \in Mail |-> Absent]
  /\ drain = [d \in Drainer |-> Resting]
  /\ over = {} /\ accepted = {} /\ mailFaults = 0

\* addNotification, for a recipient who wants mails.
Add(m) ==
  /\ ~outbox[m].there /\ \A n \in 1 .. m - 1 : outbox[n].there
  /\ outbox' = [outbox EXCEPT ![m] = Fresh]
  /\ UNCHANGED <<drain, over, accepted, mailFaults>>

-----------------------------------------------------------------------------
(* drainNotificationEmail and claimEmailBatch                              *)

\* crypto.randomUUID: a token no row and no drain has; there are always some.
Held == {outbox[m].token : m \in Mail}
Unused == Token \ (Held \cup UNION {drain[d].due \cup {drain[d].token} : d \in Drainer})
NewToken == CHOOSE t \in Unused : TRUE

DrainAt(d, pc) == drain[d].pc = pc

\* The clock is read and the token made.
BeginDrain(d) ==
  /\ DrainAt(d, "resting") /\ Unused # {}
  /\ drain' = [drain EXCEPT ![d] = [Resting EXCEPT !.pc = "release", !.token = NewToken,
                                                   !.due = over \cap Held]]
  /\ over' = over \ {NewToken}
  /\ UNCHANGED <<outbox, accepted, mailFaults>>

\* Mutant: no lease is ever taken back.
ReleaseNone(d) ==
  /\ DrainAt(d, "release")
  /\ drain' = [drain EXCEPT ![d].pc = "select", ![d].due = {}]
  /\ UNCHANGED <<outbox, over, accepted, mailFaults>>

\* Leases that were over when the drain began are taken back, those of other
\* organizations too.
Release(d) ==
  /\ DrainAt(d, "release")
  /\ outbox' = [m \in Mail |->
                  IF ~outbox[m].delivered /\ outbox[m].token \in drain[d].due
                  THEN [outbox[m] EXCEPT !.token = NoToken] ELSE outbox[m]]
  /\ drain' = [drain EXCEPT ![d].pc = "select", ![d].due = {}]
  /\ UNCHANGED <<over, accepted, mailFaults>>

Claimable(d) == {m \in Scope[d] : outbox[m].there /\ ~outbox[m].delivered /\ outbox[m].token = NoToken}

\* The oldest ones, at most Limit.
Oldest(S) == {m \in S : Cardinality({n \in S : n < m}) < Limit}

Select(d) ==
  LET rows == Oldest(Claimable(d))
  IN  /\ DrainAt(d, "select")
      /\ drain' = IF rows = {} THEN [drain EXCEPT ![d] = Resting]
                  ELSE [drain EXCEPT ![d].pc = "claim", ![d].selected = rows]
      /\ UNCHANGED <<outbox, over, accepted, mailFaults>>

\* Mutant: the claim does not look at the row again.
FreeAnyhow(m) == TRUE

\* What the UPDATE of a claim asks of the row.
Free(m) == ~outbox[m].delivered /\ outbox[m].token = NoToken

\* After a claim or a mark: the next mail to claim, to send, or none.
DrainOnward(dr) ==
  IF dr.selected # {} THEN [dr EXCEPT !.pc = "claim"]
  ELSE IF dr.claimed # <<>> THEN [dr EXCEPT !.pc = "send"] ELSE Resting

\* The oldest mail that was selected, if the row is still free.
Claim(d) ==
  \E m \in drain[d].selected :
    LET rest == [drain[d] EXCEPT !.selected = @ \ {m}]
    IN  /\ DrainAt(d, "claim") /\ \A n \in drain[d].selected : m <= n
        /\ IF Free(m)
           THEN /\ outbox' = [outbox EXCEPT ![m].token = drain[d].token]
                /\ drain' = [drain EXCEPT ![d] = DrainOnward([rest EXCEPT !.claimed = Append(@, m)])]
           ELSE /\ drain' = [drain EXCEPT ![d] = DrainOnward(rest)]
                /\ UNCHANGED outbox
        /\ UNCHANGED <<over, accepted, mailFaults>>

-----------------------------------------------------------------------------
(* The mails of the batch, one after the other                             *)

Current(d) == Head(drain[d].claimed)

\* The provider takes the mail or refuses it.
Send(d) ==
  /\ DrainAt(d, "send")
  /\ IF Current(d) \in Refused
     THEN /\ drain' = [drain EXCEPT ![d].pc = "failed"] /\ UNCHANGED accepted
     ELSE /\ accepted' = accepted \cup {Current(d)}
          /\ drain' = [drain EXCEPT ![d].pc = "delivered"]
  /\ UNCHANGED <<outbox, over, mailFaults>>

\* The call fails, or its receipt does not say delivered, whatever the provider
\* did with the mail.
SendFails(d) ==
  /\ DrainAt(d, "send") /\ mailFaults < MaxMailFaults
  /\ mailFaults' = mailFaults + 1
  /\ accepted' \in {accepted} \cup {accepted \cup ({Current(d)} \ Refused)}
  /\ drain' = [drain EXCEPT ![d].pc = "failed"]
  /\ UNCHANGED <<outbox, over>>

\* What the UPDATE of a mark asks of the row.
Owns(d) == ~outbox[Current(d)].delivered /\ outbox[Current(d)].token = drain[d].token

NextMail(d) == DrainOnward([drain[d] EXCEPT !.claimed = Tail(@)])

\* markEmailDelivered
MarkDelivered(d) ==
  /\ DrainAt(d, "delivered")
  /\ outbox' = IF Owns(d) THEN [outbox EXCEPT ![Current(d)] = [@ EXCEPT !.delivered = TRUE, !.token = NoToken]]
               ELSE outbox
  /\ drain' = [drain EXCEPT ![d] = NextMail(d)]
  /\ UNCHANGED <<over, accepted, mailFaults>>

\* markEmailFailed
MarkFailed(d) ==
  /\ DrainAt(d, "failed")
  /\ outbox' = IF Owns(d) THEN [outbox EXCEPT ![Current(d)].token = NoToken] ELSE outbox
  /\ drain' = [drain EXCEPT ![d] = NextMail(d)]
  /\ UNCHANGED <<over, accepted, mailFaults>>

\* markEmailDelivered throws, and the mail counts as failed.
MarkThrows(d) ==
  /\ DrainAt(d, "delivered") /\ mailFaults < MaxMailFaults
  /\ mailFaults' = mailFaults + 1
  /\ drain' = [drain EXCEPT ![d].pc = "failed"]
  /\ UNCHANGED <<outbox, over, accepted>>

\* Any other statement throws, or the worker ends: the drain is given up.
GiveUp(d) ==
  /\ ~DrainAt(d, "resting") /\ mailFaults < MaxMailFaults
  /\ mailFaults' = mailFaults + 1
  /\ drain' = [drain EXCEPT ![d] = Resting]
  /\ UNCHANGED <<outbox, over, accepted>>

-----------------------------------------------------------------------------
\* Sixty seconds have passed since a drain began: one that ended without its
\* marks, or one that is still at work, which counts as a fault.
Expire(t) ==
  /\ t \in Held \ (over \cup {NoToken})
  /\ IF \E d \in Drainer : drain[d].token = t
     THEN mailFaults < MaxMailFaults /\ mailFaults' = mailFaults + 1
     ELSE UNCHANGED mailFaults
  /\ over' = over \cup {t}
  /\ UNCHANGED <<outbox, drain, accepted>>

Work(d) == Release(d) \/ Select(d) \/ Claim(d) \/ Send(d) \/ MarkDelivered(d) \/ MarkFailed(d)

OutboxNext ==
  \/ \E m \in Mail : Add(m)
  \/ \E d \in Drainer : BeginDrain(d) \/ Work(d) \/ SendFails(d) \/ MarkThrows(d) \/ GiveUp(d)
  \/ \E t \in Token : Expire(t)

\* The schedule comes round, drains go on, and time passes.
OutboxFairness == /\ WF_outboxVars(BeginDrain(Schedule))
                  /\ \A d \in Drainer : WF_outboxVars(Work(d))
                  /\ \A t \in Token : WF_outboxVars(Expire(t))

OutboxSpec == OutboxInit /\ [][OutboxNext]_outboxVars /\ OutboxFairness

-----------------------------------------------------------------------------
(* Properties                                                              *)

OutboxTypeOK ==
  /\ outbox \in [Mail -> [there : BOOLEAN, delivered : BOOLEAN, token : Token \cup {NoToken}]]
  /\ \A d \in Drainer :
       /\ drain[d].pc \in {"resting", "release", "select", "claim", "send", "delivered", "failed"}
       /\ drain[d].token \in Token \cup {NoToken} /\ drain[d].due \subseteq Token
       /\ drain[d].selected \subseteq Mail /\ drain[d].claimed \in Seq(Mail)
       /\ (DrainAt(d, "claim") => drain[d].selected # {})
       /\ (drain[d].pc \in {"send", "delivered", "failed"} => drain[d].claimed # <<>>)
  /\ over \subseteq Token /\ accepted \subseteq Mail /\ mailFaults \in Nat

\* While its time is not over, a drain has every mail it claimed and did not
\* mark: no other drain takes one, marks one or sets one free.  So a mail is
\* sent by two drains only when the lease of the first was over.
LeaseHolds ==
  \A d \in Drainer : drain[d].token \notin over =>
    \A k \in DOMAIN drain[d].claimed :
      LET row == outbox[drain[d].claimed[k]]
      IN  ~row.delivered /\ row.token = drain[d].token

\* docs/sharing-and-notifications.md: "Provider success is the only transition
\* that sets `delivered_at`", with drains whose leases are over marking late.
DeliveredWasTaken == \A m \in Mail : outbox[m].delivered => m \in accepted

\* A mail the provider does take is delivered in the end, through failing
\* calls, drains that end with their leases held and mails that are refused
\* time and again, as long as these are fewer than a batch.
Drains == \A m \in Mail \ Refused : outbox[m].there ~> outbox[m].delivered
=============================================================================
