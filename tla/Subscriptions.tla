---------------------------- MODULE Subscriptions ----------------------------
(***************************************************************************)
(* A member's subscriptions to a community: checkout, cancellation and the *)
(* recurring webhooks of backend/src/services/payment/GatewayService.ts,   *)
(* and the nightly retries of jobs/subscriptionRetry.job.ts.               *)
(*                                                                         *)
(* PayPlus runs a program per subscription that charges the member every   *)
(* period once the first payment is made on its page, and reports by       *)
(* webhooks that come late, in any order and more than once.  The job      *)
(* charges the saved card itself.  Charges of a subscription are numbered  *)
(* in the order PayPlus makes them; the number is the transaction id.      *)
(*                                                                         *)
(* Workers serve requests, webhooks and the job; every await is a step,    *)
(* and a document loaded earlier is saved field by field later.  Database  *)
(* failures are left out; PayPlus may fail, or its answer get lost.        *)
(***************************************************************************)
EXTENDS Handlers, Naturals, FiniteSets

CONSTANTS
    Subs,          \* ids of Subscription documents
    NoSub,
    MaxCharges,    \* bound: charges of a subscription
    MaxFailures    \* bound: failedAttempts counted from webhooks

MaxAttempts == 3   \* MAX_ATTEMPTS of the job, and the limit of the webhook

ASSUME NoSubAssumption == NoSub \notin Subs
ASSUME MaxChargesAssumption == MaxCharges \in Nat
ASSUME MaxFailuresAssumption == MaxFailures \in Nat /\ MaxFailures >= MaxAttempts

VARIABLES
    sub,         \* the Subscription documents
    booked,      \* transactions with a Payment row, by subscription
    recurring,   \* PayPlus: the program and charges of each subscription
    subWork      \* what the workers are doing
subVars == <<sub, booked, recurring, subWork>>

SubRow == [status : {"none", "incomplete", "active", "past_due", "cancelled"},
           failed : 0..MaxFailures,    \* failedAttempts
           covered : BOOLEAN,          \* currentPeriodEnd is over 28 days ahead
           atEnd : BOOLEAN,            \* cancelAtPeriodEnd
           program : BOOLEAN,          \* gatewaySubscriptionId is set
           card : BOOLEAN]             \* gatewayToken is set
NoSubRow == [status |-> "none", failed |-> 0, covered |-> FALSE, atEnd |-> FALSE,
             program |-> FALSE, card |-> FALSE]

SubPc == {"idle",
          "create", "openPage", "saveIds",            \* createSubscription
          "stop", "saveAtEnd",                        \* cancelSubscriptionForUser
          "renew", "book", "fail", "cancel",          \* recurring webhooks
          "next", "recover", "bookRetry", "bump"}     \* runSubscriptionRetries

SubWorker == [pc : SubPc,
              id : Subs \cup {NoSub},         \* the subscription it is at
              docs : [Subs -> SubRow],        \* the documents as loaded
              todo : SUBSET Subs,             \* candidates the job has yet to charge
              tx : 0..MaxCharges,             \* the transaction to book
              card : BOOLEAN]                 \* whether the answer has a card token

SubIdle == [pc |-> "idle", id |-> NoSub, docs |-> [s \in Subs |-> NoSubRow],
            todo |-> {}, tx |-> 0, card |-> FALSE]

SubscriptionsTypeOK ==
    /\ sub \in [Subs -> SubRow]
    /\ booked \in [Subs -> SUBSET (1..MaxCharges)]
    /\ recurring \in [Subs -> [program : {"none", "page", "live", "stopped"},
                               charges : 0..MaxCharges,
                               hooks : SUBSET (1..MaxCharges),  \* charges it reports
                               refused : BOOLEAN]]
    /\ subWork \in [Workers -> SubWorker]

SubscriptionsInit ==
    /\ sub = [s \in Subs |-> NoSubRow]
    /\ booked = [s \in Subs |-> {}]
    /\ recurring = [s \in Subs |-> [program |-> "none", charges |-> 0, hooks |-> {},
                                    refused |-> FALSE]]
    /\ subWork = [w \in Workers |-> SubIdle]

-----------------------------------------------------------------------------
(* Workers, and what they save                                             *)

SubGo(w, q) == subWork' = [subWork EXCEPT ![w] = q]
SubGoTo(w, pc) == SubGo(w, [subWork[w] EXCEPT !.pc = pc])
SubDone(w) == SubGo(w, SubIdle)
SubAt(w, pc) == subWork[w].pc = pc

Doc(w) == subWork[w].docs[subWork[w].id]

SubMerge(cur, old, new) ==
    [f \in DOMAIN cur |-> IF new[f] # old[f] THEN new[f] ELSE cur[f]]

\* save() of the document worker w has loaded and changed to new.
Save(w, new) == sub' = [sub EXCEPT ![subWork[w].id] = SubMerge(@, Doc(w), new)]

\* A new currentPeriodEnd differs from every one loaded before.
SaveRenewed(w) ==
    sub' = [sub EXCEPT ![subWork[w].id] =
               [SubMerge(@, Doc(w), [Doc(w) EXCEPT !.status = "active", !.failed = 0])
                   EXCEPT !.covered = TRUE]]

\* The documents a worker has loaded, of all there are.
Loaded(ids) == [s \in Subs |-> IF s \in ids THEN sub[s] ELSE NoSubRow]

\* Worker w is idle, loads the document of s, and goes on from there.
SubBegin(w, pc, s) ==
    /\ SubAt(w, "idle")
    /\ SubGo(w, [SubIdle EXCEPT !.pc = pc, !.id = s, !.docs = Loaded({s})])
    /\ UNCHANGED <<sub, booked, recurring>>

-----------------------------------------------------------------------------
(* createSubscription()                                                    *)

Open == {"active", "past_due", "incomplete"}

\* Bound: no more checkouts are begun than there are ids left.
SubIdsLeft == Cardinality({s \in Subs : sub[s].status = "none"})
              > Cardinality({w \in Workers : SubAt(w, "create")})

BeginSubscribe(w) ==
    /\ SubIdsLeft
    /\ \A s \in Subs : sub[s].status \notin Open
    /\ SubBegin(w, "create", NoSub)

CreateSubscription(w) ==
    /\ SubAt(w, "create")
    /\ \E s \in Subs :
          LET row == [NoSubRow EXCEPT !.status = "incomplete"] IN
          /\ sub[s].status = "none"
          /\ sub' = [sub EXCEPT ![s] = row]
          /\ SubGo(w, [subWork[w] EXCEPT !.pc = "openPage", !.id = s, !.docs[s] = row])
    /\ UNCHANGED <<booked, recurring>>

\* createRecurring() of the client answers, perhaps without a token, or fails.
CreateRecurring == [ok : BOOLEAN, card : BOOLEAN]

\* If it fails nobody learns the address of the page, if there is one.
OpenRecurringPage(w) ==
    /\ SubAt(w, "openPage")
    /\ \E answer \in CreateRecurring :
          IF answer.ok
          THEN SubGo(w, [subWork[w] EXCEPT !.pc = "saveIds", !.card = answer.card])
          ELSE SubDone(w)
    /\ UNCHANGED <<sub, booked, recurring>>

\* From the response the member learns the address of the page.
SaveIds(w) ==
    /\ SubAt(w, "saveIds")
    /\ Save(w, [Doc(w) EXCEPT !.program = TRUE, !.card = subWork[w].card])
    /\ recurring' = [recurring EXCEPT ![subWork[w].id].program = "page"]
    /\ SubDone(w)
    /\ UNCHANGED booked

-----------------------------------------------------------------------------
(* PayPlus                                                                 *)

ChargeByProgram(s) ==
    /\ recurring[s].charges < MaxCharges
    /\ recurring' = [recurring EXCEPT ![s].program = "live",
                                      ![s].charges = @ + 1,
                                      ![s].hooks = @ \cup {recurring[s].charges + 1}]
    /\ UNCHANGED <<sub, booked, subWork>>

\* The first charge on the page, or that of another period.
Pay(s) == recurring[s].program = "page" /\ ChargeByProgram(s)
Renew(s) == recurring[s].program = "live" /\ ChargeByProgram(s)

Refuse(s) ==
    /\ recurring[s].program \in {"page", "live"} /\ ~ recurring[s].refused
    /\ recurring' = [recurring EXCEPT ![s].refused = TRUE]
    /\ UNCHANGED <<sub, booked, subWork>>

\* The program is stopped in PayPlus's own dashboard.
DashboardStop(s) ==
    /\ recurring[s].program = "live"
    /\ recurring' = [recurring EXCEPT ![s].program = "stopped"]
    /\ UNCHANGED <<sub, booked, subWork>>

\* Days go by.
Age(s) ==
    /\ sub[s].covered
    /\ sub' = [sub EXCEPT ![s].covered = FALSE]
    /\ UNCHANGED <<booked, recurring, subWork>>

-----------------------------------------------------------------------------
(* cancelSubscriptionForUser()                                             *)

BeginCancelSubscription(w, s) ==
    /\ sub[s].status \notin {"none", "cancelled"}
    /\ SubBegin(w, IF sub[s].program THEN "stop" ELSE "saveAtEnd", s)

\* cancelRecurring() of the client; its answer may be lost.
CancelRecurring(s, answered) ==
    \/ recurring' = [recurring EXCEPT ![s].program = "stopped"]
    \/ UNCHANGED recurring /\ ~ answered

\* Mutant of Stop: as long as the period lasts the program runs on.
StopUnlessActive(w) ==
    /\ SubAt(w, "stop")
    /\ IF Doc(w).status = "active" THEN UNCHANGED recurring
       ELSE recurring' = [recurring EXCEPT ![subWork[w].id].program = "stopped"]
    /\ SubGoTo(w, "saveAtEnd")
    /\ UNCHANGED <<sub, booked>>

\* Without an answer the request fails.
Stop(w) ==
    /\ SubAt(w, "stop")
    /\ \E answered \in BOOLEAN :
          /\ CancelRecurring(subWork[w].id, answered)
          /\ IF answered THEN SubGoTo(w, "saveAtEnd") ELSE SubDone(w)
    /\ UNCHANGED <<sub, booked>>

SaveAtEnd(w) ==
    /\ SubAt(w, "saveAtEnd")
    /\ Save(w, [Doc(w) EXCEPT !.atEnd = TRUE])
    /\ SubDone(w)
    /\ UNCHANGED <<booked, recurring>>

-----------------------------------------------------------------------------
(* onRecurringSuccess(), onRecurringFailure(), onRecurringCancelled()      *)

BeginRecurringSuccess(w, s, tx) ==
    /\ tx \in recurring[s].hooks
    /\ ~ sub[s].covered
    /\ SubAt(w, "idle")
    /\ SubGo(w, [SubIdle EXCEPT !.pc = "renew", !.id = s, !.docs = Loaded({s}), !.tx = tx])
    /\ UNCHANGED <<sub, booked, recurring>>

SaveRenewal(w) ==
    /\ SubAt(w, "renew")
    /\ SaveRenewed(w)
    /\ SubGoTo(w, "book")
    /\ UNCHANGED <<booked, recurring>>

\* Mutant of Book: no Payment row is written.
BookNothing(w) ==
    /\ SubAt(w, "book")
    /\ booked' = booked
    /\ SubDone(w)
    /\ UNCHANGED <<sub, recurring>>

\* The index on gatewayTransactionId refuses a second row; the webhook fails.
Book(w) ==
    /\ SubAt(w, "book")
    /\ booked' = [booked EXCEPT ![subWork[w].id] = @ \cup {subWork[w].tx}]
    /\ SubDone(w)
    /\ UNCHANGED <<sub, recurring>>

BeginRecurringFailure(w, s) ==
    /\ recurring[s].refused
    /\ sub[s].failed < MaxFailures
    /\ SubBegin(w, "fail", s)

\* Mutant of SaveFailure: the subscription is past due only at the limit.
SaveFailureLate(w) ==
    LET failed == Doc(w).failed + 1 IN
    /\ SubAt(w, "fail")
    /\ Save(w, [Doc(w) EXCEPT !.failed = failed,
                              !.status = IF failed >= MaxAttempts THEN "past_due" ELSE @])
    /\ SubDone(w)
    /\ UNCHANGED <<booked, recurring>>

\* Below the limit a cancelled subscription stays cancelled.
SaveFailure(w) ==
    LET failed == Doc(w).failed + 1 IN
    /\ SubAt(w, "fail")
    /\ Save(w, [Doc(w) EXCEPT !.failed = failed,
                              !.status = IF @ = "cancelled" /\ failed < MaxAttempts
                                         THEN @ ELSE "past_due"])
    /\ SubDone(w)
    /\ UNCHANGED <<booked, recurring>>

BeginCancelled(w, s) ==
    /\ recurring[s].program = "stopped"
    /\ sub[s].status # "cancelled"
    /\ SubBegin(w, "cancel", s)

\* Mutant of SaveCancelled: a status the schema does not know.
SaveCancelledMisspelt(w) ==
    /\ SubAt(w, "cancel")
    /\ Save(w, [Doc(w) EXCEPT !.status = "canceled"])
    /\ SubDone(w)
    /\ UNCHANGED <<booked, recurring>>

SaveCancelled(w) ==
    /\ SubAt(w, "cancel")
    /\ Save(w, [Doc(w) EXCEPT !.status = "cancelled"])
    /\ SubDone(w)
    /\ UNCHANGED <<booked, recurring>>

-----------------------------------------------------------------------------
(* runSubscriptionRetries()                                                *)

\* Past due, and the job has not given up.  Without a card it is skipped.
Retriable(s) ==
    sub[s].status = "past_due" /\ sub[s].failed < MaxAttempts /\ sub[s].card

BeginJob(w) ==
    LET candidates == {s \in Subs : Retriable(s)} IN
    /\ SubAt(w, "idle") /\ candidates # {}
    /\ SubGo(w, [SubIdle EXCEPT !.pc = "next", !.docs = Loaded(candidates), !.todo = candidates])
    /\ UNCHANGED <<sub, booked, recurring>>

\* The job is through with one candidate.
GoNext(w) ==
    LET q == subWork[w] IN
    SubGo(w, [SubIdle EXCEPT !.pc = "next", !.docs = [q.docs EXCEPT ![q.id] = NoSubRow],
                             !.todo = q.todo])

\* chargeToken() of the client: the card is charged, is declined, or the call
\* fails; when it fails the member may have been charged.
ChargeToken(s, succeeded) ==
    \/ /\ recurring[s].charges < MaxCharges
       /\ recurring' = [recurring EXCEPT ![s].charges = @ + 1]
    \/ UNCHANGED recurring /\ ~ succeeded

\* Mutant of ChargeCandidate: a charge without an answer is not counted as a failure.
ChargeSkipLost(w, s) ==
    LET q == [subWork[w] EXCEPT !.id = s, !.todo = @ \ {s}] IN
    /\ SubAt(w, "next") /\ s \in subWork[w].todo
    /\ \E succeeded \in BOOLEAN :
          /\ ChargeToken(s, succeeded)
          /\ SubGo(w, IF succeeded
                      THEN [q EXCEPT !.pc = "recover", !.tx = recurring[s].charges + 1]
                      ELSE q)
    /\ UNCHANGED <<sub, booked>>

ChargeCandidate(w, s) ==
    LET q == [subWork[w] EXCEPT !.id = s, !.todo = @ \ {s}] IN
    /\ SubAt(w, "next") /\ s \in subWork[w].todo
    /\ \E succeeded \in BOOLEAN :
          /\ ChargeToken(s, succeeded)
          /\ SubGo(w, IF succeeded
                      THEN [q EXCEPT !.pc = "recover", !.tx = recurring[s].charges + 1]
                      ELSE [q EXCEPT !.pc = "bump"])
    /\ UNCHANGED <<sub, booked>>

SaveRecovery(w) ==
    /\ SubAt(w, "recover")
    /\ SaveRenewed(w)
    /\ SubGoTo(w, "bookRetry")
    /\ UNCHANGED <<booked, recurring>>

BookRetry(w) ==
    /\ SubAt(w, "bookRetry")
    /\ booked' = [booked EXCEPT ![subWork[w].id] = @ \cup {subWork[w].tx}]
    /\ GoNext(w)
    /\ UNCHANGED <<sub, recurring>>

\* bumpFailure()
Bump(w) ==
    LET failed == Doc(w).failed + 1 IN
    /\ SubAt(w, "bump")
    /\ Save(w, [Doc(w) EXCEPT !.failed = failed,
                              !.status = IF failed >= MaxAttempts THEN "cancelled" ELSE @])
    /\ GoNext(w)
    /\ UNCHANGED <<booked, recurring>>

EndJob(w) ==
    /\ SubAt(w, "next") /\ subWork[w].todo = {}
    /\ SubDone(w)
    /\ UNCHANGED <<sub, booked, recurring>>

-----------------------------------------------------------------------------
Outside(s) == Pay(s) \/ Renew(s) \/ Refuse(s) \/ DashboardStop(s) \/ Age(s)

Receive(w) ==
    \/ BeginSubscribe(w)
    \/ \E s \in Subs : \/ BeginCancelSubscription(w, s) \/ BeginRecurringFailure(w, s)
                       \/ BeginCancelled(w, s)
    \/ \E s \in Subs, tx \in 1..MaxCharges : BeginRecurringSuccess(w, s, tx)

Serve(w) ==
    \/ CreateSubscription(w) \/ OpenRecurringPage(w) \/ SaveIds(w)
    \/ Stop(w) \/ SaveAtEnd(w)
    \/ SaveRenewal(w) \/ Book(w) \/ SaveFailure(w) \/ SaveCancelled(w)
    \/ \E s \in Subs : ChargeCandidate(w, s)
    \/ SaveRecovery(w) \/ BookRetry(w) \/ Bump(w) \/ EndJob(w)

SubscriptionsNext ==
    \/ \E s \in Subs : Outside(s)
    \/ \E w \in Workers : Receive(w) \/ BeginJob(w) \/ Serve(w)

SubscriptionsSpec == SubscriptionsInit /\ [][SubscriptionsNext]_subVars

\* What is begun is carried on, and the job's hour comes again and again; a
\* worker is found for it however busy the webhooks keep them.
SubscriptionsFairness == \A w \in Workers : WF_subVars(Serve(w)) /\ SF_subVars(BeginJob(w))
SubscriptionsFairSpec == SubscriptionsSpec /\ SubscriptionsFairness

-----------------------------------------------------------------------------
(* Properties                                                              *)

\* Nobody is a subscriber for free: an active subscription has a Payment row,
\* or the worker that made it active is about to write one.  In every
\* interleaving, as long as the process and the database live: the saves of
\* stale documents never make a status active.
ActiveIsBooked ==
    \A s \in Subs : sub[s].status = "active" =>
        \/ booked[s] # {}
        \/ \E w \in Workers : subWork[w].id = s /\ subWork[w].pc \in {"book", "bookRetry"}

\* Failures do not outlive the payment that makes up for them: an active
\* subscription has all its attempts left.  Only while the job and the webhooks
\* do not overlap: the job saves what it counted from.
ActiveIsClear ==
    \A s \in Subs : sub[s].status = "active" => sub[s].failed = 0

\* A member who has been told that the subscription will end is not charged by
\* the program any more: cancelSubscriptionForUser() marks the document only
\* after PayPlus has stopped the program, or when there is none to be stopped.
\* Only while a cancellation does not overlap the checkout it cancels, whose
\* page becomes known after the cancellation has found no program.
CancelStopsProgram ==
    \A s \in Subs : sub[s].atEnd => recurring[s].program # "live"

\* "Each handler short-circuits when the target [...] is already in its
\* terminal state": a cancelled subscription stays cancelled.
CancelledStays ==
    [][\A s \in Subs : sub[s].status = "cancelled" => sub'[s].status = "cancelled"]_subVars

\* The retries of a past due subscription come to an end: it is paid, given
\* up, or has run out of attempts.
RetriesEnd == \A s \in Subs : Retriable(s) ~> ~ Retriable(s)
=============================================================================
