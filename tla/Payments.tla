------------------------------ MODULE Payments ------------------------------
(***************************************************************************)
(* Paying for one event of a community: backend/src/services/payment/      *)
(* GatewayService.ts (checkout, the payment and refund webhooks, refunds   *)
(* issued by an admin), jobs/expirePayments.job.ts, and cancelRsvp() of    *)
(* event.service.ts as far as it meets paid rows.                          *)
(*                                                                         *)
(* PayPlus, the payment gateway, is outside the repository: it shows the   *)
(* member a page, charges a card, gives money back, and reports what       *)
(* happened by webhooks that it may send late, in any order and more than  *)
(* once.  Its ledger holds what is true; the Payment rows what the server  *)
(* believes.                                                               *)
(*                                                                         *)
(* A worker serves one request or webhook; every await is a step of its    *)
(* own, and what the worker has loaded may be stale by the next one.       *)
(* The event is published, paid, of unlimited capacity, and not included   *)
(* in subscriptions.  A payment is for the event's price.                  *)
(***************************************************************************)
EXTENDS Handlers, Naturals, Integers, FiniteSets

CONSTANTS
    Members,      \* members of the community
    Payments,     \* ids of Payment rows
    Price,        \* payment.amountCents
    NoMember, NoPayment,
    EventDoc, CommunityDoc,   \* the documents that hold the counters
    MayCrash      \* whether the server may die, or the database fail a worker

ASSUME PriceAssumption == Price \in Nat \ {0}
ASSUME MayCrashAssumption == MayCrash \in BOOLEAN
ASSUME MembersAssumption == IsFiniteSet(Members)
ASSUME NamesAssumption ==
    /\ NoMember \notin Members /\ NoPayment \notin Payments
    /\ Members \cap Payments = {}
    /\ {EventDoc, CommunityDoc} \cap (Members \cup Payments) = {}

VARIABLES
    payment,   \* the Payment rows, by id
    owner,     \* payment.userId
    rows,      \* the EventRSVP row of each member
    metrics,   \* counters of the Event and of the Community document
    gateway,   \* PayPlus: what it did with each payment
    work       \* what the workers are doing
vars == <<payment, owner, rows, metrics, gateway, work>>

PaymentRow == [status : {"none", "pending", "succeeded", "failed",
                         "refunded", "partial_refund"},
               refunded : 0..Price,                   \* refundedAmountCents
               tx : {"none", "charge", "decline"}]    \* gatewayTransactionId
RsvpRow == [status : {"none", "going", "maybe", "cancelled"},
            paid : {"none", "paid", "refunded"},      \* paymentStatus
            pay : Payments \cup {NoPayment}]          \* paymentId

NoPaymentRow == [status |-> "none", refunded |-> 0, tx |-> "none"]
NoRsvpRow == [status |-> "none", paid |-> "none", pay |-> NoPayment]

Settled == {"succeeded", "refunded", "partial_refund"}

Pc == {"idle",
       "create", "openPage",                              \* createEventCheckout
       "load", "snapshot", "commit",                      \* onPaymentSuccess
       "fail",                                            \* onPaymentFailure
       "sync", "hookFind", "hookVacate", "uncount", "unbook", \* onRefundSuccess
       "ask", "record", "find", "vacate",                 \* issueRefund
       "release", "decrement"}                            \* cancelRsvp

Worker == [pc : Pc,
           user : Members \cup {NoMember},
           pay : Payments \cup {NoPayment},
           doc : PaymentRow,      \* the Payment row as loaded
           row : RsvpRow,         \* the EventRSVP row as loaded
           amount : 0..Price,     \* of a refund
           missed : SUBSET (Members \cup Payments \cup {EventDoc, CommunityDoc})]
                   \* documents written by others since the snapshot

Idle == [pc |-> "idle", user |-> NoMember, pay |-> NoPayment, doc |-> NoPaymentRow,
         row |-> NoRsvpRow, amount |-> 0, missed |-> {}]

TypeOK ==
    /\ payment \in [Payments -> PaymentRow]
    /\ owner \in [Payments -> Members \cup {NoMember}]
    /\ rows \in [Members -> RsvpRow]
    /\ metrics \in [rsvpCount : Nat, paidCount : Int,
                    booked : Nat, communityBooked : Int]
    /\ gateway \in [Payments -> [page : BOOLEAN, charged : BOOLEAN,
                                 declined : BOOLEAN, returned : 0..Price,
                                 notices : SUBSET (1..Price)]]
    /\ work \in [Workers -> Worker]

\* A member may have answered "maybe" before, without paying.
Init ==
    /\ payment = [p \in Payments |-> NoPaymentRow]
    /\ owner = [p \in Payments |-> NoMember]
    /\ rows \in [Members -> {NoRsvpRow, [NoRsvpRow EXCEPT !.status = "maybe"]}]
    /\ metrics = [rsvpCount |-> 0, paidCount |-> 0, booked |-> 0, communityBooked |-> 0]
    /\ gateway = [p \in Payments |-> [page |-> FALSE, charged |-> FALSE,
                                      declined |-> FALSE, returned |-> 0,
                                      notices |-> {}]]
    /\ work = [w \in Workers |-> Idle]

-----------------------------------------------------------------------------
(* Workers, and what they write.                                           *)

\* The documents a settling transaction is going to write.
WriteSet(q) ==
    {q.user, q.pay} \cup (IF q.row = NoRsvpRow THEN {EventDoc, CommunityDoc} ELSE {})

Notice(q, W) ==
    IF q.pc = "commit" THEN [q EXCEPT !.missed = @ \cup (W \cap WriteSet(q))] ELSE q

\* Worker w goes on as q after writing the documents W.
Go(w, q, W) ==
    work' = [v \in Workers |-> IF v = w THEN q ELSE Notice(work[v], W)]
GoTo(w, pc, W) == Go(w, [work[w] EXCEPT !.pc = pc], W)
Done(w, W) == Go(w, Idle, W)
At(w, pc) == work[w].pc = pc

\* save() of a document loaded as old and changed to new writes only the
\* fields that were changed.
Merge(cur, old, new) ==
    [f \in DOMAIN cur |-> IF new[f] # old[f] THEN new[f] ELSE cur[f]]
SavePayment(p, old, new) == payment' = [payment EXCEPT ![p] = Merge(@, old, new)]
SaveRow(u, old, new) == rows' = [rows EXCEPT ![u] = Merge(@, old, new)]

Start(w, q) ==
    /\ At(w, "idle")
    /\ Go(w, q, {})
    /\ UNCHANGED <<payment, owner, rows, metrics, gateway>>

-----------------------------------------------------------------------------
(* createEventCheckout()                                                   *)

\* Bound: no more checkouts are begun than there are ids left for their rows.
IdsLeft == Cardinality({p \in Payments : payment[p].status = "none"})
           > Cardinality({w \in Workers : At(w, "create")})

BeginCheckout(w, u) ==
    /\ IdsLeft
    /\ ~ (rows[u].status = "going" /\ rows[u].paid = "paid")
    /\ Start(w, [Idle EXCEPT !.pc = "create", !.user = u])

Create(w) ==
    /\ At(w, "create")
    /\ \E p \in Payments :
          /\ payment[p].status = "none"
          /\ payment' = [payment EXCEPT ![p].status = "pending"]
          /\ owner' = [owner EXCEPT ![p] = work[w].user]
          /\ Go(w, [work[w] EXCEPT !.pc = "openPage", !.pay = p], {p})
    /\ UNCHANGED <<rows, metrics, gateway>>

\* createPaymentPage() of the client: a page, or an error.
CreatePaymentPage(p) ==
    gateway' \in {gateway, [gateway EXCEPT ![p].page = TRUE]}

\* If the gateway fails the row is left pending.
OpenPage(w) ==
    /\ At(w, "openPage")
    /\ CreatePaymentPage(work[w].pay)
    /\ Done(w, {work[w].pay})     \* gatewayPaymentPageId
    /\ UNCHANGED <<payment, owner, rows, metrics>>

-----------------------------------------------------------------------------
(* The gateway and the member on its page.                                 *)

Charge(p) ==
    /\ gateway[p].page /\ ~ gateway[p].charged
    /\ gateway' = [gateway EXCEPT ![p].charged = TRUE]
    /\ UNCHANGED <<payment, owner, rows, metrics, work>>

Decline(p) ==
    /\ gateway[p].page /\ ~ gateway[p].charged /\ ~ gateway[p].declined
    /\ gateway' = [gateway EXCEPT ![p].declined = TRUE]
    /\ UNCHANGED <<payment, owner, rows, metrics, work>>

Return(p, amount) ==
    /\ gateway[p].charged /\ gateway[p].returned + amount <= Price
    /\ gateway' = [gateway EXCEPT ![p].returned = @ + amount,
                                  ![p].notices = @ \cup {amount}]

\* A refund made in the gateway's own dashboard.
DashboardRefund(p, amount) ==
    /\ Return(p, amount)
    /\ UNCHANGED <<payment, owner, rows, metrics, work>>

-----------------------------------------------------------------------------
(* onPaymentSuccess() and settleEventPayment()                             *)

\* Mutant of BeginSuccess: every status but pending counts as final.
BeginSuccessPendingOnly(w, p) ==
    /\ gateway[p].charged
    /\ payment[p].status = "pending"
    /\ Start(w, [Idle EXCEPT !.pc = "load", !.pay = p, !.user = owner[p]])

BeginSuccess(w, p) ==
    /\ gateway[p].charged
    /\ payment[p].status \notin {"succeeded", "refunded"}
    /\ Start(w, [Idle EXCEPT !.pc = "load", !.pay = p, !.user = owner[p]])

Load(w) ==
    LET doc == payment[work[w].pay] IN
    /\ At(w, "load")
    /\ IF doc.status = "succeeded"
       THEN Done(w, {})
       ELSE Go(w, [work[w] EXCEPT !.pc = "snapshot", !.doc = doc], {})
    /\ UNCHANGED <<payment, owner, rows, metrics, gateway>>

Snapshot(w) ==
    /\ At(w, "snapshot")
    /\ Go(w, [work[w] EXCEPT !.pc = "commit", !.row = rows[work[w].user],
                             !.missed = {}], {})
    /\ UNCHANGED <<payment, owner, rows, metrics, gateway>>

TicketFor(q) == [status |-> "going", paid |-> "paid", pay |-> q.pay]

\* The Payment row was loaded before the transaction: it is overwritten
\* whatever it has become, and only a write since the snapshot conflicts.
SavePaid(q) ==
    SavePayment(q.pay, q.doc, [q.doc EXCEPT !.status = "succeeded", !.tx = "charge"])

\* Mutant of SettleExisting: the counters move although the row is not new.
SettleExistingCounts(w) ==
    LET q == work[w]
        saved == {q.pay} \cup (IF q.row = TicketFor(q) THEN {} ELSE {q.user}) IN
    /\ At(w, "commit") /\ q.row # NoRsvpRow /\ q.missed \cap saved = {}
    /\ SaveRow(q.user, q.row, TicketFor(q))
    /\ SavePaid(q)
    /\ metrics' = [metrics EXCEPT !.rsvpCount = @ + 1, !.paidCount = @ + 1,
                                  !.booked = @ + Price, !.communityBooked = @ + Price]
    /\ Done(w, saved \cup {EventDoc, CommunityDoc})
    /\ UNCHANGED <<owner, gateway>>

SettleExisting(w) ==
    LET q == work[w]
        saved == {q.pay} \cup (IF q.row = TicketFor(q) THEN {} ELSE {q.user}) IN
    /\ At(w, "commit") /\ q.row # NoRsvpRow /\ q.missed \cap saved = {}
    /\ SaveRow(q.user, q.row, TicketFor(q))
    /\ SavePaid(q)
    /\ Done(w, saved)
    /\ UNCHANGED <<owner, metrics, gateway>>

SettleNew(w) ==
    LET q == work[w] IN
    /\ At(w, "commit") /\ q.row = NoRsvpRow /\ q.missed = {}
    /\ rows' = [rows EXCEPT ![q.user] = TicketFor(q)]
    /\ SavePaid(q)
    /\ metrics' = [metrics EXCEPT !.rsvpCount = @ + 1, !.paidCount = @ + 1,
                                  !.booked = @ + Price, !.communityBooked = @ + Price]
    /\ Done(w, WriteSet(q))
    /\ UNCHANGED <<owner, gateway>>

\* A write conflict: withTransaction runs the callback again.
Retry(w) ==
    LET q == work[w] IN
    /\ At(w, "commit")
    /\ IF q.row = TicketFor(q) THEN q.pay \in q.missed ELSE q.missed # {}
    /\ GoTo(w, "snapshot", {})
    /\ UNCHANGED <<payment, owner, rows, metrics, gateway>>

\* The conflict was on the unique (eventId, userId) index: the webhook fails.
DuplicateRow(w) ==
    /\ At(w, "commit") /\ work[w].row = NoRsvpRow /\ work[w].user \in work[w].missed
    /\ Done(w, {})
    /\ UNCHANGED <<payment, owner, rows, metrics, gateway>>

-----------------------------------------------------------------------------
(* onPaymentFailure() and the job that expires pending payments            *)

\* Mutant of BeginFailure: it does not matter whether the row is pending.
BeginFailureAlways(w, p) ==
    /\ gateway[p].declined
    /\ Start(w, [Idle EXCEPT !.pc = "fail", !.pay = p, !.doc = payment[p]])

BeginFailure(w, p) ==
    /\ gateway[p].declined
    /\ payment[p].status = "pending"
    /\ Start(w, [Idle EXCEPT !.pc = "fail", !.pay = p, !.doc = payment[p]])

\* The gateway may or may not name a transaction that failed.
Fail(w) ==
    LET q == work[w] IN
    /\ At(w, "fail")
    /\ \E tx \in {q.doc.tx, "decline"} :
          SavePayment(q.pay, q.doc, [q.doc EXCEPT !.status = "failed", !.tx = tx])
    /\ Done(w, {q.pay})
    /\ UNCHANGED <<owner, rows, metrics, gateway>>

\* updateMany is atomic for each row; which rows are old enough is open.
Expire(p) ==
    /\ payment[p].status = "pending"
    /\ payment' = [payment EXCEPT ![p].status = "failed"]
    /\ work' = [v \in Workers |-> Notice(work[v], {p})]
    /\ UNCHANGED <<owner, rows, metrics, gateway>>

-----------------------------------------------------------------------------
(* Refunds                                                                 *)

\* Mutant of WithRefund: off by one.
WithRefundAbove(doc, refunded) ==
    [doc EXCEPT !.refunded = refunded,
                !.status = IF refunded > Price THEN "refunded" ELSE "partial_refund"]

\* doc with refunded cents given back in all.
WithRefund(doc, refunded) ==
    [doc EXCEPT !.refunded = refunded,
                !.status = IF refunded >= Price THEN "refunded" ELSE "partial_refund"]

\* The refund is recorded; a full one goes on to the member's row.
RecordRefund(w, refunded, next) ==
    LET q == work[w]
        doc == WithRefund(q.doc, refunded) IN
    /\ SavePayment(q.pay, q.doc, doc)
    /\ IF doc.status = "refunded" THEN GoTo(w, next, {q.pay}) ELSE Done(w, {q.pay})
    /\ UNCHANGED <<owner, rows, metrics, gateway>>

Vacated(row) == [row EXCEPT !.status = "cancelled", !.paid = "refunded"]

(* issueRefund() *)

BeginRefund(w, p, amount) ==
    /\ payment[p].status \in {"succeeded", "partial_refund"}
    /\ payment[p].tx # "none"
    /\ amount <= Price - payment[p].refunded
    /\ Start(w, [Idle EXCEPT !.pc = "ask", !.pay = p, !.user = owner[p],
                             !.doc = payment[p], !.amount = amount])

\* refund() of the client: the gateway gives the money back and says so; or
\* does and the answer is lost (a timeout); or refuses.
Refund(q, succeeded) ==
    \/ q.doc.tx = "charge" /\ Return(q.pay, q.amount) 
    \/ UNCHANGED gateway /\ ~ succeeded

\* Mutant of Ask: the gateway's refusal is not looked at.
AskUnchecked(w) ==
    /\ At(w, "ask")
    /\ \E succeeded \in BOOLEAN : Refund(work[w], succeeded)
    /\ GoTo(w, "record", {})
    /\ UNCHANGED <<payment, owner, rows, metrics>>

Ask(w) ==
    /\ At(w, "ask")
    /\ \E succeeded \in BOOLEAN :
          /\ Refund(work[w], succeeded)
          /\ IF succeeded THEN GoTo(w, "record", {}) ELSE Done(w, {})
    /\ UNCHANGED <<payment, owner, rows, metrics>>

\* Mutant of Record: a full refund leaves the ticket alive.
RecordOnly(w) ==
    LET q == work[w] IN
    /\ At(w, "record")
    /\ SavePayment(q.pay, q.doc, WithRefund(q.doc, q.doc.refunded + q.amount))
    /\ Done(w, {q.pay})
    /\ UNCHANGED <<owner, rows, metrics, gateway>>

Record(w) ==
    /\ At(w, "record")
    /\ RecordRefund(w, work[w].doc.refunded + work[w].amount, "find")

Find(w) ==
    LET row == rows[work[w].user] IN
    /\ At(w, "find")
    /\ IF row = NoRsvpRow THEN Done(w, {})
       ELSE Go(w, [work[w] EXCEPT !.pc = "vacate", !.row = row], {})
    /\ UNCHANGED <<payment, owner, rows, metrics, gateway>>

Vacate(w) ==
    LET q == work[w] IN
    /\ At(w, "vacate")
    /\ SaveRow(q.user, q.row, Vacated(q.row))
    /\ Done(w, {q.user})
    /\ UNCHANGED <<payment, owner, metrics, gateway>>

(* onRefundSuccess(): the row is found by the transaction of the charge. *)

BeginRefundHook(w, p, amount) ==
    /\ amount \in gateway[p].notices
    /\ payment[p].tx = "charge" /\ payment[p].refunded < Price
    /\ Start(w, [Idle EXCEPT !.pc = "sync", !.pay = p, !.user = owner[p],
                             !.doc = payment[p], !.amount = amount])

Larger(a, b) == IF a > b THEN a ELSE b

Sync(w) ==
    /\ At(w, "sync")
    /\ RecordRefund(w, Larger(work[w].doc.refunded, work[w].amount), "hookFind")

HookFind(w) ==
    LET row == rows[work[w].user] IN
    /\ At(w, "hookFind")
    /\ IF row.status \in {"none", "cancelled"} THEN Done(w, {})
       ELSE Go(w, [work[w] EXCEPT !.pc = "hookVacate", !.row = row], {})
    /\ UNCHANGED <<payment, owner, rows, metrics, gateway>>

HookVacate(w) ==
    LET q == work[w] IN
    /\ At(w, "hookVacate")
    /\ SaveRow(q.user, q.row, Vacated(q.row))
    /\ GoTo(w, "uncount", {q.user})
    /\ UNCHANGED <<payment, owner, metrics, gateway>>

\* Both counters move, or none: the update is filtered by rsvpCount > 0.
Uncount(w) ==
    /\ At(w, "uncount")
    /\ IF metrics.rsvpCount > 0
       THEN /\ metrics' = [metrics EXCEPT !.rsvpCount = @ - 1, !.paidCount = @ - 1]
            /\ GoTo(w, "unbook", {EventDoc})
       ELSE UNCHANGED metrics /\ GoTo(w, "unbook", {})
    /\ UNCHANGED <<payment, owner, rows, gateway>>

Unbook(w) ==
    /\ At(w, "unbook")
    /\ metrics' = [metrics EXCEPT !.communityBooked = @ - Price]
    /\ Done(w, {CommunityDoc})
    /\ UNCHANGED <<payment, owner, rows, gateway>>

-----------------------------------------------------------------------------
(* cancelRsvp(): without a capacity nobody waits for the seat.             *)

BeginCancel(w, u) ==
    /\ rows[u] # NoRsvpRow
    /\ Start(w, [Idle EXCEPT !.pc = "release", !.user = u, !.row = rows[u]])

Release(w) ==
    LET q == work[w]
        saved == IF q.row.status = "cancelled" THEN {} ELSE {q.user} IN
    /\ At(w, "release")
    /\ SaveRow(q.user, q.row, [q.row EXCEPT !.status = "cancelled"])
    /\ GoTo(w, "decrement", saved)
    /\ UNCHANGED <<payment, owner, metrics, gateway>>

Decrement(w) ==
    LET touched == metrics.rsvpCount > 0 IN
    /\ At(w, "decrement")
    /\ metrics' = IF touched /\ work[w].row.status = "going"
                  THEN [metrics EXCEPT !.rsvpCount = @ - 1] ELSE metrics
    /\ Done(w, IF touched THEN {EventDoc} ELSE {})
    /\ UNCHANGED <<payment, owner, rows, gateway>>

-----------------------------------------------------------------------------

\* The process dies, or the database throws: the worker is gone.
Crash(w) ==
    /\ MayCrash /\ ~ At(w, "idle")
    /\ Done(w, {})
    /\ UNCHANGED <<payment, owner, rows, metrics, gateway>>

Begin(w) ==
    \/ \E u \in Members : BeginCheckout(w, u) \/ BeginCancel(w, u)
    \/ \E p \in Payments : BeginSuccess(w, p) \/ BeginFailure(w, p)
    \/ \E p \in Payments, amount \in 1..Price :
          BeginRefund(w, p, amount) \/ BeginRefundHook(w, p, amount)

SettleStep(w) ==
    \/ Load(w) \/ Snapshot(w) \/ SettleExisting(w) \/ SettleNew(w)
    \/ Retry(w) \/ DuplicateRow(w)
RefundStep(w) == Ask(w) \/ Record(w) \/ Find(w) \/ Vacate(w)
RefundHookStep(w) ==
    Sync(w) \/ HookFind(w) \/ HookVacate(w) \/ Uncount(w) \/ Unbook(w)
Step(w) ==
    \/ Create(w) \/ OpenPage(w) \/ SettleStep(w) \/ Fail(w)
    \/ RefundStep(w) \/ RefundHookStep(w) \/ Release(w) \/ Decrement(w)

GatewayStep ==
    \/ \E p \in Payments : Charge(p) \/ Decline(p)
    \/ \E p \in Payments, amount \in 1..Price : DashboardRefund(p, amount)

Next ==
    \/ \E w \in Workers : Begin(w) \/ Step(w) \/ Crash(w)
    \/ GatewayStep
    \/ \E p \in Payments : Expire(p)

Spec == Init /\ [][Next]_vars

\* The event loop runs every handler on, and the gateway sends a success
\* again for as long as the server has not taken it in.
Fairness ==
    /\ \A w \in Workers : WF_vars(Step(w))
    /\ \A p \in Payments : SF_vars(\E w \in Workers : BeginSuccess(w, p))
FairSpec == Spec /\ Fairness

-----------------------------------------------------------------------------
(* Properties.                                                             *)

Quiet == \A w \in Workers : At(w, "idle")

\* However handlers, webhooks and crashes interleave, a Payment row never
\* claims more money given back than the gateway gave back, although each
\* refund adds to a sum it loaded before the gateway's answer
\* (GatewayService.ts:292) and webhooks are sent again (:554).
RefundsNeverOverstated ==
    \A p \in Payments : payment[p].refunded <= gateway[p].returned

\* A member's payments are booked in the event's revenue once, however often
\* the success of any of them is reported and however the settlements overlap
\* (GatewayService.ts:653-684).
BookedOncePerMember ==
    metrics.booked <= Price * Cardinality({u \in Members : rows[u] # NoRsvpRow})

\* A valid ticket is backed by money the server still holds: the member has a
\* payment that is settled and not given back in full ("Full refund cancels
\* the RSVP", GatewayService.ts:298).  True while workers do not overlap.
TicketIsPaid ==
    Quiet => \A u \in Members :
        rows[u].status = "going" /\ rows[u].paid = "paid" =>
            \E p \in Payments :
                owner[p] = u /\ payment[p].status \in {"succeeded", "partial_refund"}

\* The status and the amount of a Payment row agree on full refunds.  True
\* while workers do not overlap.
RefundedInFull ==
    \A p \in Payments : payment[p].status = "refunded" <=> payment[p].refunded = Price

\* A settled payment is never taken for a failed or an open one again, and one
\* refunded in full stays so ("skip if Payment already final",
\* GatewayService.ts:27).  True while workers do not overlap.
SettledStays ==
    [][\A p \in Payments :
          /\ payment[p].status \in Settled => payment[p].status' \in Settled
          /\ payment[p].status = "refunded" => payment[p].status' = "refunded"]_vars

\* Who was charged has the payment settled in the end: an expiry or a declined
\* first attempt does not stand in the way of a success reported later.
ChargedIsSettled ==
    \A p \in Payments : gateway[p].charged ~> payment[p].status \in Settled
=============================================================================
