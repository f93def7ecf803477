---------------------------- MODULE BillingProofs ----------------------------
(***************************************************************************)
(* Theorems about Payments and Subscriptions: for any number of members,   *)
(* payments, subscriptions, charges and overlapping workers, with crashes, *)
(* lost answers of the gateway, and webhooks that are late, repeated or    *)
(* out of order.                                                           *)
(***************************************************************************)
EXTENDS Payments, Subscriptions, FiniteSetTheorems, TLAPS


-----------------------------------------------------------------------------
(* PAYMENTS                                                                *)

Docs == Members \cup Payments \cup {EventDoc, CommunityDoc}

PayGatewayRow == [page : BOOLEAN, charged : BOOLEAN, declined : BOOLEAN,
               returned : 0..Price, notices : SUBSET (1..Price)]
MetricsRow == [rsvpCount : Nat, paidCount : Int, booked : Nat, communityBooked : Int]

\* What a worker has when it reaches a round trip.  The sums it is about to
\* record are covered by what the gateway has given back.
PayWorkerOK(q, own, gw) ==
    /\ q.pc \notin {"idle", "create", "release", "decrement"} =>
          q.pay \in Payments /\ own[q.pay] \in Members
    /\ q.pc \notin {"idle", "fail"} => q.user \in Members
    /\ q.pc \in {"ask", "sync"} => q.doc.refunded <= gw[q.pay].returned
    /\ q.pc = "ask" => q.amount # 0
    /\ q.pc = "sync" => q.amount <= gw[q.pay].returned
    /\ q.pc = "record" => q.doc.refunded + q.amount <= gw[q.pay].returned

PayWorkInv ==
    /\ work \in [Workers -> Worker]
    /\ \A w \in Workers : PayWorkerOK(work[w], owner, gateway)

\* Nothing happens to a payment before its row is there and has an owner.
Owned ==
    \A p \in Payments :
        payment[p].status # "none" \/ payment[p].tx # "none"
        \/ gateway[p].page \/ gateway[p].charged => owner[p] \in Members

\* The gateway never reports a refund larger than what it gave back.
NoticesCovered ==
    \A p \in Payments : \A amount \in gateway[p].notices : amount <= gateway[p].returned

DataInv ==
    /\ payment \in [Payments -> PaymentRow]
    /\ owner \in [Payments -> Members \cup {NoMember}]
    /\ rows \in [Members -> RsvpRow]
    /\ metrics \in MetricsRow
    /\ gateway \in [Payments -> PayGatewayRow]
    /\ Owned
    /\ NoticesCovered
    /\ RefundsNeverOverstated

PayInv == DataInv /\ PayWorkInv

-----------------------------------------------------------------------------
(* Workers.                                                                *)

LEMMA NoticeType ==
    ASSUME NEW q \in Worker, NEW W \in SUBSET Docs
    PROVE  /\ Notice(q, W) \in Worker
           /\ Notice(q, W) = [q EXCEPT !.missed = Notice(q, W).missed]
<1>1. CASE q.pc = "commit"
  <2>1. q.missed \cup (W \cap WriteSet(q)) \in SUBSET Docs
    BY DEF Worker, Docs
  <2> QED BY <1>1, <2>1 DEF Notice, Worker, Docs
<1>2. CASE q.pc # "commit"
  BY <1>2 DEF Notice, Worker
<1> QED BY <1>1, <1>2

\* What the other workers have stays covered while owners stay and the
\* gateway takes nothing back.
Grows ==
    \A p \in Payments :
        /\ owner[p] \in Members => owner'[p] \in Members
        /\ gateway[p].returned <= gateway'[p].returned

LEMMA OthersKept ==
    ASSUME gateway \in [Payments -> PayGatewayRow], gateway' \in [Payments -> PayGatewayRow],
           Grows, NEW q \in Worker, PayWorkerOK(q, owner, gateway)
    PROVE  PayWorkerOK(q, owner', gateway')
<1>1. q.doc.refunded \in Nat /\ q.amount \in Nat
  BY PriceAssumption DEF Worker, PaymentRow
<1>2. ASSUME q.pay \in Payments
      PROVE  /\ gateway[q.pay].returned \in Nat /\ gateway'[q.pay].returned \in Nat
             /\ gateway[q.pay].returned <= gateway'[q.pay].returned
             /\ owner[q.pay] \in Members => owner'[q.pay] \in Members
  BY <1>2, PriceAssumption DEF PayGatewayRow, Grows
<1> QED BY <1>1, <1>2 DEF PayWorkerOK

LEMMA NoticeOK ==
    ASSUME NEW q \in Worker, NEW W \in SUBSET Docs, NEW own, NEW gw, PayWorkerOK(q, own, gw)
    PROVE  PayWorkerOK(Notice(q, W), own, gw)
BY NoticeType DEF PayWorkerOK, Worker

LEMMA GoOK ==
    ASSUME PayWorkInv, gateway \in [Payments -> PayGatewayRow],
           gateway' \in [Payments -> PayGatewayRow], Grows,
           NEW w \in Workers, NEW q \in Worker, NEW W \in SUBSET Docs,
           Go(w, q, W), PayWorkerOK(q, owner', gateway')
    PROVE  PayWorkInv'
<1>1. ASSUME NEW v \in Workers
      PROVE  work'[v] \in Worker /\ PayWorkerOK(work'[v], owner', gateway')
  <2>1. CASE v = w
    BY <2>1 DEF Go
  <2>2. CASE v # w
    <3>1. work'[v] = Notice(work[v], W)
      BY <2>2 DEF Go
    <3>2. work[v] \in Worker /\ PayWorkerOK(work[v], owner, gateway)
      BY DEF PayWorkInv
    <3>3. PayWorkerOK(work[v], owner', gateway')
      BY <3>2, OthersKept
    <3> QED BY <3>1, <3>2, <3>3, NoticeType, NoticeOK
  <2> QED BY <2>1, <2>2
<1>2. work' = [v \in Workers |-> work'[v]]
  BY DEF Go
<1> QED BY <1>1, <1>2 DEF PayWorkInv

LEMMA IdleType ==
    /\ Idle \in Worker
    /\ Idle.pc = "idle"
BY PriceAssumption DEF Idle, Worker, Pc, NoPaymentRow, PaymentRow, NoRsvpRow, RsvpRow

LEMMA DoneOK ==
    ASSUME PayWorkInv, gateway \in [Payments -> PayGatewayRow],
           gateway' \in [Payments -> PayGatewayRow], Grows,
           NEW w \in Workers, NEW W \in SUBSET Docs, Done(w, W)
    PROVE  PayWorkInv'
<1>1. PayWorkerOK(Idle, owner', gateway')
  BY IdleType DEF PayWorkerOK
<1> QED BY <1>1, IdleType, GoOK DEF Done

\* The worker goes on to pc, where it has what it needs.
LEMMA GoToOK ==
    ASSUME PayWorkInv, gateway \in [Payments -> PayGatewayRow],
           gateway' \in [Payments -> PayGatewayRow], Grows,
           NEW w \in Workers, NEW pc \in Pc, NEW W \in SUBSET Docs, GoTo(w, pc, W),
           PayWorkerOK([work[w] EXCEPT !.pc = pc], owner', gateway')
    PROVE  PayWorkInv'
<1> DEFINE q == [work[w] EXCEPT !.pc = pc]
<1>1. q \in Worker
  BY DEF PayWorkInv, Worker
<1>2. Go(w, q, W) /\ PayWorkerOK(q, owner', gateway')
  BY DEF GoTo
<1> HIDE DEF q
<1> QED BY <1>1, <1>2, GoOK

-----------------------------------------------------------------------------
(* Data.                                                                   *)

LEMMA GrowsSame == UNCHANGED <<owner, gateway>> /\ gateway \in [Payments -> PayGatewayRow] => Grows
BY PriceAssumption DEF Grows, PayGatewayRow

LEMMA DataSame ==
    ASSUME DataInv, UNCHANGED <<payment, owner, rows, metrics, gateway>>
    PROVE  DataInv'
BY DEF DataInv, Owned, NoticesCovered, RefundsNeverOverstated

LEMMA DataRows ==
    ASSUME DataInv, rows' \in [Members -> RsvpRow],
           UNCHANGED <<payment, owner, metrics, gateway>>
    PROVE  DataInv'
BY DEF DataInv, Owned, NoticesCovered, RefundsNeverOverstated

LEMMA DataMetrics ==
    ASSUME DataInv, metrics' \in MetricsRow,
           UNCHANGED <<payment, owner, rows, gateway>>
    PROVE  DataInv'
BY DEF DataInv, Owned, NoticesCovered, RefundsNeverOverstated

LEMMA MergePayment ==
    ASSUME NEW cur \in PaymentRow, NEW old \in PaymentRow, NEW new \in PaymentRow
    PROVE  /\ Merge(cur, old, new) \in PaymentRow
           /\ Merge(cur, old, new).refunded \in {cur.refunded, new.refunded}
           /\ new.refunded = old.refunded => Merge(cur, old, new).refunded = cur.refunded
<1> DEFINE st == IF new.status # old.status THEN new.status ELSE cur.status
           re == IF new.refunded # old.refunded THEN new.refunded ELSE cur.refunded
           tx == IF new.tx # old.tx THEN new.tx ELSE cur.tx
<1>1. Merge(cur, old, new) = [status |-> st, refunded |-> re, tx |-> tx]
  BY DEF Merge, PaymentRow
<1>2. [status |-> st, refunded |-> re, tx |-> tx] \in PaymentRow
  BY DEF PaymentRow
<1> QED BY <1>1, <1>2

LEMMA MergeRow ==
    ASSUME NEW cur \in RsvpRow, NEW old \in RsvpRow, NEW new \in RsvpRow
    PROVE  Merge(cur, old, new) \in RsvpRow
<1> DEFINE st == IF new.status # old.status THEN new.status ELSE cur.status
           pd == IF new.paid # old.paid THEN new.paid ELSE cur.paid
           py == IF new.pay # old.pay THEN new.pay ELSE cur.pay
<1>1. Merge(cur, old, new) = [status |-> st, paid |-> pd, pay |-> py]
  BY DEF Merge, RsvpRow
<1>2. [status |-> st, paid |-> pd, pay |-> py] \in RsvpRow
  BY DEF RsvpRow
<1> QED BY <1>1, <1>2

\* A save of a Payment row changes the amount given back only to one that is
\* covered.
LEMMA SavePaymentOK ==
    ASSUME DataInv, NEW p \in Payments, owner[p] \in Members,
           NEW old \in PaymentRow, NEW new \in PaymentRow, SavePayment(p, old, new),
           new.refunded = old.refunded \/ new.refunded <= gateway[p].returned,
           UNCHANGED <<owner, gateway>>
    PROVE  /\ payment' \in [Payments -> PaymentRow]
           /\ Owned' /\ NoticesCovered' /\ RefundsNeverOverstated'
<1> DEFINE m == Merge(payment[p], old, new)
<1>1. payment[p] \in PaymentRow
  BY DEF DataInv
<1>2. m \in PaymentRow /\ m.refunded \in {payment[p].refunded, new.refunded}
      /\ (new.refunded = old.refunded => m.refunded = payment[p].refunded)
  BY <1>1, MergePayment
<1>3. payment' = [payment EXCEPT ![p] = m]
  BY DEF SavePayment
<1> HIDE DEF m
<1>4. payment' \in [Payments -> PaymentRow]
  BY <1>2, <1>3 DEF DataInv
<1>5. m.refunded <= gateway[p].returned
  BY <1>2 DEF DataInv, RefundsNeverOverstated
<1>6. \A x \in Payments : payment'[x] = IF x = p THEN m ELSE payment[x]
  BY <1>3 DEF DataInv
<1>7. RefundsNeverOverstated'
  BY <1>5, <1>6 DEF DataInv, RefundsNeverOverstated
<1>8. Owned'
  BY <1>6 DEF DataInv, Owned
<1> QED BY <1>4, <1>7, <1>8 DEF DataInv, NoticesCovered

LEMMA SaveRowOK ==
    ASSUME DataInv, NEW u \in Members, NEW old \in RsvpRow, NEW new \in RsvpRow,
           SaveRow(u, old, new)
    PROVE  rows' \in [Members -> RsvpRow]
<1>1. Merge(rows[u], old, new) \in RsvpRow
  BY MergeRow DEF DataInv
<1> QED BY <1>1 DEF SaveRow, DataInv

\* What PayInv says of a worker that is not idle.
LEMMA PayWorkerType ==
    ASSUME PayInv, NEW w \in Workers
    PROVE  /\ work[w] \in Worker /\ PayWorkerOK(work[w], owner, gateway)
           /\ work[w].doc \in PaymentRow /\ work[w].row \in RsvpRow
           /\ work[w].amount \in 0..Price
BY DEF PayInv, PayWorkInv, Worker

-----------------------------------------------------------------------------
(* Requests and webhooks arrive.                                           *)

LEMMA StartOK ==
    ASSUME PayInv, NEW w \in Workers, NEW q \in Worker, Start(w, q),
           PayWorkerOK(q, owner, gateway)
    PROVE  PayInv'
<1>1. DataInv'
  BY DataSame DEF Start, PayInv
<1>2. Grows /\ gateway \in [Payments -> PayGatewayRow] /\ gateway' \in [Payments -> PayGatewayRow]
  BY GrowsSame DEF Start, PayInv, DataInv
<1>3. {} \in SUBSET Docs /\ Go(w, q, {}) /\ PayWorkerOK(q, owner', gateway')
  BY DEF Start
<1> QED BY <1>1, <1>2, <1>3, GoOK DEF PayInv

LEMMA PayBeginOK ==
    ASSUME PayInv, NEW w \in Workers, Begin(w)
    PROVE  PayInv'
<1>1. ASSUME NEW u \in Members, BeginCheckout(w, u)
      PROVE  PayInv'
  <2> DEFINE q == [Idle EXCEPT !.pc = "create", !.user = u]
  <2>1. q \in Worker /\ q.pc = "create" /\ q.user = u
    BY IdleType DEF Worker, Pc
  <2>2. Start(w, q)
    BY <1>1 DEF BeginCheckout
  <2> HIDE DEF q
  <2>3. PayWorkerOK(q, owner, gateway)
    BY <2>1 DEF PayWorkerOK
  <2> QED BY <2>1, <2>2, <2>3, StartOK
<1>2. ASSUME NEW u \in Members, BeginCancel(w, u)
      PROVE  PayInv'
  <2> DEFINE q == [Idle EXCEPT !.pc = "release", !.user = u, !.row = rows[u]]
  <2>1. q \in Worker /\ q.pc = "release" /\ q.user = u
    BY IdleType DEF Worker, Pc, PayInv, DataInv
  <2>2. Start(w, q)
    BY <1>2 DEF BeginCancel
  <2> HIDE DEF q
  <2>3. PayWorkerOK(q, owner, gateway)
    BY <2>1 DEF PayWorkerOK
  <2> QED BY <2>1, <2>2, <2>3, StartOK
<1>3. ASSUME NEW p \in Payments, BeginSuccess(w, p)
      PROVE  PayInv'
  <2> DEFINE q == [Idle EXCEPT !.pc = "load", !.pay = p, !.user = owner[p]]
  <2>1. owner[p] \in Members
    BY <1>3 DEF BeginSuccess, PayInv, DataInv, Owned
  <2>2. q \in Worker /\ q.pc = "load" /\ q.user = owner[p] /\ q.pay = p
    BY <2>1, IdleType DEF Worker, Pc
  <2>3. Start(w, q)
    BY <1>3 DEF BeginSuccess
  <2> HIDE DEF q
  <2>4. PayWorkerOK(q, owner, gateway)
    BY <2>1, <2>2 DEF PayWorkerOK
  <2> QED BY <2>2, <2>3, <2>4, StartOK
<1>4. ASSUME NEW p \in Payments, BeginFailure(w, p)
      PROVE  PayInv'
  <2> DEFINE q == [Idle EXCEPT !.pc = "fail", !.pay = p, !.doc = payment[p]]
  <2>1. owner[p] \in Members
    BY <1>4 DEF BeginFailure, PayInv, DataInv, Owned
  <2>2. q \in Worker /\ q.pc = "fail" /\ q.pay = p
    BY IdleType DEF Worker, Pc, PayInv, DataInv
  <2>3. Start(w, q)
    BY <1>4 DEF BeginFailure
  <2> HIDE DEF q
  <2>4. PayWorkerOK(q, owner, gateway)
    BY <2>1, <2>2 DEF PayWorkerOK
  <2> QED BY <2>2, <2>3, <2>4, StartOK
<1>5. ASSUME NEW p \in Payments, NEW amount \in 1..Price,
             BeginRefund(w, p, amount) \/ BeginRefundHook(w, p, amount)
      PROVE  PayInv'
  <2>1. PICK pc \in {"ask", "sync"} :
          /\ Start(w, [Idle EXCEPT !.pc = pc, !.pay = p, !.user = owner[p],
                                   !.doc = payment[p], !.amount = amount])
          /\ pc = "sync" => amount \in gateway[p].notices
    BY <1>5 DEF BeginRefund, BeginRefundHook
  <2> DEFINE q == [Idle EXCEPT !.pc = pc, !.pay = p, !.user = owner[p],
                               !.doc = payment[p], !.amount = amount]
  <2>2. owner[p] \in Members
    BY <1>5 DEF BeginRefund, BeginRefundHook, PayInv, DataInv, Owned
  <2>3. /\ q \in Worker /\ q.pc = pc /\ q.pay = p /\ q.user = owner[p]
        /\ q.doc = payment[p] /\ q.amount = amount
    <3>1. amount \in 0..Price /\ payment[p] \in PaymentRow /\ pc \in Pc
      BY PriceAssumption DEF PayInv, DataInv, Pc
    <3> QED BY <2>2, <3>1, IdleType DEF Worker
  <2>4. Start(w, q)
    BY <2>1
  <2> HIDE DEF q
  <2>5. payment[p].refunded <= gateway[p].returned
    BY DEF PayInv, DataInv, RefundsNeverOverstated
  <2>6. pc = "sync" => amount <= gateway[p].returned
    BY <2>1 DEF PayInv, DataInv, NoticesCovered
  <2>7. PayWorkerOK(q, owner, gateway)
    BY <2>2, <2>3, <2>5, <2>6 DEF PayWorkerOK
  <2> QED BY <2>3, <2>4, <2>7, StartOK
<1> QED BY <1>1, <1>2, <1>3, <1>4, <1>5 DEF Begin

-----------------------------------------------------------------------------
(* Steps of the workers.                                                   *)

\* A step that leaves the data alone, or changes only rows or counters, and
\* takes the worker to a place where it has what it needs.
LEMMA QuietGo ==
    ASSUME PayInv, DataInv', UNCHANGED <<owner, gateway>>,
           NEW w \in Workers, NEW q \in Worker, NEW W \in SUBSET Docs, Go(w, q, W),
           PayWorkerOK(q, owner, gateway)
    PROVE  PayInv'
<1>1. Grows /\ gateway \in [Payments -> PayGatewayRow] /\ gateway' \in [Payments -> PayGatewayRow]
  BY GrowsSame DEF PayInv, DataInv
<1>2. PayWorkerOK(q, owner', gateway')
  OBVIOUS
<1> QED BY <1>1, <1>2, GoOK DEF PayInv

LEMMA QuietGoTo ==
    ASSUME PayInv, DataInv', UNCHANGED <<owner, gateway>>,
           NEW w \in Workers, NEW pc \in Pc, NEW W \in SUBSET Docs, GoTo(w, pc, W),
           PayWorkerOK([work[w] EXCEPT !.pc = pc], owner, gateway)
    PROVE  PayInv'
<1>1. Grows /\ gateway \in [Payments -> PayGatewayRow] /\ gateway' \in [Payments -> PayGatewayRow]
  BY GrowsSame DEF PayInv, DataInv
<1>2. PayWorkerOK([work[w] EXCEPT !.pc = pc], owner', gateway')
  OBVIOUS
<1> QED BY <1>1, <1>2, GoToOK DEF PayInv

LEMMA QuietDone ==
    ASSUME PayInv, DataInv', UNCHANGED <<owner, gateway>>,
           NEW w \in Workers, NEW W \in SUBSET Docs, Done(w, W)
    PROVE  PayInv'
<1>1. Grows /\ gateway \in [Payments -> PayGatewayRow] /\ gateway' \in [Payments -> PayGatewayRow]
  BY GrowsSame DEF PayInv, DataInv
<1> QED BY <1>1, DoneOK DEF PayInv

LEMMA PayCreateOK ==
    ASSUME PayInv, NEW w \in Workers, Create(w)
    PROVE  PayInv'
<1> DEFINE u == work[w].user
<1>1. PICK p \in Payments :
        /\ payment[p].status = "none"
        /\ payment' = [payment EXCEPT ![p].status = "pending"]
        /\ owner' = [owner EXCEPT ![p] = u]
        /\ Go(w, [work[w] EXCEPT !.pc = "openPage", !.pay = p], {p})
  BY DEF Create
<1>2. u \in Members /\ work[w] \in Worker
  BY PayWorkerType DEF Create, At, PayWorkerOK
<1>3. UNCHANGED <<rows, metrics, gateway>> /\ gateway \in [Payments -> PayGatewayRow]
  BY DEF Create, PayInv, DataInv
<1>4. /\ payment' \in [Payments -> PaymentRow]
      /\ \A x \in Payments : x # p => payment'[x] = payment[x]
      /\ \A x \in Payments : payment'[x].refunded = payment[x].refunded
  BY <1>1 DEF PayInv, DataInv, PaymentRow
<1>5. /\ owner' \in [Payments -> Members \cup {NoMember}]
      /\ owner'[p] \in Members
      /\ \A x \in Payments : x # p => owner'[x] = owner[x]
  BY <1>1, <1>2 DEF PayInv, DataInv
<1>6. DataInv'
  <2>1. Owned'
    BY <1>3, <1>4, <1>5 DEF PayInv, DataInv, Owned
  <2>2. NoticesCovered' /\ RefundsNeverOverstated'
    BY <1>3, <1>4 DEF PayInv, DataInv, NoticesCovered, RefundsNeverOverstated
  <2> QED BY <1>3, <1>4, <1>5, <2>1, <2>2 DEF PayInv, DataInv
<1>7. Grows
  BY <1>3, <1>5, PriceAssumption DEF Grows, PayGatewayRow
<1> DEFINE q == [work[w] EXCEPT !.pc = "openPage", !.pay = p]
<1>8. q \in Worker /\ q.pc = "openPage" /\ q.pay = p /\ q.user = u
  BY <1>2 DEF Worker, Pc
<1>9. Go(w, q, {p}) /\ {p} \in SUBSET Docs
  BY <1>1 DEF Docs
<1> HIDE DEF q
<1>10. PayWorkerOK(q, owner', gateway')
  BY <1>2, <1>5, <1>8 DEF PayWorkerOK
<1> QED BY <1>3, <1>6, <1>7, <1>8, <1>9, <1>10, GoOK DEF PayInv

\* The gateway's entry for p becomes g, which takes nothing back.
LEMMA GatewayOK ==
    ASSUME DataInv, NEW p \in Payments, owner[p] \in Members, NEW g \in PayGatewayRow,
           gateway' = [gateway EXCEPT ![p] = g], gateway[p].returned <= g.returned,
           \A amount \in g.notices : amount <= g.returned,
           UNCHANGED <<payment, owner, rows, metrics>>
    PROVE  DataInv' /\ Grows
<1>1. /\ gateway \in [Payments -> PayGatewayRow]
      /\ gateway' \in [Payments -> PayGatewayRow]
      /\ \A x \in Payments : gateway'[x] = IF x = p THEN g ELSE gateway[x]
  BY DEF DataInv
<1>2. \A x \in Payments : payment[x].refunded \in Nat /\ gateway[x].returned \in Nat
  BY <1>1, PriceAssumption DEF DataInv, PaymentRow, PayGatewayRow
<1>3. g.returned \in Nat
  BY PriceAssumption DEF PayGatewayRow
<1>4. Owned'
  BY <1>1 DEF DataInv, Owned
<1>5. NoticesCovered'
  BY <1>1 DEF DataInv, NoticesCovered
<1>6. RefundsNeverOverstated'
  BY <1>1, <1>2, <1>3 DEF DataInv, RefundsNeverOverstated
<1>7. Grows
  BY <1>1, <1>2 DEF Grows
<1> QED BY <1>1, <1>4, <1>5, <1>6, <1>7 DEF DataInv

LEMMA PayOpenPageOK ==
    ASSUME PayInv, NEW w \in Workers, OpenPage(w)
    PROVE  PayInv'
<1> DEFINE p == work[w].pay
           g == [gateway[p] EXCEPT !.page = TRUE]
<1>1. p \in Payments /\ owner[p] \in Members
  BY PayWorkerType DEF OpenPage, At, PayWorkerOK
<1>2. UNCHANGED <<payment, owner, rows, metrics>> /\ Done(w, {p}) /\ {p} \in SUBSET Docs
  BY <1>1 DEF OpenPage, Docs
<1>3. gateway[p] \in PayGatewayRow
  BY <1>1 DEF PayInv, DataInv
<1>4. g \in PayGatewayRow /\ g.returned = gateway[p].returned /\ g.notices = gateway[p].notices
  BY <1>3 DEF PayGatewayRow
<1>5. CASE gateway' = gateway
  BY <1>2, <1>5, DataSame, QuietDone DEF PayInv
<1>6. CASE gateway' = [gateway EXCEPT ![p].page = TRUE]
  <2>1. gateway' = [gateway EXCEPT ![p] = g]
    BY <1>6
  <2> HIDE DEF g
  <2>2. gateway[p].returned <= g.returned /\ \A amount \in g.notices : amount <= g.returned
    BY <1>1, <1>3, <1>4, PriceAssumption DEF PayInv, DataInv, NoticesCovered, PayGatewayRow
  <2>3. DataInv' /\ Grows
    BY <1>1, <1>2, <1>4, <2>1, <2>2, GatewayOK DEF PayInv
  <2> QED BY <1>2, <2>3, DoneOK DEF PayInv, DataInv
<1> QED BY <1>5, <1>6 DEF OpenPage, CreatePaymentPage

\* What a settling worker has, and the ticket it writes.
LEMMA SettlingWorker ==
    ASSUME PayInv, NEW w \in Workers, work[w].pc \in {"load", "snapshot", "commit"}
    PROVE  /\ work[w].pay \in Payments /\ owner[work[w].pay] \in Members
           /\ work[w].user \in Members
           /\ TicketFor(work[w]) \in RsvpRow
           /\ {work[w].user, work[w].pay} \in SUBSET Docs
           /\ WriteSet(work[w]) \in SUBSET Docs
BY PayWorkerType DEF PayWorkerOK, TicketFor, RsvpRow, Docs, WriteSet

\* A settlement does not touch the amount given back.
LEMMA SavePaidOK ==
    ASSUME DataInv, NEW q \in Worker, q.pay \in Payments, owner[q.pay] \in Members,
           SavePaid(q), UNCHANGED <<owner, gateway>>
    PROVE  /\ payment' \in [Payments -> PaymentRow]
           /\ Owned' /\ NoticesCovered' /\ RefundsNeverOverstated'
<1> DEFINE new == [q.doc EXCEPT !.status = "succeeded", !.tx = "charge"]
<1>1. q.doc \in PaymentRow
  BY DEF Worker
<1>2. new \in PaymentRow /\ new.refunded = q.doc.refunded
  BY <1>1 DEF PaymentRow
<1>3. SavePayment(q.pay, q.doc, new)
  BY DEF SavePaid
<1> HIDE DEF new
<1> QED BY <1>1, <1>2, <1>3, SavePaymentOK

\* The counters stay whole numbers, and the counted ones natural.
LEMMA MetricsType ==
    ASSUME metrics \in MetricsRow, NEW a \in Nat, NEW b \in Int, NEW c \in Nat, NEW d \in Int
    PROVE  [metrics EXCEPT !.rsvpCount = a, !.paidCount = b,
                           !.booked = c, !.communityBooked = d] \in MetricsRow
BY DEF MetricsRow

LEMMA SettleStepOK ==
    ASSUME PayInv, NEW w \in Workers, SettleStep(w)
    PROVE  PayInv'
<1> DEFINE q == work[w]
<1>0. /\ q \in Worker /\ PayWorkerOK(q, owner, gateway)
      /\ q.doc \in PaymentRow /\ q.row \in RsvpRow /\ DataInv
  BY PayWorkerType DEF PayInv
<1>e. {} \in SUBSET Docs
  OBVIOUS
<1>1. CASE Load(w)
  <2>1. DataInv' /\ UNCHANGED <<owner, gateway>>
    BY <1>1, <1>0, DataSame DEF Load
  <2>2. CASE Done(w, {})
    BY <1>e, <2>1, <2>2, QuietDone
  <2>3. CASE Go(w, [work[w] EXCEPT !.pc = "snapshot", !.doc = payment[work[w].pay]], {})
    <3> DEFINE n == [work[w] EXCEPT !.pc = "snapshot", !.doc = payment[work[w].pay]]
    <3>1. q.pay \in Payments /\ owner[q.pay] \in Members /\ q.user \in Members
      BY <1>1, SettlingWorker DEF Load, At
    <3>2. payment[q.pay] \in PaymentRow
      BY <1>0, <3>1 DEF DataInv
    <3>3. n \in Worker /\ n.pc = "snapshot" /\ n.pay = q.pay /\ n.user = q.user
      BY <1>0, <3>2 DEF Worker, Pc
    <3>4. Go(w, n, {})
      BY <2>3
    <3> HIDE DEF n
    <3>5. PayWorkerOK(n, owner, gateway)
      BY <3>1, <3>3 DEF PayWorkerOK
    <3> QED BY <1>e, <2>1, <3>3, <3>4, <3>5, QuietGo
  <2> QED BY <1>1, <2>2, <2>3 DEF Load
<1>2. CASE Snapshot(w)
  <2>1. DataInv' /\ UNCHANGED <<owner, gateway>>
    BY <1>2, <1>0, DataSame DEF Snapshot
  <2> DEFINE n == [work[w] EXCEPT !.pc = "commit", !.row = rows[work[w].user], !.missed = {}]
  <2>2. q.pay \in Payments /\ owner[q.pay] \in Members /\ q.user \in Members
    BY <1>2, SettlingWorker DEF Snapshot, At
  <2>3. rows[q.user] \in RsvpRow
    BY <1>0, <2>2 DEF DataInv
  <2>4. n \in Worker /\ n.pc = "commit" /\ n.pay = q.pay /\ n.user = q.user
    BY <1>0, <2>3 DEF Worker, Pc
  <2>5. Go(w, n, {})
    BY <1>2 DEF Snapshot
  <2> HIDE DEF n
  <2>6. PayWorkerOK(n, owner, gateway)
    BY <2>2, <2>4 DEF PayWorkerOK
  <2> QED BY <1>e, <2>1, <2>4, <2>5, <2>6, QuietGo
<1>3. CASE SettleExisting(w)
  <2>1. /\ q.pay \in Payments /\ owner[q.pay] \in Members /\ q.user \in Members
        /\ TicketFor(q) \in RsvpRow /\ {q.user, q.pay} \in SUBSET Docs
    BY <1>3, SettlingWorker DEF SettleExisting, At
  <2>2. UNCHANGED <<owner, metrics, gateway>>
    BY <1>3 DEF SettleExisting
  <2>3. rows' \in [Members -> RsvpRow]
    BY <1>3, <1>0, <2>1, SaveRowOK DEF SettleExisting
  <2>4. /\ payment' \in [Payments -> PaymentRow]
        /\ Owned' /\ NoticesCovered' /\ RefundsNeverOverstated'
    BY <1>3, <1>0, <2>1, <2>2, SavePaidOK DEF SettleExisting
  <2>5. DataInv'
    BY <1>0, <2>2, <2>3, <2>4 DEF DataInv
  <2>6. PICK W \in SUBSET Docs : Done(w, W)
    BY <1>3, <2>1 DEF SettleExisting
  <2> QED BY <2>2, <2>5, <2>6, QuietDone
<1>4. CASE SettleNew(w)
  <2>1. /\ q.pay \in Payments /\ owner[q.pay] \in Members /\ q.user \in Members
        /\ TicketFor(q) \in RsvpRow /\ WriteSet(q) \in SUBSET Docs
    BY <1>4, SettlingWorker DEF SettleNew, At
  <2>2. UNCHANGED <<owner, gateway>> /\ Done(w, WriteSet(q))
    BY <1>4 DEF SettleNew
  <2>3. rows' \in [Members -> RsvpRow]
    BY <1>4, <1>0, <2>1 DEF SettleNew, DataInv
  <2>4. metrics' \in MetricsRow
    <3> DEFINE a == metrics.rsvpCount + 1
               b == metrics.paidCount + 1
               c == metrics.booked + Price
               d == metrics.communityBooked + Price
    <3>1. metrics \in MetricsRow
      BY <1>0 DEF DataInv
    <3>2. a \in Nat /\ b \in Int /\ c \in Nat /\ d \in Int
      BY <3>1, PriceAssumption DEF MetricsRow
    <3>3. metrics' = [metrics EXCEPT !.rsvpCount = a, !.paidCount = b,
                                     !.booked = c, !.communityBooked = d]
      BY <1>4 DEF SettleNew
    <3> HIDE DEF a, b, c, d
    <3> QED BY <3>1, <3>2, <3>3, MetricsType
  <2>5. /\ payment' \in [Payments -> PaymentRow]
        /\ Owned' /\ NoticesCovered' /\ RefundsNeverOverstated'
    BY <1>4, <1>0, <2>1, <2>2, SavePaidOK DEF SettleNew
  <2>6. DataInv'
    BY <1>0, <2>2, <2>3, <2>4, <2>5 DEF DataInv
  <2> QED BY <2>1, <2>2, <2>6, QuietDone
<1>5. CASE Retry(w)
  <2>1. DataInv' /\ UNCHANGED <<owner, gateway>> /\ GoTo(w, "snapshot", {})
    BY <1>5, <1>0, DataSame DEF Retry
  <2>2. q.pay \in Payments /\ owner[q.pay] \in Members /\ q.user \in Members
    BY <1>5, SettlingWorker DEF Retry, At
  <2>3. PayWorkerOK([work[w] EXCEPT !.pc = "snapshot"], owner, gateway)
    BY <1>0, <2>2 DEF PayWorkerOK, Worker
  <2> QED BY <1>e, <2>1, <2>3, QuietGoTo DEF Pc
<1>6. CASE DuplicateRow(w)
  <2>1. DataInv' /\ UNCHANGED <<owner, gateway>> /\ Done(w, {})
    BY <1>6, <1>0, DataSame DEF DuplicateRow
  <2> QED BY <1>e, <2>1, QuietDone
<1> QED BY <1>1, <1>2, <1>3, <1>4, <1>5, <1>6 DEF SettleStep

LEMMA FailOK ==
    ASSUME PayInv, NEW w \in Workers, Fail(w)
    PROVE  PayInv'
<1> DEFINE q == work[w]
<1>1. /\ q \in Worker /\ q.pay \in Payments /\ owner[q.pay] \in Members
      /\ q.doc \in PaymentRow
  BY PayWorkerType DEF Fail, At, PayWorkerOK
<1>2. UNCHANGED <<owner, rows, metrics, gateway>> /\ Done(w, {q.pay})
      /\ {q.pay} \in SUBSET Docs
  BY <1>1 DEF Fail, Docs
<1>3. PICK tx \in {q.doc.tx, "decline"} :
        SavePayment(q.pay, q.doc, [q.doc EXCEPT !.status = "failed", !.tx = tx])
  BY DEF Fail
<1> DEFINE new == [q.doc EXCEPT !.status = "failed", !.tx = tx]
<1>4. new \in PaymentRow /\ new.refunded = q.doc.refunded
  BY <1>1 DEF PaymentRow
<1>5. SavePayment(q.pay, q.doc, new)
  BY <1>3
<1> HIDE DEF new
<1>6. /\ payment' \in [Payments -> PaymentRow]
      /\ Owned' /\ NoticesCovered' /\ RefundsNeverOverstated'
  BY <1>1, <1>2, <1>4, <1>5, SavePaymentOK DEF PayInv
<1>7. DataInv'
  BY <1>2, <1>6 DEF PayInv, DataInv
<1> QED BY <1>2, <1>7, QuietDone

\* A recorded refund that the gateway covers.
LEMMA RecordRefundOK ==
    ASSUME PayInv, NEW w \in Workers, NEW refunded \in 0..Price, NEW next \in Pc,
           RecordRefund(w, refunded, next), next \in {"find", "hookFind"},
           work[w].pay \in Payments, owner[work[w].pay] \in Members,
           work[w].user \in Members, refunded <= gateway[work[w].pay].returned
    PROVE  PayInv'
<1> DEFINE q == work[w]
           new == WithRefund(q.doc, refunded)
<1>1. q \in Worker /\ q.doc \in PaymentRow /\ {q.pay} \in SUBSET Docs
  BY PayWorkerType DEF Docs
<1>2. new \in PaymentRow /\ new.refunded = refunded
  BY <1>1 DEF WithRefund, PaymentRow
<1>3. SavePayment(q.pay, q.doc, new) /\ UNCHANGED <<owner, rows, metrics, gateway>>
      /\ (GoTo(w, next, {q.pay}) \/ Done(w, {q.pay}))
  BY DEF RecordRefund
<1> HIDE DEF new
<1>4. /\ payment' \in [Payments -> PaymentRow]
      /\ Owned' /\ NoticesCovered' /\ RefundsNeverOverstated'
  BY <1>1, <1>2, <1>3, SavePaymentOK DEF PayInv
<1>5. DataInv'
  BY <1>3, <1>4 DEF PayInv, DataInv
<1>6. PayWorkerOK([work[w] EXCEPT !.pc = next], owner, gateway)
  BY <1>1 DEF PayWorkerOK, Worker
<1>7. CASE GoTo(w, next, {q.pay})
  BY <1>1, <1>3, <1>5, <1>6, <1>7, QuietGoTo
<1>8. CASE Done(w, {q.pay})
  BY <1>1, <1>3, <1>5, <1>8, QuietDone
<1> QED BY <1>3, <1>7, <1>8

\* The gateway gives money back that it has.
LEMMA ReturnOK ==
    ASSUME DataInv, NEW p \in Payments, NEW amount \in 1..Price,
           Return(p, amount), UNCHANGED <<payment, owner, rows, metrics>>
    PROVE  /\ DataInv' /\ Grows
           /\ gateway'[p].returned = gateway[p].returned + amount
<1> DEFINE r == gateway[p].returned + amount
           n == gateway[p].notices \cup {amount}
           g == [gateway[p] EXCEPT !.returned = r, !.notices = n]
<1>1. owner[p] \in Members /\ gateway[p] \in PayGatewayRow
  BY DEF DataInv, Owned, Return
<1>2. gateway[p].returned \in 0..Price /\ gateway[p].notices \in SUBSET (1..Price)
  BY <1>1 DEF PayGatewayRow
<1>3. r \in 0..Price /\ gateway[p].returned <= r
  BY <1>2, PriceAssumption DEF Return
<1>4. \A a \in n : a <= r
  <2>1. \A a \in gateway[p].notices : a \in Nat /\ a <= gateway[p].returned
    BY <1>2 DEF DataInv, NoticesCovered
  <2> QED BY <1>2, <2>1, PriceAssumption
<1>5. gateway' = [gateway EXCEPT ![p] = g]
  BY DEF Return
<1>6. g \in PayGatewayRow /\ g.returned = r /\ g.notices = n
  <2>1. n \in SUBSET (1..Price)
    BY <1>2
  <2> HIDE DEF r, n
  <2> QED BY <1>1, <1>3, <2>1 DEF PayGatewayRow
<1> HIDE DEF g
<1>7. DataInv' /\ Grows
  <2> HIDE DEF r, n
  <2> QED BY <1>1, <1>3, <1>4, <1>5, <1>6, GatewayOK
<1>8. gateway'[p] = g
  BY <1>5 DEF DataInv
<1> QED BY <1>6, <1>7, <1>8

LEMMA AskOK ==
    ASSUME PayInv, NEW w \in Workers, Ask(w)
    PROVE  PayInv'
<1> DEFINE q == work[w]
           p == q.pay
<1>1. /\ q \in Worker /\ p \in Payments /\ owner[p] \in Members /\ q.user \in Members
      /\ q.amount \in 1..Price /\ q.doc \in PaymentRow
      /\ q.doc.refunded <= gateway[p].returned
  BY PayWorkerType DEF Ask, At, PayWorkerOK
<1>2. UNCHANGED <<payment, owner, rows, metrics>> /\ {} \in SUBSET Docs
  BY DEF Ask
<1>3. CASE UNCHANGED gateway /\ Done(w, {})
  BY <1>2, <1>3, DataSame, QuietDone DEF PayInv
<1>4. CASE Return(p, q.amount) /\ (GoTo(w, "record", {}) \/ Done(w, {}))
  <2>1. /\ DataInv' /\ Grows
        /\ gateway'[p].returned = gateway[p].returned + q.amount
    BY <1>1, <1>2, <1>4, ReturnOK DEF PayInv
  <2>2. gateway \in [Payments -> PayGatewayRow] /\ gateway' \in [Payments -> PayGatewayRow]
    BY <2>1 DEF PayInv, DataInv
  <2>3. CASE Done(w, {})
    BY <1>2, <2>1, <2>2, <2>3, DoneOK DEF PayInv
  <2>4. CASE GoTo(w, "record", {})
    <3>1. q.doc.refunded + q.amount <= gateway'[p].returned
      <4>1. gateway[p].returned \in Nat /\ q.doc.refunded \in Nat /\ q.amount \in Nat
        BY <1>1, <2>2, PriceAssumption DEF PayGatewayRow, PaymentRow
      <4> QED BY <1>1, <2>1, <4>1
    <3>2. owner'[p] \in Members
      BY <1>1, <1>2
    <3>3. PayWorkerOK([work[w] EXCEPT !.pc = "record"], owner', gateway')
      <4> DEFINE n == [work[w] EXCEPT !.pc = "record"]
      <4>1. n.pc = "record" /\ n.pay = p /\ n.user = q.user /\ n.doc = q.doc
            /\ n.amount = q.amount
        BY <1>1 DEF Worker
      <4> HIDE DEF n
      <4> QED BY <1>1, <3>1, <3>2, <4>1 DEF PayWorkerOK, n
    <3> QED BY <1>2, <2>1, <2>2, <2>4, <3>3, GoToOK DEF PayInv, Pc
  <2> QED BY <1>4, <2>3, <2>4
<1>5. PICK succeeded \in BOOLEAN :
        /\ Refund(q, succeeded)
        /\ IF succeeded THEN GoTo(w, "record", {}) ELSE Done(w, {})
  BY DEF Ask
<1> QED BY <1>3, <1>4, <1>5 DEF Refund

LEMMA RefundStepOK ==
    ASSUME PayInv, NEW w \in Workers, RefundStep(w)
    PROVE  PayInv'
<1> DEFINE q == work[w]
<1>0. /\ q \in Worker /\ PayWorkerOK(q, owner, gateway)
      /\ q.doc \in PaymentRow /\ q.row \in RsvpRow /\ DataInv
      /\ q.amount \in 0..Price
  BY PayWorkerType DEF PayInv
<1>e. {} \in SUBSET Docs
  OBVIOUS
<1>1. CASE Record(w)
  <2> DEFINE sum == q.doc.refunded + q.amount
  <2>1. /\ q.pay \in Payments /\ owner[q.pay] \in Members /\ q.user \in Members
        /\ sum <= gateway[q.pay].returned
    BY <1>1, <1>0 DEF Record, At, PayWorkerOK
  <2>2. sum \in 0..Price
    <3>1. gateway[q.pay].returned \in 0..Price
      BY <1>0, <2>1 DEF DataInv, PayGatewayRow
    <3> QED BY <1>0, <2>1, <3>1, PriceAssumption DEF PaymentRow
  <2>3. RecordRefund(w, sum, "find")
    BY <1>1 DEF Record
  <2> HIDE DEF sum
  <2> QED BY <2>1, <2>2, <2>3, RecordRefundOK DEF Pc
<1>2. CASE Find(w)
  <2>1. DataInv' /\ UNCHANGED <<owner, gateway>>
    BY <1>2, <1>0, DataSame DEF Find
  <2>2. q.pay \in Payments /\ owner[q.pay] \in Members /\ q.user \in Members
    BY <1>2, <1>0 DEF Find, At, PayWorkerOK
  <2>3. CASE Done(w, {})
    BY <1>e, <2>1, <2>3, QuietDone
  <2> DEFINE n == [work[w] EXCEPT !.pc = "vacate", !.row = rows[work[w].user]]
  <2>4. CASE Go(w, n, {})
    <3>1. rows[q.user] \in RsvpRow
      BY <1>0, <2>2 DEF DataInv
    <3>2. n \in Worker /\ n.pc = "vacate" /\ n.pay = q.pay /\ n.user = q.user
      BY <1>0, <3>1 DEF Worker, Pc
    <3> HIDE DEF n
    <3>3. PayWorkerOK(n, owner, gateway)
      BY <2>2, <3>2 DEF PayWorkerOK
    <3> QED BY <1>e, <2>1, <2>4, <3>2, <3>3, QuietGo
  <2> QED BY <1>2, <2>3, <2>4 DEF Find
<1>3. CASE Vacate(w)
  <2>1. q.user \in Members /\ {q.user} \in SUBSET Docs
    BY <1>3, <1>0 DEF Vacate, At, PayWorkerOK, Docs
  <2>2. SaveRow(q.user, q.row, Vacated(q.row)) /\ Done(w, {q.user})
        /\ UNCHANGED <<payment, owner, metrics, gateway>>
    BY <1>3 DEF Vacate
  <2>3. Vacated(q.row) \in RsvpRow
    BY <1>0 DEF Vacated, RsvpRow
  <2>4. DataInv'
    BY <1>0, <2>1, <2>2, <2>3, SaveRowOK, DataRows
  <2> QED BY <2>1, <2>2, <2>4, QuietDone
<1> QED BY <1>1, <1>2, <1>3, AskOK DEF RefundStep

LEMMA RefundHookStepOK ==
    ASSUME PayInv, NEW w \in Workers, RefundHookStep(w)
    PROVE  PayInv'
<1> DEFINE q == work[w]
<1>0. /\ q \in Worker /\ PayWorkerOK(q, owner, gateway)
      /\ q.doc \in PaymentRow /\ q.row \in RsvpRow /\ DataInv
      /\ q.amount \in 0..Price
  BY PayWorkerType DEF PayInv
<1>e. {} \in SUBSET Docs /\ {EventDoc} \in SUBSET Docs /\ {CommunityDoc} \in SUBSET Docs
  BY DEF Docs
<1>1. CASE Sync(w)
  <2> DEFINE sum == Larger(q.doc.refunded, q.amount)
  <2>1. /\ q.pay \in Payments /\ owner[q.pay] \in Members /\ q.user \in Members
        /\ sum <= gateway[q.pay].returned
    BY <1>1, <1>0 DEF Sync, At, PayWorkerOK, Larger
  <2>2. sum \in 0..Price
    BY <1>0 DEF Larger, PaymentRow
  <2>3. RecordRefund(w, sum, "hookFind")
    BY <1>1 DEF Sync
  <2> HIDE DEF sum
  <2> QED BY <2>1, <2>2, <2>3, RecordRefundOK DEF Pc
<1>2. CASE HookFind(w)
  <2>1. DataInv' /\ UNCHANGED <<owner, gateway>>
    BY <1>2, <1>0, DataSame DEF HookFind
  <2>2. q.pay \in Payments /\ owner[q.pay] \in Members /\ q.user \in Members
    BY <1>2, <1>0 DEF HookFind, At, PayWorkerOK
  <2>3. CASE Done(w, {})
    BY <1>e, <2>1, <2>3, QuietDone
  <2> DEFINE n == [work[w] EXCEPT !.pc = "hookVacate", !.row = rows[work[w].user]]
  <2>4. CASE Go(w, n, {})
    <3>1. rows[q.user] \in RsvpRow
      BY <1>0, <2>2 DEF DataInv
    <3>2. n \in Worker /\ n.pc = "hookVacate" /\ n.pay = q.pay /\ n.user = q.user
      BY <1>0, <3>1 DEF Worker, Pc
    <3> HIDE DEF n
    <3>3. PayWorkerOK(n, owner, gateway)
      BY <2>2, <3>2 DEF PayWorkerOK
    <3> QED BY <1>e, <2>1, <2>4, <3>2, <3>3, QuietGo
  <2> QED BY <1>2, <2>3, <2>4 DEF HookFind
<1>3. CASE HookVacate(w)
  <2>1. /\ q.user \in Members /\ {q.user} \in SUBSET Docs
        /\ q.pay \in Payments /\ owner[q.pay] \in Members
    BY <1>3, <1>0 DEF HookVacate, At, PayWorkerOK, Docs
  <2>2. SaveRow(q.user, q.row, Vacated(q.row)) /\ GoTo(w, "uncount", {q.user})
        /\ UNCHANGED <<payment, owner, metrics, gateway>>
    BY <1>3 DEF HookVacate
  <2>3. Vacated(q.row) \in RsvpRow
    BY <1>0 DEF Vacated, RsvpRow
  <2>4. DataInv'
    BY <1>0, <2>1, <2>2, <2>3, SaveRowOK, DataRows
  <2>5. PayWorkerOK([work[w] EXCEPT !.pc = "uncount"], owner, gateway)
    BY <1>0, <2>1 DEF PayWorkerOK, Worker
  <2> QED BY <2>1, <2>2, <2>4, <2>5, QuietGoTo DEF Pc
<1>4. CASE Uncount(w)
  <2>1. UNCHANGED <<payment, owner, rows, gateway>>
    BY <1>4 DEF Uncount
  <2>2. metrics' \in MetricsRow
    <3>1. CASE UNCHANGED metrics
      BY <1>0, <3>1 DEF DataInv
    <3>2. CASE /\ metrics.rsvpCount > 0
               /\ metrics' = [metrics EXCEPT !.rsvpCount = @ - 1, !.paidCount = @ - 1]
      <4> DEFINE a == metrics.rsvpCount - 1
                 b == metrics.paidCount - 1
      <4>1. metrics \in MetricsRow
        BY <1>0 DEF DataInv
      <4>2. a \in Nat /\ b \in Int
        BY <3>2, <4>1 DEF MetricsRow
      <4>3. metrics' = [metrics EXCEPT !.rsvpCount = a, !.paidCount = b]
        BY <3>2
      <4> HIDE DEF a, b
      <4> QED BY <4>1, <4>2, <4>3 DEF MetricsRow
    <3> QED BY <1>4, <3>1, <3>2 DEF Uncount
  <2>3. DataInv'
    BY <1>0, <2>1, <2>2, DataMetrics
  <2>4. /\ q.pay \in Payments /\ owner[q.pay] \in Members /\ q.user \in Members
    BY <1>4, <1>0 DEF Uncount, At, PayWorkerOK
  <2>5. PayWorkerOK([work[w] EXCEPT !.pc = "unbook"], owner, gateway)
    BY <1>0, <2>4 DEF PayWorkerOK, Worker
  <2>6. PICK W \in SUBSET Docs : GoTo(w, "unbook", W)
    BY <1>4, <1>e DEF Uncount
  <2> QED BY <2>1, <2>3, <2>5, <2>6, QuietGoTo DEF Pc
<1>5. CASE Unbook(w)
  <2>1. UNCHANGED <<payment, owner, rows, gateway>> /\ Done(w, {CommunityDoc})
    BY <1>5 DEF Unbook
  <2>2. metrics' \in MetricsRow
    <3> DEFINE d == metrics.communityBooked - Price
    <3>1. metrics \in MetricsRow /\ metrics' = [metrics EXCEPT !.communityBooked = d]
      BY <1>0, <1>5 DEF DataInv, Unbook
    <3>2. d \in Int
      BY <3>1, PriceAssumption DEF MetricsRow
    <3> HIDE DEF d
    <3> QED BY <3>1, <3>2 DEF MetricsRow
  <2>3. DataInv'
    BY <1>0, <2>1, <2>2, DataMetrics
  <2> QED BY <1>e, <2>1, <2>3, QuietDone
<1> QED BY <1>1, <1>2, <1>3, <1>4, <1>5 DEF RefundHookStep

LEMMA ReleaseOK ==
    ASSUME PayInv, NEW w \in Workers, Release(w)
    PROVE  PayInv'
<1> DEFINE q == work[w]
           new == [q.row EXCEPT !.status = "cancelled"]
<1>1. q \in Worker /\ q.user \in Members /\ q.row \in RsvpRow /\ DataInv
  BY PayWorkerType DEF Release, At, PayWorkerOK, PayInv
<1>2. SaveRow(q.user, q.row, new) /\ UNCHANGED <<payment, owner, metrics, gateway>>
  BY DEF Release
<1>3. new \in RsvpRow
  BY <1>1 DEF RsvpRow
<1> HIDE DEF new
<1>4. DataInv'
  BY <1>1, <1>2, <1>3, SaveRowOK, DataRows
<1>5. PayWorkerOK([work[w] EXCEPT !.pc = "decrement"], owner, gateway)
  BY <1>1 DEF PayWorkerOK, Worker
<1>6. PICK W \in SUBSET Docs : GoTo(w, "decrement", W)
  BY <1>1 DEF Release, Docs
<1> QED BY <1>2, <1>4, <1>5, <1>6, QuietGoTo DEF Pc

LEMMA DecrementOK ==
    ASSUME PayInv, NEW w \in Workers, Decrement(w)
    PROVE  PayInv'
<1>1. UNCHANGED <<payment, owner, rows, gateway>> /\ metrics \in MetricsRow
  BY DEF Decrement, PayInv, DataInv
<1>2. metrics' \in MetricsRow
  <2>1. CASE metrics' = metrics
    BY <1>1, <2>1
  <2>2. CASE metrics.rsvpCount > 0 /\ metrics' = [metrics EXCEPT !.rsvpCount = @ - 1]
    <3> DEFINE a == metrics.rsvpCount - 1
    <3>1. a \in Nat /\ metrics' = [metrics EXCEPT !.rsvpCount = a]
      BY <1>1, <2>2 DEF MetricsRow
    <3> HIDE DEF a
    <3> QED BY <1>1, <3>1 DEF MetricsRow
  <2> QED BY <2>1, <2>2 DEF Decrement
<1>3. DataInv'
  BY <1>1, <1>2, DataMetrics DEF PayInv
<1>4. PICK W \in SUBSET Docs : Done(w, W)
  BY DEF Decrement, Docs
<1> QED BY <1>1, <1>3, <1>4, QuietDone

LEMMA PayStepOK ==
    ASSUME PayInv, NEW w \in Workers, Step(w)
    PROVE  PayInv'
BY PayCreateOK, PayOpenPageOK, SettleStepOK, FailOK, RefundStepOK, RefundHookStepOK,
   ReleaseOK, DecrementOK DEF Step

LEMMA CrashOK ==
    ASSUME PayInv, NEW w \in Workers, Crash(w)
    PROVE  PayInv'
<1>1. UNCHANGED <<payment, owner, rows, metrics, gateway>> /\ Done(w, {})
      /\ {} \in SUBSET Docs
  BY DEF Crash
<1> QED BY <1>1, DataSame, QuietDone DEF PayInv

-----------------------------------------------------------------------------
(* The gateway, and the job that expires payments.                         *)

\* The workers of a state whose owners stay and whose gateway takes nothing
\* back are kept.
LEMMA WorkersKept ==
    ASSUME PayWorkInv, gateway \in [Payments -> PayGatewayRow],
           gateway' \in [Payments -> PayGatewayRow], Grows, NEW W \in SUBSET Docs,
           UNCHANGED work \/ work' = [v \in Workers |-> Notice(work[v], W)]
    PROVE  PayWorkInv'
<1>1. ASSUME NEW v \in Workers
      PROVE  work'[v] \in Worker /\ PayWorkerOK(work'[v], owner', gateway')
  <2>1. work[v] \in Worker /\ PayWorkerOK(work[v], owner, gateway)
    BY DEF PayWorkInv
  <2>2. PayWorkerOK(work[v], owner', gateway')
    BY <2>1, OthersKept
  <2>3. work'[v] \in {work[v], Notice(work[v], W)}
    OBVIOUS
  <2> QED BY <2>1, <2>2, <2>3, NoticeType, NoticeOK
<1>2. work' = [v \in Workers |-> work'[v]]
  BY DEF PayWorkInv
<1> QED BY <1>1, <1>2 DEF PayWorkInv

LEMMA GatewayStepOK ==
    ASSUME PayInv, GatewayStep
    PROVE  PayInv'
<1>0. DataInv /\ PayWorkInv /\ {} \in SUBSET Docs
  BY DEF PayInv
<1>1. DataInv' /\ Grows /\ UNCHANGED work
  <2>1. ASSUME NEW p \in Payments, NEW g \in {[gateway[p] EXCEPT !.charged = TRUE],
                                               [gateway[p] EXCEPT !.declined = TRUE]},
               gateway[p].page, gateway' = [gateway EXCEPT ![p] = g],
               UNCHANGED <<payment, owner, rows, metrics>>
        PROVE  DataInv' /\ Grows
    <3>1. owner[p] \in Members /\ gateway[p] \in PayGatewayRow
      BY <1>0, <2>1 DEF DataInv, Owned
    <3>2. g \in PayGatewayRow /\ g.returned = gateway[p].returned /\ g.notices = gateway[p].notices
      BY <3>1 DEF PayGatewayRow
    <3>3. gateway[p].returned <= g.returned /\ \A amount \in g.notices : amount <= g.returned
      BY <1>0, <3>1, <3>2, PriceAssumption DEF DataInv, NoticesCovered, PayGatewayRow
    <3> QED BY <1>0, <2>1, <3>1, <3>2, <3>3, GatewayOK
  <2>2. ASSUME NEW p \in Payments, Charge(p) \/ Decline(p)
        PROVE  DataInv' /\ Grows /\ UNCHANGED work
    <3>1. \/ gateway' = [gateway EXCEPT ![p] = [gateway[p] EXCEPT !.charged = TRUE]]
          \/ gateway' = [gateway EXCEPT ![p] = [gateway[p] EXCEPT !.declined = TRUE]]
      BY <2>2 DEF Charge, Decline
    <3>2. gateway[p].page /\ UNCHANGED <<payment, owner, rows, metrics, work>>
      BY <2>2 DEF Charge, Decline
    <3> QED BY <2>1, <3>1, <3>2
  <2>3. ASSUME NEW p \in Payments, NEW amount \in 1..Price, DashboardRefund(p, amount)
        PROVE  DataInv' /\ Grows /\ UNCHANGED work
    BY <1>0, <2>3, ReturnOK DEF DashboardRefund
  <2> QED BY <2>2, <2>3 DEF GatewayStep
<1>2. gateway \in [Payments -> PayGatewayRow] /\ gateway' \in [Payments -> PayGatewayRow]
  BY <1>0, <1>1 DEF DataInv
<1> QED BY <1>0, <1>1, <1>2, WorkersKept DEF PayInv

LEMMA ExpireOK ==
    ASSUME PayInv, NEW p \in Payments, Expire(p)
    PROVE  PayInv'
<1>1. /\ payment[p].status = "pending"
      /\ payment' = [payment EXCEPT ![p].status = "failed"]
      /\ work' = [v \in Workers |-> Notice(work[v], {p})]
      /\ UNCHANGED <<owner, rows, metrics, gateway>>
  BY DEF Expire
<1>2. /\ payment' \in [Payments -> PaymentRow]
      /\ \A x \in Payments : /\ payment'[x].refunded = payment[x].refunded
                             /\ payment'[x].tx = payment[x].tx
                             /\ x # p => payment'[x] = payment[x]
  BY <1>1 DEF PayInv, DataInv, PaymentRow
<1>3. Owned' /\ NoticesCovered' /\ RefundsNeverOverstated'
  BY <1>1, <1>2 DEF PayInv, DataInv, Owned, NoticesCovered, RefundsNeverOverstated
<1>4. DataInv'
  BY <1>1, <1>2, <1>3 DEF PayInv, DataInv
<1>5. /\ Grows /\ {p} \in SUBSET Docs
      /\ gateway \in [Payments -> PayGatewayRow] /\ gateway' \in [Payments -> PayGatewayRow]
  BY <1>1, <1>4, GrowsSame DEF Docs, PayInv, DataInv
<1> QED BY <1>1, <1>4, <1>5, WorkersKept DEF PayInv

-----------------------------------------------------------------------------
(* The invariant.                                                          *)

LEMMA PayInitOK == Init => PayInv
<1> SUFFICES ASSUME Init
             PROVE  PayInv
  OBVIOUS
<1>1. NoPaymentRow \in PaymentRow /\ NoPaymentRow.refunded = 0
      /\ NoPaymentRow.status = "none" /\ NoPaymentRow.tx = "none"
  BY PriceAssumption DEF NoPaymentRow, PaymentRow
<1>2. rows \in [Members -> RsvpRow]
  BY DEF Init, NoRsvpRow, RsvpRow
<1>3. /\ gateway \in [Payments -> PayGatewayRow]
      /\ \A p \in Payments : /\ ~ gateway[p].page /\ ~ gateway[p].charged
                             /\ gateway[p].returned = 0 /\ gateway[p].notices = {}
  BY PriceAssumption DEF Init, PayGatewayRow
<1>4. metrics \in MetricsRow
  BY DEF Init, MetricsRow
<1>5. \A p \in Payments : payment[p] = NoPaymentRow
  BY DEF Init
<1>6. Owned /\ NoticesCovered /\ RefundsNeverOverstated
  BY <1>1, <1>3, <1>5 DEF Owned, NoticesCovered, RefundsNeverOverstated
<1>7. DataInv
  BY <1>1, <1>2, <1>3, <1>4, <1>6 DEF DataInv, Init
<1>8. PayWorkInv
  BY IdleType DEF Init, PayWorkInv, PayWorkerOK
<1> QED BY <1>7, <1>8 DEF PayInv

LEMMA PayNextOK == PayInv /\ [Next]_vars => PayInv'
<1> SUFFICES ASSUME PayInv, [Next]_vars
             PROVE  PayInv'
  OBVIOUS
<1>1. CASE UNCHANGED vars
  BY <1>1 DEF vars, PayInv, DataInv, PayWorkInv, PayWorkerOK, Owned, NoticesCovered,
              RefundsNeverOverstated
<1>2. CASE Next
  BY <1>2, PayBeginOK, PayStepOK, CrashOK, GatewayStepOK, ExpireOK DEF Next
<1> QED BY <1>1, <1>2

LEMMA PayInvariance == Spec => []PayInv
BY PayInitOK, PayNextOK, PTL DEF Spec

\* Every variable keeps its type, whatever the members, the gateway and the
\* crashes do: no save of a stale document makes a row the schema does not
\* know (models/Payment.ts, models/EventRSVP.ts).
THEOREM PaymentsTypeCorrect == Spec => []TypeOK
<1>1. PayInv => TypeOK
  BY DEF PayInv, DataInv, PayWorkInv, TypeOK, MetricsRow, PayGatewayRow
<1> QED BY <1>1, PayInvariance, PTL

\* A Payment row never claims more money given back than the gateway gave back
\* (issueRefund() and onRefundSuccess() of GatewayService.ts), however many
\* refunds and webhooks overlap, crash or are repeated.
THEOREM RefundsCovered == Spec => []RefundsNeverOverstated
<1>1. PayInv => RefundsNeverOverstated
  BY DEF PayInv, DataInv
<1> QED BY <1>1, PayInvariance, PTL

-----------------------------------------------------------------------------
(* Revenue is booked with the row that it is booked for                    *)

Rsvps == {u \in Members : rows[u] # NoRsvpRow}

\* A row has a status, and keeps one.
RowsReal == \A u \in Members : rows[u] # NoRsvpRow => rows[u].status # "none"

\* A worker that is about to save a row it found saves one that is there; one
\* that settles for a member without a row was told if somebody wrote it since.
FoundRow(q, rs) ==
    /\ q.pc \in {"vacate", "hookVacate", "release"} => rs[q.user] # NoRsvpRow
    /\ q.pc = "commit" /\ q.row # NoRsvpRow => rs[q.user] # NoRsvpRow
    /\ q.pc = "commit" /\ q.row = NoRsvpRow =>
          q.user \in q.missed \/ rs[q.user] = NoRsvpRow

BookInv ==
    /\ RowsReal
    /\ BookedOncePerMember
    /\ \A w \in Workers : FoundRow(work[w], rows)

\* Rows do not go away, and whoever writes one says so.
RowsGrow(W) ==
    \A u \in Members : /\ rows[u] # NoRsvpRow => rows'[u] # NoRsvpRow
                       /\ rows'[u] # rows[u] => u \in W

LEMMA FoundKept ==
  ASSUME NEW q \in Worker, NEW W \in SUBSET Docs, RowsGrow(W), FoundRow(q, rows),
         q.pc \in {"vacate", "hookVacate", "release", "commit"} => q.user \in Members
  PROVE  FoundRow(Notice(q, W), rows')
<1>1. CASE q.pc = "commit"
  <2> DEFINE n == Notice(q, W)
  <2>1. n.pc = "commit" /\ n.row = q.row /\ n.user = q.user
        /\ n.missed = q.missed \cup (W \cap WriteSet(q))
    BY <1>1 DEF Notice, Worker
  <2>2. q.user \in WriteSet(q)
    BY DEF WriteSet
  <2> HIDE DEF n
  <2> QED BY <1>1, <2>1, <2>2 DEF FoundRow, RowsGrow, n
<1>2. CASE q.pc # "commit"
  <2>1. Notice(q, W) = q
    BY <1>2 DEF Notice
  <2> QED BY <1>2, <2>1 DEF FoundRow, RowsGrow
<1> QED BY <1>1, <1>2

LEMMA UserThere ==
  ASSUME PayInv, NEW w \in Workers, work[w].pc \notin {"idle", "fail"}
  PROVE  work[w].user \in Members
  BY DEF PayInv, PayWorkInv, PayWorkerOK

LEMMA RsvpsFinite ==
  IsFiniteSet(Rsvps) /\ Cardinality(Rsvps) \in Nat
<1>1. Rsvps \in SUBSET Members
  BY DEF Rsvps
<1> QED BY <1>1, MembersAssumption, FS_Subset, FS_CardinalityType

LEMMA BookedKept ==
  ASSUME BookInv, NEW W, RowsGrow(W), metrics'.booked = metrics.booked,
         metrics.booked \in Nat
  PROVE  BookedOncePerMember'
<1>1. Rsvps' \in SUBSET Members /\ Rsvps \in SUBSET Rsvps'
  BY DEF Rsvps, RowsGrow
<1>2. IsFiniteSet(Rsvps') /\ Cardinality(Rsvps') \in Nat /\ Cardinality(Rsvps) \in Nat
      /\ Cardinality(Rsvps) <= Cardinality(Rsvps')
  BY <1>1, MembersAssumption, FS_Subset, FS_CardinalityType
<1>3. metrics.booked <= Price * Cardinality(Rsvps)
  BY DEF BookInv, BookedOncePerMember, Rsvps
<1>4. \A a, b \in Nat : a <= b => Price * a <= Price * b
  BY PriceAssumption
<1>5. metrics'.booked <= Price * Cardinality(Rsvps')
  <2>1. Price * Cardinality(Rsvps) \in Nat /\ Price * Cardinality(Rsvps') \in Nat
    BY <1>2, PriceAssumption
  <2> QED BY <1>2, <1>3, <1>4, <2>1
<1> QED BY <1>5 DEF BookedOncePerMember, Rsvps

\* The step of one worker, which tells the others what it writes.
LEMMA BookGo ==
  ASSUME PayInv, BookInv, NEW w \in Workers, NEW q \in Worker, NEW W \in SUBSET Docs,
         Go(w, q, W), FoundRow(q, rows'), RowsGrow(W), RowsReal',
         metrics'.booked = metrics.booked
  PROVE  BookInv'
<1>1. ASSUME NEW v \in Workers
      PROVE  FoundRow(work'[v], rows')
  <2>1. CASE v = w
    BY <2>1 DEF Go
  <2>2. CASE v # w
    <3>1. work'[v] = Notice(work[v], W) /\ work[v] \in Worker /\ FoundRow(work[v], rows)
      BY <2>2, PayWorkerType DEF Go, BookInv
    <3> QED BY <3>1, FoundKept, UserThere
  <2> QED BY <2>1, <2>2
<1>2. metrics.booked \in Nat
  BY DEF PayInv, DataInv, MetricsRow
<1> QED BY <1>1, <1>2, BookedKept DEF BookInv

LEMMA RowsRest ==
  ASSUME BookInv, UNCHANGED rows, NEW W
  PROVE  RowsGrow(W) /\ RowsReal'
  BY DEF RowsGrow, RowsReal, BookInv

\* Where nothing is relied upon.
Free(pc) == pc \notin {"vacate", "hookVacate", "release", "commit"}

LEMMA BookGoFree ==
  ASSUME PayInv, BookInv, NEW w \in Workers, NEW q \in Worker, NEW W \in SUBSET Docs,
         Go(w, q, W), Free(q.pc), UNCHANGED rows, metrics'.booked = metrics.booked
  PROVE  BookInv'
  BY BookGo, RowsRest DEF FoundRow, Free

LEMMA BookDone ==
  ASSUME PayInv, BookInv, NEW w \in Workers, NEW W \in SUBSET Docs, Done(w, W),
         UNCHANGED rows, metrics'.booked = metrics.booked
  PROVE  BookInv'
  BY BookGoFree, IdleType DEF Free, Done

LEMMA BookGoTo ==
  ASSUME PayInv, BookInv, NEW w \in Workers, NEW W \in SUBSET Docs, NEW pc \in Pc,
         GoTo(w, pc, W), Free(pc), UNCHANGED rows, metrics'.booked = metrics.booked
  PROVE  BookInv'
<1> DEFINE q == [work[w] EXCEPT !.pc = pc]
<1>1. q \in Worker /\ q.pc = pc /\ Go(w, q, W)
  BY PayWorkerType DEF Worker, GoTo
<1> HIDE DEF q
<1> QED BY <1>1, BookGoFree

LEMMA BookStart ==
  ASSUME PayInv, BookInv, PayInv', NEW w \in Workers, NEW q, Start(w, q), FoundRow(q, rows)
  PROVE  BookInv'
<1>1. Go(w, q, {}) /\ UNCHANGED <<rows, metrics>> /\ {} \in SUBSET Docs
  BY DEF Start
<1>2. q \in Worker
  <2>1. work'[w] = q
    BY <1>1 DEF Go
  <2> QED BY <2>1 DEF PayInv, PayWorkInv
<1>3. FoundRow(q, rows')
  BY <1>1
<1> QED BY <1>1, <1>2, <1>3, BookGo, RowsRest

LEMMA BookBegin ==
  ASSUME PayInv, BookInv, NEW w \in Workers, Begin(w)
  PROVE  BookInv'
<1>1. PayInv'
  BY PayBeginOK
<1>2. ASSUME NEW u \in Members, BeginCheckout(w, u)
      PROVE  BookInv'
  <2> DEFINE q == [Idle EXCEPT !.pc = "create", !.user = u]
  <2>1. Start(w, q) /\ FoundRow(q, rows)
    BY <1>2 DEF BeginCheckout, Idle, FoundRow
  <2> HIDE DEF q
  <2> QED BY <1>1, <2>1, BookStart
<1>3. ASSUME NEW u \in Members, BeginCancel(w, u)
      PROVE  BookInv'
  <2> DEFINE q == [Idle EXCEPT !.pc = "release", !.user = u, !.row = rows[u]]
  <2>1. Start(w, q) /\ FoundRow(q, rows)
    BY <1>3 DEF BeginCancel, Idle, FoundRow
  <2> HIDE DEF q
  <2> QED BY <1>1, <2>1, BookStart
<1>4. ASSUME NEW p \in Payments, BeginSuccess(w, p)
      PROVE  BookInv'
  <2> DEFINE q == [Idle EXCEPT !.pc = "load", !.pay = p, !.user = owner[p]]
  <2>1. Start(w, q) /\ FoundRow(q, rows)
    BY <1>4 DEF BeginSuccess, Idle, FoundRow
  <2> HIDE DEF q
  <2> QED BY <1>1, <2>1, BookStart
<1>5. ASSUME NEW p \in Payments, BeginFailure(w, p)
      PROVE  BookInv'
  <2> DEFINE q == [Idle EXCEPT !.pc = "fail", !.pay = p, !.doc = payment[p]]
  <2>1. Start(w, q) /\ FoundRow(q, rows)
    BY <1>5 DEF BeginFailure, Idle, FoundRow
  <2> HIDE DEF q
  <2> QED BY <1>1, <2>1, BookStart
<1>6. ASSUME NEW p \in Payments, NEW amount \in 1..Price,
             BeginRefund(w, p, amount) \/ BeginRefundHook(w, p, amount)
      PROVE  BookInv'
  <2>1. PICK pc \in {"ask", "sync"} :
            Start(w, [Idle EXCEPT !.pc = pc, !.pay = p, !.user = owner[p],
                                  !.doc = payment[p], !.amount = amount])
    BY <1>6 DEF BeginRefund, BeginRefundHook
  <2> DEFINE q == [Idle EXCEPT !.pc = pc, !.pay = p, !.user = owner[p],
                               !.doc = payment[p], !.amount = amount]
  <2>2. Start(w, q) /\ FoundRow(q, rows)
    BY <2>1 DEF Idle, FoundRow
  <2> HIDE DEF q
  <2> QED BY <1>1, <2>2, BookStart
<1> QED BY <1>2, <1>3, <1>4, <1>5, <1>6 DEF Begin

\* What saving a row makes of it.
LEMMA SavedRow ==
  ASSUME PayInv, NEW u \in Members, NEW old \in RsvpRow, NEW new \in RsvpRow,
         SaveRow(u, old, new)
  PROVE  /\ rows' \in [Members -> RsvpRow]
         /\ \A x \in Members : x # u => rows'[x] = rows[x]
         /\ rows'[u].status = IF new.status # old.status THEN new.status ELSE rows[u].status
         /\ new = old => rows'[u] = rows[u]
<1> DEFINE cur == rows[u]
           st == IF new.status # old.status THEN new.status ELSE cur.status
           pd == IF new.paid # old.paid THEN new.paid ELSE cur.paid
           py == IF new.pay # old.pay THEN new.pay ELSE cur.pay
<1>1. rows \in [Members -> RsvpRow] /\ cur \in RsvpRow
  BY DEF PayInv, DataInv
<1>2. Merge(cur, old, new) = [status |-> st, paid |-> pd, pay |-> py]
  BY <1>1 DEF Merge, RsvpRow
<1>3. Merge(cur, old, new) \in RsvpRow
  BY <1>1, MergeRow
<1>4. new = old => [status |-> st, paid |-> pd, pay |-> py] = cur
  BY <1>1 DEF RsvpRow
<1>5. rows' = [rows EXCEPT ![u] = Merge(cur, old, new)]
  BY DEF SaveRow
<1>6. Merge(cur, old, new).status = st
  BY <1>2
<1> HIDE DEF cur
<1> QED BY <1>1, <1>2, <1>3, <1>4, <1>5, <1>6 DEF cur

\* Saving a row that is there.
LEMMA RowSaved ==
  ASSUME PayInv, BookInv, NEW u \in Members, NEW old \in RsvpRow, NEW new \in RsvpRow,
         SaveRow(u, old, new), new.status # "none", rows[u] # NoRsvpRow,
         NEW W, u \in W \/ new = old
  PROVE  RowsGrow(W) /\ RowsReal'
<1>1. rows[u].status # "none"
  BY DEF BookInv, RowsReal
<1>2. rows'[u].status # "none"
  BY <1>1, SavedRow
<1>3. \A x \in Members : x # u => rows'[x] = rows[x]
  BY SavedRow
<1>4. new = old => rows'[u] = rows[u]
  BY SavedRow
<1>5. NoRsvpRow.status = "none"
  BY DEF NoRsvpRow
<1> QED BY <1>2, <1>3, <1>4, <1>5 DEF BookInv, RowsReal, RowsGrow

LEMMA BookQuietStep ==
  ASSUME PayInv, BookInv, NEW w \in Workers,
         \/ Create(w) \/ OpenPage(w) \/ Load(w) \/ DuplicateRow(w) \/ Retry(w)
         \/ Fail(w) \/ Ask(w) \/ Record(w) \/ Sync(w) \/ Crash(w)
  PROVE  BookInv'
<1>1. UNCHANGED <<rows, metrics>>
  BY DEF Create, OpenPage, Load, DuplicateRow, Retry, Fail, Ask, Record, Sync,
         RecordRefund, Crash
<1>2. work[w] \in Worker
  BY PayWorkerType
<1>3. ASSUME NEW W \in SUBSET Docs, Done(w, W)
      PROVE  BookInv'
  BY <1>1, <1>3, BookDone
<1>4. ASSUME NEW pc \in {"snapshot", "record", "find", "hookFind"}, NEW W \in SUBSET Docs,
             GoTo(w, pc, W)
      PROVE  BookInv'
  BY <1>1, <1>4, BookGoTo DEF Pc, Free
<1>5. \A p : p = work[w].pay /\ p \in Payments => {p} \in SUBSET Docs
  BY DEF Docs
<1>6. work[w].pc \in {"openPage", "fail", "record", "sync"} => {work[w].pay} \in SUBSET Docs
  BY PayWorkerType, <1>5 DEF PayWorkerOK
<1>7. {} \in SUBSET Docs
  OBVIOUS
<1>8. CASE Create(w)
  <2>1. PICK p \in Payments : Go(w, [work[w] EXCEPT !.pc = "openPage", !.pay = p], {p})
    BY <1>8 DEF Create
  <2> DEFINE q == [work[w] EXCEPT !.pc = "openPage", !.pay = p]
  <2>2. q \in Worker /\ Free(q.pc) /\ Go(w, q, {p}) /\ {p} \in SUBSET Docs
    BY <1>2, <2>1 DEF Worker, Pc, Free, Docs
  <2> HIDE DEF q
  <2> QED BY <1>1, <2>2, BookGoFree
<1>9. CASE OpenPage(w)
  BY <1>3, <1>6, <1>9 DEF OpenPage, At
<1>10. CASE Load(w)
  <2>1. CASE Done(w, {})
    BY <1>3, <1>7, <2>1
  <2> DEFINE q == [work[w] EXCEPT !.pc = "snapshot", !.doc = payment[work[w].pay]]
  <2>2. CASE Go(w, q, {}) /\ work[w].pc = "load"
    <3>1. payment[work[w].pay] \in PaymentRow
      BY <2>2, PayWorkerType DEF PayWorkerOK, PayInv, DataInv
    <3>2. q \in Worker /\ Free(q.pc)
      BY <1>2, <3>1 DEF Worker, Pc, Free
    <3> HIDE DEF q
    <3> QED BY <1>1, <1>7, <2>2, <3>2, BookGoFree
  <2> QED BY <1>10, <2>1, <2>2 DEF Load, At
<1>11. CASE DuplicateRow(w) \/ Crash(w)
  BY <1>3, <1>7, <1>11 DEF DuplicateRow, Crash
<1>12. CASE Retry(w)
  BY <1>4, <1>7, <1>12 DEF Retry
<1>13. CASE Fail(w)
  BY <1>3, <1>6, <1>13 DEF Fail, At
<1>14. CASE Ask(w)
  BY <1>3, <1>4, <1>7, <1>14 DEF Ask
<1>15. CASE Record(w) \/ Sync(w)
  <2>1. work[w].pc \in {"record", "sync"}
    BY <1>15 DEF Record, Sync, At
  <2>2. \/ GoTo(w, "find", {work[w].pay}) \/ GoTo(w, "hookFind", {work[w].pay})
        \/ Done(w, {work[w].pay})
    BY <1>15 DEF Record, Sync, RecordRefund
  <2> QED BY <1>3, <1>4, <1>6, <2>1, <2>2
<1> QED BY <1>8, <1>9, <1>10, <1>11, <1>12, <1>13, <1>14, <1>15

\* A row is looked up, or a transaction takes its snapshot.
LEMMA BookLookup ==
  ASSUME PayInv, BookInv, NEW w \in Workers, Snapshot(w) \/ Find(w) \/ HookFind(w)
  PROVE  BookInv'
<1> DEFINE row == rows[work[w].user]
<1>1. UNCHANGED <<rows, metrics>> /\ {} \in SUBSET Docs
  BY DEF Snapshot, Find, HookFind
<1>2. work[w] \in Worker /\ work[w].user \in Members /\ row \in RsvpRow
  BY PayWorkerType, UserThere DEF Snapshot, Find, HookFind, At, PayInv, DataInv
<1>3. CASE Done(w, {})
  BY <1>1, <1>3, BookDone
<1>4. CASE Snapshot(w)
  <2> DEFINE q == [work[w] EXCEPT !.pc = "commit", !.row = row, !.missed = {}]
  <2>1. q \in Worker /\ q.pc = "commit" /\ q.row = row /\ q.user = work[w].user
    BY <1>2 DEF Worker, Pc
  <2>2. Go(w, q, {})
    BY <1>4 DEF Snapshot
  <2> HIDE DEF q
  <2>3. FoundRow(q, rows')
    BY <1>1, <2>1 DEF FoundRow
  <2> QED BY <1>1, <2>1, <2>2, <2>3, BookGo, RowsRest
<1>5. ASSUME NEW pc \in {"vacate", "hookVacate"}, row # NoRsvpRow,
             Go(w, [work[w] EXCEPT !.pc = pc, !.row = row], {})
      PROVE  BookInv'
  <2> DEFINE q == [work[w] EXCEPT !.pc = pc, !.row = row]
  <2>1. q \in Worker /\ q.pc = pc /\ q.row = row /\ q.user = work[w].user
    BY <1>2 DEF Worker, Pc
  <2>2. Go(w, q, {})
    BY <1>5
  <2> HIDE DEF q
  <2>3. FoundRow(q, rows')
    BY <1>1, <1>5, <2>1 DEF FoundRow
  <2> QED BY <1>1, <2>1, <2>2, <2>3, BookGo, RowsRest
<1>6. NoRsvpRow.status = "none"
  BY DEF NoRsvpRow
<1> QED BY <1>3, <1>4, <1>5, <1>6 DEF Find, HookFind

LEMMA BookCounters ==
  ASSUME PayInv, BookInv, NEW w \in Workers, Uncount(w) \/ Unbook(w) \/ Decrement(w)
  PROVE  BookInv'
<1>1. metrics \in MetricsRow /\ UNCHANGED rows
  BY DEF PayInv, DataInv, Uncount, Unbook, Decrement
<1>2. metrics'.booked = metrics.booked
  BY <1>1 DEF Uncount, Unbook, Decrement, MetricsRow
<1>3. {} \in SUBSET Docs /\ {EventDoc} \in SUBSET Docs /\ {CommunityDoc} \in SUBSET Docs
  BY DEF Docs
<1>4. \/ \E W \in SUBSET Docs : Done(w, W)
      \/ \E W \in SUBSET Docs : GoTo(w, "unbook", W)
  BY <1>3 DEF Uncount, Unbook, Decrement
<1> QED BY <1>1, <1>2, <1>4, BookDone, BookGoTo DEF Free, Pc

LEMMA BookSaves ==
  ASSUME PayInv, BookInv, NEW w \in Workers,
         Vacate(w) \/ HookVacate(w) \/ Release(w) \/ SettleExisting(w)
  PROVE  BookInv'
<1> DEFINE q == work[w]
<1>1. /\ q \in Worker /\ q.user \in Members /\ q.row \in RsvpRow
      /\ rows[q.user] # NoRsvpRow /\ {q.user} \in SUBSET Docs
      /\ UNCHANGED metrics
  BY PayWorkerType, UserThere DEF Vacate, HookVacate, Release, SettleExisting, At, Docs,
                               BookInv, FoundRow
<1>2. q.pay \in Payments => {q.pay} \in SUBSET Docs /\ TicketFor(q) \in RsvpRow
  BY DEF Docs, TicketFor, RsvpRow
<1>3. Vacated(q.row) \in RsvpRow /\ Vacated(q.row).status = "cancelled"
      /\ [q.row EXCEPT !.status = "cancelled"] \in RsvpRow
      /\ [q.row EXCEPT !.status = "cancelled"].status = "cancelled"
      /\ (q.row.status = "cancelled" => [q.row EXCEPT !.status = "cancelled"] = q.row)
  BY <1>1 DEF Vacated, RsvpRow
<1>4. CASE Vacate(w)
  <2>1. SaveRow(q.user, q.row, Vacated(q.row)) /\ Done(w, {q.user})
    BY <1>4 DEF Vacate
  <2>2. RowsGrow({q.user}) /\ RowsReal'
    BY <1>1, <1>3, <2>1, RowSaved
  <2>3. FoundRow(Idle, rows')
    BY IdleType DEF FoundRow
  <2> QED BY <1>1, <2>1, <2>2, <2>3, IdleType, BookGo DEF Done
<1>5. CASE HookVacate(w)
  <2>1. SaveRow(q.user, q.row, Vacated(q.row)) /\ GoTo(w, "uncount", {q.user})
    BY <1>5 DEF HookVacate
  <2>2. RowsGrow({q.user}) /\ RowsReal'
    BY <1>1, <1>3, <2>1, RowSaved
  <2> DEFINE n == [q EXCEPT !.pc = "uncount"]
  <2>3. n \in Worker /\ n.pc = "uncount" /\ Go(w, n, {q.user})
    BY <1>1, <2>1 DEF Worker, Pc, GoTo
  <2> HIDE DEF n
  <2>4. FoundRow(n, rows')
    BY <2>3 DEF FoundRow
  <2> QED BY <1>1, <2>2, <2>3, <2>4, BookGo
<1>6. CASE Release(w)
  <2> DEFINE new == [q.row EXCEPT !.status = "cancelled"]
             W == IF q.row.status = "cancelled" THEN {} ELSE {q.user}
             n == [q EXCEPT !.pc = "decrement"]
  <2>1. SaveRow(q.user, q.row, new) /\ GoTo(w, "decrement", W)
    BY <1>6 DEF Release
  <2>2. W \in SUBSET Docs /\ (q.user \in W \/ new = q.row)
    BY <1>1, <1>3
  <2>3. n \in Worker /\ n.pc = "decrement" /\ Go(w, n, W)
    BY <1>1, <2>1 DEF Worker, Pc, GoTo
  <2>4. new \in RsvpRow /\ new.status = "cancelled"
    BY <1>3
  <2> HIDE DEF new, W, n
  <2>5. RowsGrow(W) /\ RowsReal'
    BY <1>1, <2>1, <2>2, <2>4, RowSaved
  <2>6. FoundRow(n, rows')
    BY <2>3 DEF FoundRow
  <2> QED BY <1>1, <2>2, <2>3, <2>5, <2>6, BookGo
<1>7. CASE SettleExisting(w)
  <2> DEFINE W == {q.pay} \cup (IF q.row = TicketFor(q) THEN {} ELSE {q.user})
  <2>1. SaveRow(q.user, q.row, TicketFor(q)) /\ Done(w, W)
    BY <1>7 DEF SettleExisting
  <2>2. q.pay \in Payments
    BY <1>7, PayWorkerType DEF SettleExisting, At, PayWorkerOK
  <2>3. W \in SUBSET Docs /\ (q.user \in W \/ TicketFor(q) = q.row)
    BY <1>1, <1>2, <2>2
  <2>4. TicketFor(q).status = "going"
    BY DEF TicketFor
  <2> HIDE DEF W
  <2>5. RowsGrow(W) /\ RowsReal'
    BY <1>1, <1>2, <2>1, <2>2, <2>3, <2>4, RowSaved
  <2>6. FoundRow(Idle, rows')
    BY IdleType DEF FoundRow
  <2> QED BY <1>1, <2>1, <2>3, <2>5, <2>6, IdleType, BookGo DEF Done
<1> QED BY <1>4, <1>5, <1>6, <1>7

\* The one step that books: it makes the row as well.
LEMMA BookSettleNew ==
  ASSUME PayInv, BookInv, NEW w \in Workers, SettleNew(w)
  PROVE  BookInv'
<1> DEFINE q == work[w]
           u == q.user
           W == WriteSet(q)
<1>1. /\ q \in Worker /\ u \in Members /\ q.pay \in Payments
      /\ q.pc = "commit" /\ q.row = NoRsvpRow /\ q.missed = {}
      /\ rows' = [rows EXCEPT ![u] = TicketFor(q)]
      /\ metrics' = [metrics EXCEPT !.rsvpCount = @ + 1, !.paidCount = @ + 1,
                                    !.booked = @ + Price, !.communityBooked = @ + Price]
      /\ Go(w, Idle, W)
  BY PayWorkerType, UserThere DEF SettleNew, At, Done, PayWorkerOK
<1>2. rows \in [Members -> RsvpRow] /\ metrics \in MetricsRow
  BY DEF PayInv, DataInv
<1>3. rows[u] = NoRsvpRow
  BY <1>1 DEF BookInv, FoundRow
<1>4. TicketFor(q) # NoRsvpRow /\ TicketFor(q).status # "none"
  BY DEF TicketFor, NoRsvpRow
<1>5. W \in SUBSET Docs /\ u \in W
  BY <1>1 DEF WriteSet, Docs
<1>6. RowsGrow(W) /\ RowsReal'
  BY <1>1, <1>2, <1>3, <1>4, <1>5 DEF RowsGrow, RowsReal, BookInv
<1>7. Rsvps' = Rsvps \cup {u} /\ u \notin Rsvps
  BY <1>1, <1>2, <1>3, <1>4 DEF Rsvps
<1>8. Cardinality(Rsvps') = Cardinality(Rsvps) + 1
  BY <1>7, RsvpsFinite, FS_AddElement
<1>9. BookedOncePerMember'
  <2>1. metrics'.booked = metrics.booked + Price /\ metrics.booked \in Nat
    BY <1>1, <1>2 DEF MetricsRow
  <2>2. metrics.booked <= Price * Cardinality(Rsvps)
    BY DEF BookInv, BookedOncePerMember, Rsvps
  <2>3. \A n \in Nat : Price * (n + 1) = Price * n + Price /\ Price * n \in Nat
    BY PriceAssumption
  <2>4. metrics'.booked <= Price * Cardinality(Rsvps')
    BY <1>8, <2>1, <2>2, <2>3, RsvpsFinite, PriceAssumption
  <2> QED BY <2>4 DEF BookedOncePerMember, Rsvps
<1>10. ASSUME NEW v \in Workers
       PROVE  FoundRow(work'[v], rows')
  <2>1. CASE v = w
    BY <1>1, <2>1, IdleType DEF Go, FoundRow
  <2>2. CASE v # w
    <3>1. work'[v] = Notice(work[v], W) /\ work[v] \in Worker /\ FoundRow(work[v], rows)
      BY <1>1, <2>2, PayWorkerType DEF Go, BookInv
    <3> QED BY <1>5, <1>6, <3>1, FoundKept, UserThere
  <2> QED BY <2>1, <2>2
<1> QED BY <1>6, <1>9, <1>10 DEF BookInv

\* The gateway and the job touch no row.
LEMMA BookOthers ==
  ASSUME PayInv, BookInv, UNCHANGED <<rows, metrics>>, NEW W \in SUBSET Docs,
         UNCHANGED work \/ work' = [v \in Workers |-> Notice(work[v], W)]
  PROVE  BookInv'
<1>1. ASSUME NEW v \in Workers
      PROVE  FoundRow(work'[v], rows')
  <2>1. work[v] \in Worker /\ FoundRow(work[v], rows) /\ RowsGrow(W)
    BY PayWorkerType, RowsRest DEF BookInv
  <2>2. FoundRow(Notice(work[v], W), rows')
    BY <2>1, FoundKept, UserThere
  <2> QED BY <2>1, <2>2
<1> QED BY <1>1 DEF BookInv, RowsReal, BookedOncePerMember

LEMMA BookInit == Init => BookInv
<1> SUFFICES ASSUME Init
             PROVE  BookInv
  OBVIOUS
<1>1. RowsReal
  BY DEF Init, RowsReal, NoRsvpRow
<1>2. BookedOncePerMember
  BY RsvpsFinite, PriceAssumption DEF Init, BookedOncePerMember, Rsvps
<1>3. \A w \in Workers : FoundRow(work[w], rows)
  BY IdleType DEF Init, FoundRow
<1> QED BY <1>1, <1>2, <1>3 DEF BookInv

LEMMA BookNext == PayInv /\ BookInv /\ [Next]_vars => BookInv'
<1> SUFFICES ASSUME PayInv, BookInv, [Next]_vars
             PROVE  BookInv'
  OBVIOUS
<1>1. {} \in SUBSET Docs
  OBVIOUS
<1>2. CASE UNCHANGED vars \/ GatewayStep
  BY <1>1, <1>2, BookOthers DEF vars, GatewayStep, Charge, Decline, DashboardRefund
<1>3. ASSUME NEW p \in Payments, Expire(p)
      PROVE  BookInv'
  <2>1. {p} \in SUBSET Docs
    BY DEF Docs
  <2> QED BY <1>3, <2>1, BookOthers DEF Expire
<1>4. ASSUME NEW w \in Workers, Begin(w) \/ Step(w) \/ Crash(w)
      PROVE  BookInv'
  BY <1>4, BookBegin, BookQuietStep, BookLookup, BookCounters, BookSaves, BookSettleNew
     DEF Step, SettleStep, RefundStep, RefundHookStep
<1> QED BY <1>2, <1>3, <1>4 DEF Next

\* A member's payments are booked in the event's revenue once
\* (GatewayService.ts:653-684), for any number of members, payments and
\* overlapping webhooks, with crashes and transactions that are run again: the
\* snapshot in which there was no row is the one the row is written from.
THEOREM BookedOnce == Spec => []BookedOncePerMember
<1>1. BookInv => BookedOncePerMember
  BY DEF BookInv
<1> QED BY <1>1, BookInit, BookNext, PayInvariance, PTL DEF Spec

-----------------------------------------------------------------------------
(* Workers that do not overlap.                                            *)

PayInTurn == \A v, w \in Workers : v = w

Good == {"succeeded", "partial_refund"}

\* A Payment row that has been loaded as old may have expired since.
Followed(old, cur) ==
    \/ cur = old
    \/ old.status = "pending" /\ cur = [old EXCEPT !.status = "failed"]

\* What the worker that is at q has loaded still holds, and it serves the
\* member whose payment it is at.
Knows(q, pm, rs, own) ==
    /\ q.pc = "load" => pm[q.pay].status # "refunded"
    /\ q.pc \in {"snapshot", "commit"} =>
          Followed(q.doc, pm[q.pay]) /\ q.doc.status \notin {"succeeded", "refunded"}
    /\ q.pc = "fail" => Followed(q.doc, pm[q.pay]) /\ q.doc.status = "pending"
    /\ q.pc \in {"ask", "record", "sync"} => pm[q.pay] = q.doc /\ q.doc.status \in Good
    /\ q.pc \in {"load", "snapshot", "commit", "ask", "record", "sync"} =>
          own[q.pay] = q.user
    /\ q.pc \in {"commit", "vacate", "hookVacate", "release"} => rs[q.user] = q.row

\* A row is refunded when all is given back, and knows the transaction of the
\* charge only when it is settled.
RowAgrees(d) ==
    /\ (d.status = "refunded") <=> (d.refunded = Price)
    /\ d.tx = "charge" => d.status \in Settled

PayTurnInv ==
    /\ \A p \in Payments : RowAgrees(payment[p])
    /\ \A w \in Workers : Knows(work[w], payment, rows, owner)

\* A ticket is backed by a payment, or about to be cancelled.
Ticket(row) == row.status = "going" /\ row.paid = "paid"

Backed(u) == \E p \in Payments : owner[p] = u /\ payment[p].status \in Good

Leaving(q, u) == q.user = u /\ q.pc \in {"find", "vacate", "hookFind", "hookVacate"}

TicketInv ==
    \A u \in Members : Ticket(rows[u]) =>
        Backed(u) \/ (\E w \in Workers : Leaving(work[w], u))

\* A step turns no settled row into an open one, and undoes no full refund.
PayMove ==
    \A p \in Payments :
        /\ RowAgrees(payment'[p])
        /\ payment[p].status \in Settled => payment'[p].status \in Settled
        /\ payment[p].status = "refunded" => payment'[p].status = "refunded"

KeepsGood ==
    \A p \in Payments : payment[p].status \in Good =>
        payment'[p].status \in Good /\ owner'[p] = owner[p]

TurnStep == PayMove /\ \A v \in Workers : Knows(work'[v], payment', rows', owner')

LEMMA TurnHeld ==
  ASSUME PayInv, PayTurnInv, NEW w \in Workers
  PROVE  /\ work[w] \in Worker /\ PayWorkerOK(work[w], owner, gateway)
         /\ work[w].doc \in PaymentRow /\ work[w].row \in RsvpRow
         /\ Knows(work[w], payment, rows, owner)
         /\ payment \in [Payments -> PaymentRow] /\ rows \in [Members -> RsvpRow]
         /\ owner \in [Payments -> Members \cup {NoMember}]
         /\ work[w].pay \in Payments => RowAgrees(payment[work[w].pay])
BY PayWorkerType DEF PayInv, DataInv, PayTurnInv

\* The one worker there is goes on as q.
LEMMA PayTurnOf ==
  ASSUME PayInTurn, NEW w \in Workers, NEW q, NEW W, Go(w, q, W),
         Knows(q, payment', rows', owner'), PayMove
  PROVE  TurnStep
<1>1. \A v \in Workers : work'[v] = q
  BY DEF PayInTurn, Go
<1> QED BY <1>1 DEF TurnStep

\* Where a worker relies on nothing it has loaded.
Careless == {"idle", "create", "openPage", "find", "hookFind", "uncount", "unbook", "decrement"}

LEMMA CarelessTurn ==
  ASSUME PayInTurn, PayInv, NEW w \in Workers, PayMove,
         \/ \E W : Done(w, W)
         \/ \E pc \in Careless : \E W : GoTo(w, pc, W)
  PROVE  TurnStep
<1>1. CASE \E W : Done(w, W)
  <2>1. Knows(Idle, payment', rows', owner')
    BY IdleType DEF Knows
  <2> QED BY <1>1, <2>1, PayTurnOf DEF Done
<1>2. ASSUME NEW pc \in Careless, NEW W, GoTo(w, pc, W)
      PROVE  TurnStep
  <2> DEFINE q == [work[w] EXCEPT !.pc = pc]
  <2>1. q.pc = pc /\ Go(w, q, W)
    BY <1>2, PayWorkerType DEF Worker, GoTo
  <2> HIDE DEF q
  <2>2. Knows(q, payment', rows', owner')
    BY <2>1 DEF Knows, Careless
  <2> QED BY <2>1, <2>2, PayTurnOf
<1> QED BY <1>1, <1>2

LEMMA PaymentsRest ==
  ASSUME PayTurnInv, UNCHANGED <<payment, owner>>
  PROVE  PayMove /\ KeepsGood
BY DEF PayTurnInv, PayMove, KeepsGood

\* One Payment row changes.
LEMMA OneRow ==
  ASSUME PayTurnInv, NEW p \in Payments,
         \A x \in Payments : x # p => payment'[x] = payment[x],
         RowAgrees(payment'[p]),
         payment[p].status \in Settled => payment'[p].status \in Settled,
         payment[p].status = "refunded" => payment'[p].status = "refunded"
  PROVE  /\ PayMove
         /\ (\A x \in Payments : payment[x].status \in Good => owner'[x] = owner[x])
            /\ (payment[p].status \in Good => payment'[p].status \in Good)
            => KeepsGood
<1>1. PayMove
  BY DEF PayTurnInv, PayMove
<1> QED BY <1>1 DEF KeepsGood

LEMMA SavedPayment ==
  ASSUME PayInv, NEW p \in Payments, NEW old \in PaymentRow, NEW new \in PaymentRow,
         SavePayment(p, old, new)
  PROVE  /\ \A x \in Payments : x # p => payment'[x] = payment[x]
         /\ payment'[p] \in PaymentRow
         /\ payment'[p].status =
                IF new.status # old.status THEN new.status ELSE payment[p].status
         /\ payment'[p].refunded =
                IF new.refunded # old.refunded THEN new.refunded ELSE payment[p].refunded
         /\ payment'[p].tx = IF new.tx # old.tx THEN new.tx ELSE payment[p].tx
<1> DEFINE cur == payment[p]
           st == IF new.status # old.status THEN new.status ELSE cur.status
           re == IF new.refunded # old.refunded THEN new.refunded ELSE cur.refunded
           tx == IF new.tx # old.tx THEN new.tx ELSE cur.tx
           m == Merge(cur, old, new)
<1>1. payment \in [Payments -> PaymentRow] /\ cur \in PaymentRow
  BY DEF PayInv, DataInv
<1>2. m = [status |-> st, refunded |-> re, tx |-> tx] /\ m \in PaymentRow
  BY <1>1, MergePayment DEF Merge, PaymentRow
<1>3. m.status = st /\ m.refunded = re /\ m.tx = tx
  BY <1>2
<1>4. payment' = [payment EXCEPT ![p] = m]
  BY DEF SavePayment
<1>5. m \in PaymentRow
  BY <1>2
<1> HIDE DEF m
<1> QED BY <1>1, <1>3, <1>4, <1>5

LEMMA PayBeginTurn ==
  ASSUME PayInTurn, PayInv, PayTurnInv, NEW w \in Workers, Begin(w)
  PROVE  TurnStep /\ KeepsGood
<1>1. UNCHANGED <<payment, owner, rows>> /\ PayMove /\ KeepsGood
  BY PaymentsRest DEF Begin, BeginCheckout, BeginCancel, BeginSuccess, BeginFailure,
                      BeginRefund, BeginRefundHook, Start
<1>2. ASSUME NEW u \in Members, BeginCheckout(w, u)
      PROVE  TurnStep
  <2> DEFINE q == [Idle EXCEPT !.pc = "create", !.user = u]
  <2>1. q.pc = "create" /\ Go(w, q, {})
    BY <1>2 DEF BeginCheckout, Start, Idle
  <2> HIDE DEF q
  <2>2. Knows(q, payment', rows', owner')
    BY <2>1 DEF Knows
  <2> QED BY <1>1, <2>1, <2>2, PayTurnOf
<1>3. ASSUME NEW u \in Members, BeginCancel(w, u)
      PROVE  TurnStep
  <2> DEFINE q == [Idle EXCEPT !.pc = "release", !.user = u, !.row = rows[u]]
  <2>1. q.pc = "release" /\ q.user = u /\ q.row = rows[u] /\ Go(w, q, {})
    BY <1>3 DEF BeginCancel, Start, Idle
  <2> HIDE DEF q
  <2>2. Knows(q, payment', rows', owner')
    BY <1>1, <2>1 DEF Knows
  <2> QED BY <1>1, <2>1, <2>2, PayTurnOf
<1>4. ASSUME NEW p \in Payments, BeginSuccess(w, p)
      PROVE  TurnStep
  <2> DEFINE q == [Idle EXCEPT !.pc = "load", !.pay = p, !.user = owner[p]]
  <2>1. /\ q.pc = "load" /\ q.user = owner[p] /\ q.pay = p /\ Go(w, q, {})
        /\ payment[p].status # "refunded"
    BY <1>4 DEF BeginSuccess, Start, Idle
  <2> HIDE DEF q
  <2>2. Knows(q, payment', rows', owner')
    BY <1>1, <2>1 DEF Knows
  <2> QED BY <1>1, <2>1, <2>2, PayTurnOf
<1>5. ASSUME NEW p \in Payments, BeginFailure(w, p)
      PROVE  TurnStep
  <2> DEFINE q == [Idle EXCEPT !.pc = "fail", !.pay = p, !.doc = payment[p]]
  <2>1. /\ q.pc = "fail" /\ q.doc = payment[p] /\ q.pay = p /\ Go(w, q, {})
        /\ payment[p].status = "pending"
    BY <1>5 DEF BeginFailure, Start, Idle
  <2> HIDE DEF q
  <2>2. Knows(q, payment', rows', owner')
    BY <1>1, <2>1 DEF Knows, Followed
  <2> QED BY <1>1, <2>1, <2>2, PayTurnOf
<1>6. ASSUME NEW p \in Payments, NEW amount \in 1..Price,
             BeginRefund(w, p, amount) \/ BeginRefundHook(w, p, amount)
      PROVE  TurnStep
  <2>1. PICK pc \in {"ask", "sync"} :
            Go(w, [Idle EXCEPT !.pc = pc, !.pay = p, !.user = owner[p],
                               !.doc = payment[p], !.amount = amount], {})
    BY <1>6 DEF BeginRefund, BeginRefundHook, Start
  <2>2. payment[p].status \in Good
    <3>1. RowAgrees(payment[p])
      BY DEF PayTurnInv
    <3>2. CASE BeginRefund(w, p, amount)
      BY <3>2 DEF BeginRefund, Good
    <3>3. CASE BeginRefundHook(w, p, amount)
      <4>1. payment[p].tx = "charge" /\ payment[p].refunded # Price
        BY <3>3, PriceAssumption DEF BeginRefundHook, PayInv, DataInv, PaymentRow
      <4> QED BY <3>1, <4>1 DEF RowAgrees, Good, Settled
    <3> QED BY <1>6, <3>2, <3>3
  <2> DEFINE q == [Idle EXCEPT !.pc = pc, !.pay = p, !.user = owner[p],
                               !.doc = payment[p], !.amount = amount]
  <2>3. /\ q.pc = pc /\ q.pay = p /\ q.user = owner[p] /\ q.doc = payment[p]
        /\ Go(w, q, {})
    BY <2>1 DEF Idle
  <2> HIDE DEF q
  <2>4. Knows(q, payment', rows', owner')
    BY <1>1, <2>2, <2>3 DEF Knows
  <2> QED BY <1>1, <2>3, <2>4, PayTurnOf
<1> QED BY <1>1, <1>2, <1>3, <1>4, <1>5, <1>6 DEF Begin

LEMMA PayCreateTurn ==
  ASSUME PayInTurn, PayInv, PayTurnInv, NEW w \in Workers, Create(w)
  PROVE  TurnStep /\ KeepsGood
<1>1. PICK p \in Payments :
          /\ payment[p].status = "none"
          /\ payment' = [payment EXCEPT ![p].status = "pending"]
          /\ owner' = [owner EXCEPT ![p] = work[w].user]
          /\ Go(w, [work[w] EXCEPT !.pc = "openPage", !.pay = p], {p})
  BY DEF Create
<1> DEFINE q == [work[w] EXCEPT !.pc = "openPage", !.pay = p]
<1>2. /\ payment'[p].status = "pending" /\ payment'[p].refunded = payment[p].refunded
      /\ payment'[p].tx = payment[p].tx
      /\ \A x \in Payments : x # p => payment'[x] = payment[x] /\ owner'[x] = owner[x]
  BY <1>1, TurnHeld DEF PaymentRow
<1>3. RowAgrees(payment'[p])
  BY <1>1, <1>2 DEF PayTurnInv, RowAgrees, Settled
<1>4. PayMove /\ KeepsGood
  BY <1>1, <1>2, <1>3, OneRow DEF Settled, Good
<1>5. q.pc = "openPage" /\ Go(w, q, {p})
  BY <1>1, TurnHeld DEF Worker
<1> HIDE DEF q
<1>6. Knows(q, payment', rows', owner')
  BY <1>5 DEF Knows
<1> QED BY <1>4, <1>5, <1>6, PayTurnOf

\* Rows are looked up; Payment rows rest.
LEMMA LookupTurn ==
  ASSUME PayInTurn, PayInv, PayTurnInv, NEW w \in Workers,
         Load(w) \/ Snapshot(w) \/ Retry(w) \/ Find(w) \/ HookFind(w)
  PROVE  TurnStep /\ KeepsGood
<1> DEFINE p == work[w]
<1>1. UNCHANGED <<payment, owner, rows>> /\ PayMove /\ KeepsGood
  BY PaymentsRest DEF Load, Snapshot, Retry, Find, HookFind
<1>2. /\ p \in Worker /\ Knows(p, payment, rows, owner)
      /\ p.pc \in {"load", "snapshot", "commit", "find", "hookFind"}
  BY TurnHeld DEF Load, Snapshot, Retry, Find, HookFind, At
<1>3. CASE Done(w, {})
  BY <1>1, <1>3, CarelessTurn
<1>4. CASE Load(w) /\ ~ Done(w, {})
  <2> DEFINE q == [p EXCEPT !.pc = "snapshot", !.doc = payment[p.pay]]
  <2>1. /\ Go(w, q, {}) /\ p.pc = "load" /\ payment[p.pay].status # "succeeded"
    BY <1>4 DEF Load, At
  <2>2. q.pc = "snapshot" /\ q.pay = p.pay /\ q.user = p.user /\ q.doc = payment[p.pay]
    BY <1>2 DEF Worker
  <2> HIDE DEF q
  <2>3. Knows(q, payment', rows', owner')
    BY <1>1, <1>2, <2>1, <2>2 DEF Knows, Followed
  <2> QED BY <1>1, <2>1, <2>3, PayTurnOf
<1>5. CASE Snapshot(w)
  <2> DEFINE q == [p EXCEPT !.pc = "commit", !.row = rows[p.user], !.missed = {}]
  <2>1. Go(w, q, {}) /\ p.pc = "snapshot"
    BY <1>5 DEF Snapshot, At
  <2>2. /\ q.pc = "commit" /\ q.pay = p.pay /\ q.user = p.user /\ q.doc = p.doc
        /\ q.row = rows[p.user]
    BY <1>2 DEF Worker
  <2> HIDE DEF q
  <2>3. Knows(q, payment', rows', owner')
    BY <1>1, <1>2, <2>1, <2>2 DEF Knows
  <2> QED BY <1>1, <2>1, <2>3, PayTurnOf
<1>6. CASE Retry(w)
  <2> DEFINE q == [p EXCEPT !.pc = "snapshot"]
  <2>1. Go(w, q, {}) /\ p.pc = "commit"
    BY <1>6 DEF Retry, At, GoTo
  <2>2. q.pc = "snapshot" /\ q.pay = p.pay /\ q.user = p.user /\ q.doc = p.doc
    BY <1>2 DEF Worker
  <2> HIDE DEF q
  <2>3. Knows(q, payment', rows', owner')
    BY <1>1, <1>2, <2>1, <2>2 DEF Knows
  <2> QED BY <1>1, <2>1, <2>3, PayTurnOf
<1>7. ASSUME NEW pc \in {"vacate", "hookVacate"},
             Go(w, [p EXCEPT !.pc = pc, !.row = rows[p.user]], {})
      PROVE  TurnStep
  <2> DEFINE q == [p EXCEPT !.pc = pc, !.row = rows[p.user]]
  <2>1. q.pc = pc /\ q.user = p.user /\ q.row = rows[p.user] /\ Go(w, q, {})
    BY <1>2, <1>7 DEF Worker
  <2> HIDE DEF q
  <2>2. Knows(q, payment', rows', owner')
    BY <1>1, <2>1 DEF Knows
  <2> QED BY <1>1, <2>1, <2>2, PayTurnOf
<1>8. CASE Find(w) \/ HookFind(w)
  <2>1. \/ Done(w, {})
        \/ Go(w, [p EXCEPT !.pc = "vacate", !.row = rows[p.user]], {})
        \/ Go(w, [p EXCEPT !.pc = "hookVacate", !.row = rows[p.user]], {})
    BY <1>8 DEF Find, HookFind
  <2>2. TurnStep
    BY <1>3, <1>7, <2>1
  <2> QED BY <1>1, <2>2
<1> QED BY <1>1, <1>3, <1>4, <1>5, <1>6, <1>8

\* Steps after which the worker relies on nothing, and Payment rows rest.
LEMMA RestTurn ==
  ASSUME PayInTurn, PayInv, PayTurnInv, NEW w \in Workers,
         \/ OpenPage(w) \/ DuplicateRow(w) \/ Vacate(w) \/ HookVacate(w) \/ Uncount(w)
         \/ Unbook(w) \/ Release(w) \/ Decrement(w) \/ Crash(w)
  PROVE  TurnStep /\ KeepsGood
<1>1. PayMove /\ KeepsGood
  BY PaymentsRest DEF OpenPage, DuplicateRow, Vacate, HookVacate, Uncount, Unbook,
                      Release, Decrement, Crash
<1>2. \/ \E W : Done(w, W)
      \/ \E pc \in Careless : \E W : GoTo(w, pc, W)
  BY DEF OpenPage, DuplicateRow, Vacate, HookVacate, Uncount, Unbook, Release, Decrement,
         Crash, Careless
<1> QED BY <1>1, <1>2, CarelessTurn

LEMMA AskTurn ==
  ASSUME PayInTurn, PayInv, PayTurnInv, NEW w \in Workers, Ask(w)
  PROVE  TurnStep /\ KeepsGood
<1> DEFINE p == work[w]
           q == [p EXCEPT !.pc = "record"]
<1>1. UNCHANGED <<payment, owner, rows>> /\ PayMove /\ KeepsGood
  BY PaymentsRest DEF Ask, Refund, Return
<1>2. p \in Worker /\ Knows(p, payment, rows, owner) /\ p.pc = "ask"
  BY TurnHeld DEF Ask, At
<1>3. CASE Done(w, {})
  BY <1>1, <1>3, CarelessTurn
<1>4. CASE Go(w, q, {})
  <2>1. q.pc = "record" /\ q.pay = p.pay /\ q.user = p.user /\ q.doc = p.doc
    BY <1>2 DEF Worker
  <2> HIDE DEF q
  <2>2. Knows(q, payment', rows', owner')
    BY <1>1, <1>2, <2>1 DEF Knows
  <2> QED BY <1>1, <1>4, <2>2, PayTurnOf
<1> QED BY <1>1, <1>3, <1>4 DEF Ask, GoTo

\* A payment is settled whatever it was, but for a full refund.
LEMMA SettleTurn ==
  ASSUME PayInTurn, PayInv, PayTurnInv, NEW w \in Workers, SettleExisting(w) \/ SettleNew(w)
  PROVE  /\ TurnStep /\ KeepsGood
         /\ payment'[work[w].pay].status = "succeeded" /\ work[w].pay \in Payments
         /\ owner'[work[w].pay] = work[w].user
<1> DEFINE q == work[w]
           p == q.pay
           new == [q.doc EXCEPT !.status = "succeeded", !.tx = "charge"]
<1>1. /\ SavePayment(p, q.doc, new) /\ UNCHANGED owner /\ q.pc = "commit"
      /\ \E W : Done(w, W)
  BY DEF SettleExisting, SettleNew, SavePaid, At
<1>2. /\ q \in Worker /\ q.doc \in PaymentRow /\ p \in Payments
      /\ Followed(q.doc, payment[p]) /\ q.doc.status \notin {"succeeded", "refunded"}
      /\ owner[p] = q.user /\ RowAgrees(payment[p]) /\ payment[p] \in PaymentRow
  BY <1>1, TurnHeld DEF PayWorkerOK, Knows
<1>3. /\ new \in PaymentRow /\ new.status = "succeeded" /\ new.tx = "charge"
      /\ new.refunded = q.doc.refunded
  BY <1>2 DEF PaymentRow
<1> HIDE DEF new
<1>4. /\ \A x \in Payments : x # p => payment'[x] = payment[x]
      /\ payment'[p].status = "succeeded" /\ payment'[p].refunded = payment[p].refunded
  BY <1>1, <1>2, <1>3, SavedPayment
<1>5. payment[p].status # "refunded"
  BY <1>2 DEF Followed, PaymentRow
<1>6. RowAgrees(payment'[p])
  BY <1>2, <1>4, <1>5 DEF RowAgrees, Settled
<1> HIDE DEF p
<1>7. PayMove /\ KeepsGood
  BY <1>1, <1>2, <1>4, <1>5, <1>6, OneRow DEF Settled, Good
<1> QED BY <1>1, <1>2, <1>4, <1>7, CarelessTurn DEF p

\* Only an open payment fails.
LEMMA FailTurn ==
  ASSUME PayInTurn, PayInv, PayTurnInv, NEW w \in Workers, Fail(w)
  PROVE  TurnStep /\ KeepsGood
<1> DEFINE q == work[w]
           p == q.pay
<1>1. PICK tx \in {q.doc.tx, "decline"} :
          SavePayment(p, q.doc, [q.doc EXCEPT !.status = "failed", !.tx = tx])
  BY DEF Fail
<1> DEFINE new == [q.doc EXCEPT !.status = "failed", !.tx = tx]
<1>2. UNCHANGED owner /\ q.pc = "fail" /\ \E W : Done(w, W)
  BY DEF Fail, At
<1>3. /\ q \in Worker /\ q.doc \in PaymentRow /\ p \in Payments
      /\ Followed(q.doc, payment[p]) /\ q.doc.status = "pending"
      /\ RowAgrees(payment[p]) /\ payment[p] \in PaymentRow
  BY <1>2, TurnHeld DEF PayWorkerOK, Knows
<1>4. /\ new \in PaymentRow /\ new.status = "failed" /\ new.tx = tx
      /\ new.refunded = q.doc.refunded
  BY <1>3 DEF PaymentRow
<1>5. SavePayment(p, q.doc, new)
  BY <1>1
<1> HIDE DEF new
<1>6. /\ \A x \in Payments : x # p => payment'[x] = payment[x]
      /\ payment'[p].status = "failed" /\ payment'[p].refunded = payment[p].refunded
      /\ payment'[p].tx \in {payment[p].tx, "decline"}
  BY <1>3, <1>4, <1>5, SavedPayment
<1>7. payment[p].status \in {"pending", "failed"}
  BY <1>3 DEF Followed, PaymentRow
<1>8. RowAgrees(payment'[p])
  BY <1>3, <1>6, <1>7 DEF RowAgrees, Settled
<1> HIDE DEF p
<1>9. PayMove /\ KeepsGood
  BY <1>2, <1>3, <1>6, <1>7, <1>8, OneRow DEF Settled, Good
<1> QED BY <1>2, <1>9, CarelessTurn

\* A refund is recorded; when it is a full one the member's ticket is next.
LEMMA RecordTurn ==
  ASSUME PayInTurn, PayInv, PayTurnInv, NEW w \in Workers, Record(w) \/ Sync(w)
  PROVE  /\ TurnStep
         /\ KeepsGood \/ /\ \E pc \in {"find", "hookFind"} : \E W : GoTo(w, pc, W)
                         /\ owner[work[w].pay] = work[w].user /\ UNCHANGED <<owner, rows>>
                         /\ \A x \in Payments : x # work[w].pay => payment'[x] = payment[x]
<1> DEFINE q == work[w]
           p == q.pay
<1>1. PICK refunded \in 0..Price, next \in {"find", "hookFind"} :
          RecordRefund(w, refunded, next)
  <2>1. CASE Record(w)
    <3>1. q.pc = "record" /\ RecordRefund(w, q.doc.refunded + q.amount, "find")
      BY <2>1 DEF Record, At
    <3>2. /\ q.doc.refunded + q.amount <= gateway[p].returned
          /\ q.doc.refunded \in Nat /\ q.amount \in Nat /\ gateway[p].returned \in 0..Price
      BY <3>1, PayWorkerType, PriceAssumption
         DEF PayWorkerOK, PaymentRow, PayInv, DataInv, PayGatewayRow
    <3> QED BY <3>1, <3>2, PriceAssumption
  <2>2. CASE Sync(w)
    <3>1. RecordRefund(w, Larger(q.doc.refunded, q.amount), "hookFind")
      BY <2>2 DEF Sync
    <3>2. Larger(q.doc.refunded, q.amount) \in 0..Price
      BY PayWorkerType DEF PaymentRow, Larger
    <3> QED BY <3>1, <3>2
  <2> QED BY <2>1, <2>2
<1> DEFINE st == IF refunded >= Price THEN "refunded" ELSE "partial_refund"
           new == [q.doc EXCEPT !.refunded = refunded, !.status = st]
<1>2. /\ SavePayment(p, q.doc, new) /\ UNCHANGED <<owner, rows>>
      /\ IF new.status = "refunded" THEN GoTo(w, next, {p}) ELSE Done(w, {p})
  BY <1>1 DEF RecordRefund, WithRefund
<1>3. /\ q \in Worker /\ q.doc \in PaymentRow /\ p \in Payments
      /\ payment[p] = q.doc /\ q.doc.status \in Good /\ owner[p] = q.user
  BY TurnHeld DEF Record, Sync, At, PayWorkerOK, Knows
<1>4. st \in {"refunded", "partial_refund"} /\ (st = "refunded" <=> refunded = Price)
  BY PriceAssumption
<1> HIDE DEF st
<1>5. new \in PaymentRow /\ new.status = st /\ new.refunded = refunded /\ new.tx = q.doc.tx
  BY <1>3, <1>4 DEF PaymentRow
<1> HIDE DEF new
<1>6. /\ \A x \in Payments : x # p => payment'[x] = payment[x]
      /\ payment'[p].status = st /\ payment'[p].refunded = refunded
  BY <1>2, <1>3, <1>5, SavedPayment
<1>7. RowAgrees(payment'[p])
  BY <1>4, <1>6 DEF RowAgrees, Settled
<1>8. payment[p].status # "refunded" /\ payment'[p].status \in Settled
  BY <1>3, <1>4, <1>6 DEF Good, Settled
<1> HIDE DEF p
<1>9. PayMove
  BY <1>3, <1>6, <1>7, <1>8, OneRow
<1>10. TurnStep
  BY <1>2, <1>9, CarelessTurn DEF Careless
<1>11. CASE st = "refunded"
  BY <1>2, <1>3, <1>5, <1>6, <1>10, <1>11 DEF p
<1>12. CASE st # "refunded"
  <2>1. payment'[p].status \in Good
    BY <1>4, <1>6, <1>12 DEF Good
  <2>2. KeepsGood
    BY <1>2, <1>3, <1>6, <1>7, <1>8, <2>1, OneRow
  <2> QED BY <1>10, <2>2
<1> QED BY <1>11, <1>12

\* The gateway and the job that expires payments, while a worker is at work.
LEMMA PayOutsideTurn ==
  ASSUME PayInv, PayTurnInv, GatewayStep \/ \E p \in Payments : Expire(p)
  PROVE  TurnStep /\ KeepsGood /\ UNCHANGED <<rows, owner>>
         /\ \A v \in Workers : work'[v].pc = work[v].pc /\ work'[v].user = work[v].user
<1>1. CASE GatewayStep
  <2>1. UNCHANGED <<payment, owner, rows, work>>
    BY <1>1 DEF GatewayStep, Charge, Decline, DashboardRefund
  <2> QED BY <2>1, PaymentsRest DEF TurnStep, PayTurnInv
<1>2. ASSUME NEW p \in Payments, Expire(p)
      PROVE  TurnStep /\ KeepsGood /\ UNCHANGED <<rows, owner>>
             /\ \A v \in Workers : work'[v].pc = work[v].pc /\ work'[v].user = work[v].user
  <2>1. /\ payment[p].status = "pending" /\ UNCHANGED <<rows, owner>>
        /\ payment' = [payment EXCEPT ![p].status = "failed"]
        /\ \A v \in Workers : work'[v] = Notice(work[v], {p})
        /\ payment \in [Payments -> PaymentRow] /\ RowAgrees(payment[p])
    BY <1>2 DEF Expire, PayInv, DataInv, PayTurnInv
  <2>2. /\ payment'[p] = [payment[p] EXCEPT !.status = "failed"]
        /\ payment'[p].status = "failed" /\ payment'[p].refunded = payment[p].refunded
        /\ payment'[p].tx = payment[p].tx
        /\ \A x \in Payments : x # p => payment'[x] = payment[x]
    BY <2>1 DEF PaymentRow
  <2>3. PayMove /\ KeepsGood
    <3>1. RowAgrees(payment'[p])
      BY <2>1, <2>2 DEF RowAgrees, Settled
    <3> QED BY <2>1, <2>2, <3>1, OneRow DEF Settled, Good
  <2>4. ASSUME NEW v \in Workers
        PROVE  /\ work'[v].pc = work[v].pc /\ work'[v].user = work[v].user
               /\ Knows(work'[v], payment', rows', owner')
    <3> DEFINE q == work[v]
    <3>1. /\ q \in Worker /\ PayWorkerOK(q, owner, gateway) /\ Knows(q, payment, rows, owner)
          /\ q.doc \in PaymentRow
      BY PayWorkerType DEF PayTurnInv
    <3>2. {p} \in SUBSET Docs
      BY DEF Docs
    <3>3. work'[v] = [q EXCEPT !.missed = Notice(q, {p}).missed]
      BY <2>1, <3>1, <3>2, NoticeType
    <3>4. /\ work'[v].pc = q.pc /\ work'[v].user = q.user /\ work'[v].pay = q.pay
          /\ work'[v].doc = q.doc /\ work'[v].row = q.row
      BY <3>1, <3>3 DEF Worker
    <3>5. ASSUME q.pay \in Payments
          PROVE  /\ payment[q.pay].status # "refunded" => payment'[q.pay].status # "refunded"
                 /\ Followed(q.doc, payment[q.pay]) => Followed(q.doc, payment'[q.pay])
                 /\ payment[q.pay] = q.doc /\ q.doc.status \in Good => payment'[q.pay] = q.doc
      <4>1. CASE q.pay = p
        BY <2>1, <2>2, <3>1, <4>1 DEF Followed, Good, PaymentRow
      <4>2. CASE q.pay # p
        BY <2>2, <3>5, <4>2
      <4> QED BY <4>1, <4>2
    <3>6. q.pc \in {"load", "snapshot", "commit", "fail", "ask", "record", "sync"} =>
              q.pay \in Payments
      BY <3>1 DEF PayWorkerOK
    <3>7. Knows(work'[v], payment', rows', owner')
      BY <2>1, <3>1, <3>4, <3>5, <3>6 DEF Knows
    <3> QED BY <3>4, <3>7
  <2> QED BY <2>1, <2>3, <2>4 DEF TurnStep
<1> QED BY <1>1, <1>2

LEMMA PayNextTurn ==
  ASSUME PayInTurn, PayInv, PayTurnInv, [Next]_vars
  PROVE  PayTurnInv' /\ PayMove
<1>1. CASE UNCHANGED vars
  <2>1. PayMove
    BY <1>1, PaymentsRest DEF vars
  <2> QED BY <1>1, <2>1 DEF vars, PayTurnInv
<1>2. CASE Next
  <2>1. TurnStep
    BY <1>2, PayBeginTurn, PayCreateTurn, LookupTurn, RestTurn, AskTurn, SettleTurn, FailTurn,
       RecordTurn, PayOutsideTurn DEF Next, Step, SettleStep, RefundStep, RefundHookStep
  <2> QED BY <2>1 DEF TurnStep, PayMove, PayTurnInv
<1> QED BY <1>1, <1>2

LEMMA PayTurnInvariance ==
  ASSUME PayInTurn
  PROVE  Spec => []PayTurnInv
<1>1. Init => PayTurnInv
  <2> SUFFICES ASSUME Init
               PROVE  PayTurnInv
    OBVIOUS
  <2>1. \A p \in Payments : RowAgrees(payment[p])
    BY PriceAssumption DEF Init, RowAgrees, NoPaymentRow
  <2>2. \A w \in Workers : Knows(work[w], payment, rows, owner)
    BY IdleType DEF Init, Knows
  <2> QED BY <2>1, <2>2 DEF PayTurnInv
<1>2. PayInv /\ PayTurnInv /\ [Next]_vars => PayTurnInv'
  BY PayNextTurn
<1> QED BY <1>1, <1>2, PayInvariance, PTL DEF Spec

\* While workers do not overlap, a Payment row says "refunded" exactly when
\* its amount has been given back in full (issueRefund(), onRefundSuccess()),
\* whatever the gateway does, and whether or not workers die on the way.
THEOREM RefundsAgree ==
  ASSUME PayInTurn
  PROVE  Spec => []RefundedInFull
<1>1. PayTurnInv => RefundedInFull
  BY DEF PayTurnInv, RowAgrees, RefundedInFull
<1> QED BY <1>1, PayTurnInvariance, PTL

\* While workers do not overlap, a settled payment is never taken for an open
\* or a failed one again, and a full refund is final ("skip if Payment already
\* final", GatewayService.ts:27), though payments expire under a worker's hands.
THEOREM PaymentsStaySettled ==
  ASSUME PayInTurn
  PROVE  Spec => SettledStays
<1>1. PayInv /\ PayTurnInv /\ [Next]_vars =>
        [\A p \in Payments :
            /\ payment[p].status \in Settled => payment[p].status' \in Settled
            /\ payment[p].status = "refunded" => payment[p].status' = "refunded"]_vars
  BY PayNextTurn DEF PayMove
<1> QED BY <1>1, PayTurnInvariance, PayInvariance, PTL DEF Spec, SettledStays

-----------------------------------------------------------------------------
(* Tickets.                                                                *)

\* No ticket appears without a payment behind it, and whoever is about to
\* cancel one still is, unless there is no ticket to cancel.
LEMMA TicketsKept ==
  ASSUME TicketInv, KeepsGood,
         \A u \in Members : Ticket(rows'[u]) => Ticket(rows[u]) \/ Backed(u)',
         \A u \in Members, v \in Workers :
             Leaving(work[v], u) /\ Ticket(rows'[u]) => Leaving(work'[v], u)
  PROVE  TicketInv'
<1>1. \A u \in Members : Backed(u) => Backed(u)'
  BY DEF KeepsGood, Backed
<1> QED BY <1>1 DEF TicketInv

\* A worker that was not about to cancel a ticket.
LEMMA TicketsRest ==
  ASSUME PayInTurn, TicketInv, KeepsGood, NEW w \in Workers,
         work[w].pc \notin {"find", "vacate", "hookFind", "hookVacate"},
         \A u \in Members : Ticket(rows'[u]) => Ticket(rows[u]) \/ Backed(u)'
  PROVE  TicketInv'
<1>1. \A u \in Members, v \in Workers : ~ Leaving(work[v], u)
  BY DEF PayInTurn, Leaving
<1> QED BY <1>1, TicketsKept

\* A worker that cancels the row as it found it.
LEMMA Cancelled ==
  ASSUME PayInTurn, PayInv, PayTurnInv, TicketInv, KeepsGood, NEW w \in Workers,
         work[w].pc \in {"vacate", "hookVacate", "release"},
         NEW new \in RsvpRow, new.status = "cancelled",
         SaveRow(work[w].user, work[w].row, new)
  PROVE  TicketInv'
<1> DEFINE u == work[w].user
<1>1. u \in Members /\ work[w].row \in RsvpRow /\ rows[u] = work[w].row
  BY TurnHeld DEF PayWorkerOK, Knows
<1>2. rows'[u].status = "cancelled" /\ \A x \in Members : x # u => rows'[x] = rows[x]
  BY <1>1, SavedRow
<1>3. ~ Ticket(rows'[u])
  BY <1>2 DEF Ticket
<1>4. \A x \in Members, v \in Workers : Leaving(work[v], x) => x = u
  BY DEF PayInTurn, Leaving
<1> HIDE DEF u
<1> QED BY <1>2, <1>3, <1>4, TicketsKept

LEMMA TicketStep ==
  ASSUME PayInTurn, PayInv, PayTurnInv, TicketInv, NEW w \in Workers, Begin(w) \/ Step(w)
  PROVE  TicketInv'
<1> DEFINE q == work[w]
<1>0. q \in Worker /\ PayWorkerOK(q, owner, gateway) /\ q.row \in RsvpRow
  BY TurnHeld
<1>1. CASE Begin(w)
  <2>1. KeepsGood /\ UNCHANGED rows /\ q.pc = "idle"
    BY <1>1, PayBeginTurn DEF Begin, BeginCheckout, BeginCancel, BeginSuccess, BeginFailure,
                           BeginRefund, BeginRefundHook, Start, At
  <2> QED BY <2>1, TicketsRest
<1>2. CASE \/ Create(w) \/ OpenPage(w) \/ Load(w) \/ Snapshot(w) \/ Retry(w) \/ DuplicateRow(w)
           \/ Fail(w) \/ Ask(w) \/ Uncount(w) \/ Unbook(w) \/ Decrement(w)
  <2>1. KeepsGood
    BY <1>2, PayCreateTurn, RestTurn, LookupTurn, FailTurn, AskTurn
  <2>2. /\ UNCHANGED rows
        /\ q.pc \notin {"find", "vacate", "hookFind", "hookVacate"}
    BY <1>2 DEF Create, OpenPage, Load, Snapshot, Retry, DuplicateRow, Fail, Ask, Uncount,
                Unbook, Decrement, At
  <2> QED BY <2>1, <2>2, TicketsRest
<1>3. CASE SettleExisting(w) \/ SettleNew(w)
  <2>1. /\ KeepsGood /\ payment'[q.pay].status = "succeeded" /\ q.pay \in Payments
        /\ owner'[q.pay] = q.user
    BY <1>3, SettleTurn
  <2>2. q.pc = "commit" /\ q.user \in Members
    BY <1>0, <1>3 DEF SettleExisting, SettleNew, At, PayWorkerOK
  <2>3. \A u \in Members : u = q.user => Backed(u)'
    BY <2>1 DEF Backed, Good
  <2>4. \A u \in Members : u # q.user => rows'[u] = rows[u]
    BY <1>3, <2>2, TurnHeld DEF SettleExisting, SettleNew, SaveRow
  <2>5. \A u \in Members : Ticket(rows'[u]) => Ticket(rows[u]) \/ Backed(u)'
    BY <2>3, <2>4
  <2> QED BY <2>1, <2>2, <2>5, TicketsRest
<1>4. CASE Record(w) \/ Sync(w)
  <2>1. q.pc \in {"record", "sync"} /\ UNCHANGED rows
    BY <1>4 DEF Record, Sync, At, RecordRefund
  <2>2. CASE KeepsGood
    BY <2>1, <2>2, TicketsRest
  <2>3. CASE ~ KeepsGood
    <3>1. PICK pc \in {"find", "hookFind"} : \E W : GoTo(w, pc, W)
      BY <1>4, <2>3, RecordTurn
    <3>2. /\ owner[q.pay] = q.user /\ UNCHANGED owner
          /\ \A x \in Payments : x # q.pay => payment'[x] = payment[x]
      BY <1>4, <2>3, RecordTurn
    <3>3. Leaving(work'[w], q.user)
      <4> DEFINE n == [q EXCEPT !.pc = pc]
      <4>1. n.pc = pc /\ n.user = q.user
        BY <1>0 DEF Worker
      <4>2. work'[w] = n
        BY <3>1 DEF GoTo, Go
      <4> QED BY <4>1, <4>2 DEF Leaving
    <3>4. ASSUME NEW u \in Members, Ticket(rows'[u]), u # q.user
          PROVE  Backed(u)'
      <4>1. \A v \in Workers : ~ Leaving(work[v], u)
        BY <2>1 DEF PayInTurn, Leaving
      <4>2. PICK p \in Payments : owner[p] = u /\ payment[p].status \in Good
        BY <2>1, <3>4, <4>1 DEF TicketInv, Backed
      <4>3. p # q.pay
        BY <3>2, <3>4, <4>2
      <4> QED BY <3>2, <4>2, <4>3 DEF Backed
    <3> QED BY <3>3, <3>4 DEF TicketInv
  <2> QED BY <2>2, <2>3
<1>5. CASE Find(w) \/ HookFind(w)
  <2> DEFINE row == rows[q.user]
  <2>1. /\ KeepsGood /\ UNCHANGED rows /\ q.user \in Members
        /\ q.pc \in {"find", "hookFind"}
    BY <1>0, <1>5, LookupTurn DEF Find, HookFind, At, PayWorkerOK
  <2>2. ASSUME NEW u \in Members, NEW v \in Workers, Leaving(work[v], u), Ticket(rows'[u])
        PROVE  Leaving(work'[v], u)
    <3>1. v = w /\ u = q.user
      BY <2>2 DEF PayInTurn, Leaving
    <3>2. row.status = "going" /\ row # NoRsvpRow
      BY <2>1, <2>2, <3>1 DEF Ticket, NoRsvpRow
    <3>3. PICK pc \in {"vacate", "hookVacate"} :
              Go(w, [q EXCEPT !.pc = pc, !.row = row], {})
      BY <1>5, <3>2 DEF Find, HookFind
    <3> DEFINE n == [q EXCEPT !.pc = pc, !.row = row]
    <3>4. n.pc = pc /\ n.user = q.user
      BY <1>0 DEF Worker
    <3>5. work'[w] = n
      BY <3>3 DEF Go
    <3> QED BY <3>1, <3>4, <3>5 DEF Leaving
  <2> QED BY <2>1, <2>2, TicketsKept
<1>6. CASE Vacate(w) \/ HookVacate(w)
  <2>1. KeepsGood /\ q.pc \in {"vacate", "hookVacate"}
        /\ SaveRow(q.user, q.row, Vacated(q.row))
    BY <1>6, RestTurn DEF Vacate, HookVacate, At
  <2>2. Vacated(q.row) \in RsvpRow /\ Vacated(q.row).status = "cancelled"
    BY <1>0 DEF Vacated, RsvpRow
  <2> QED BY <2>1, <2>2, Cancelled
<1>7. CASE Release(w)
  <2> DEFINE new == [q.row EXCEPT !.status = "cancelled"]
  <2>1. KeepsGood /\ q.pc = "release" /\ SaveRow(q.user, q.row, new)
    BY <1>7, RestTurn DEF Release, At
  <2>2. new \in RsvpRow /\ new.status = "cancelled"
    BY <1>0 DEF RsvpRow
  <2> HIDE DEF new
  <2> QED BY <2>1, <2>2, Cancelled
<1> QED BY <1>1, <1>2, <1>3, <1>4, <1>5, <1>6, <1>7
        DEF Step, SettleStep, RefundStep, RefundHookStep

LEMMA TicketInvariance ==
  ASSUME PayInTurn, ~ MayCrash
  PROVE  Spec => []TicketInv
<1>1. Init => TicketInv
  BY DEF Init, TicketInv, Ticket, NoRsvpRow
<1>2. PayInv /\ PayTurnInv /\ TicketInv /\ [Next]_vars => TicketInv'
  <2> SUFFICES ASSUME PayInv, PayTurnInv, TicketInv, [Next]_vars
               PROVE  TicketInv'
    OBVIOUS
  <2>1. CASE UNCHANGED vars
    BY <2>1 DEF vars, TicketInv, Backed
  <2>2. CASE GatewayStep \/ \E p \in Payments : Expire(p)
    <3>1. /\ KeepsGood /\ UNCHANGED rows
          /\ \A v \in Workers : work'[v].pc = work[v].pc /\ work'[v].user = work[v].user
      BY <2>2, PayOutsideTurn
    <3>2. \A u \in Members, v \in Workers : Leaving(work[v], u) => Leaving(work'[v], u)
      BY <3>1 DEF Leaving
    <3> QED BY <3>1, <3>2, TicketsKept
  <2>3. ASSUME NEW w \in Workers, Begin(w) \/ Step(w)
        PROVE  TicketInv'
    BY <2>3, TicketStep
  <2> QED BY <2>1, <2>2, <2>3 DEF Next, Crash
<1> QED BY <1>1, <1>2, PayTurnInvariance, PayInvariance, PTL DEF Spec

\* While workers do not overlap and none dies on the way, a valid ticket is
\* backed by a payment that is settled and not given back in full ("Full
\* refund cancels the RSVP", GatewayService.ts:298), whichever of the admin's
\* refund, the gateway's report and the member's cancellation comes first.
THEOREM TicketsPaid ==
  ASSUME PayInTurn, ~ MayCrash
  PROVE  Spec => []TicketIsPaid
<1>1. TicketInv => TicketIsPaid
  BY DEF TicketInv, Ticket, Backed, Good, Leaving, TicketIsPaid, Quiet, At
<1> QED BY <1>1, TicketInvariance, PTL

-----------------------------------------------------------------------------
(* SUBSCRIPTIONS                                                           *)

SubGatewayRow == [program : {"none", "page", "live", "stopped"},
               charges : 0..MaxCharges,
               hooks : SUBSET (1..MaxCharges),
               refused : BOOLEAN]

\* What a worker has when it reaches a round trip: a document it can save, a
\* transaction it can book, and a count of failures that has room for one more.
SubWorkerOK(q) ==
    /\ q.pc \notin {"idle", "create", "next"} => q.id \in Subs
    /\ q.pc \in {"renew", "book", "recover", "bookRetry"} => q.tx \in 1..MaxCharges
    /\ q.pc = "fail" => q.docs[q.id].failed < MaxFailures
    /\ q.pc = "bump" => q.docs[q.id].failed < MaxAttempts
    /\ \A s \in q.todo : q.docs[s].failed < MaxAttempts

SubWorkInv == subWork \in [Workers -> SubWorker] /\ \A w \in Workers : SubWorkerOK(subWork[w])

DataTypes ==
    /\ sub \in [Subs -> SubRow]
    /\ booked \in [Subs -> SUBSET (1..MaxCharges)]
    /\ recurring \in [Subs -> SubGatewayRow]

SubInv == DataTypes /\ SubWorkInv /\ ActiveIsBooked

-----------------------------------------------------------------------------
(* Documents and workers                                                   *)

LEMMA NoSubRowOK ==
  NoSubRow \in SubRow /\ NoSubRow.failed = 0 /\ NoSubRow.status = "none"
  BY MaxFailuresAssumption DEF NoSubRow, SubRow

LEMMA IdleOK == SubIdle \in SubWorker /\ SubWorkerOK(SubIdle)
  BY NoSubRowOK, MaxChargesAssumption DEF SubIdle, SubWorker, SubWorkerOK, SubPc

LEMMA TxOK ==
  ASSUME NEW q \in SubWorker, NEW tx \in 1..MaxCharges
  PROVE  [q EXCEPT !.tx = tx] \in SubWorker
<1>1. tx \in 0..MaxCharges
  BY MaxChargesAssumption
<1> QED BY <1>1 DEF SubWorker

LEMMA MergeOK ==
  ASSUME NEW cur \in SubRow, NEW old \in SubRow, NEW new \in SubRow
  PROVE  /\ SubMerge(cur, old, new) \in SubRow
         /\ SubMerge(cur, old, new).status \in {cur.status, new.status}
         /\ new.status = old.status => SubMerge(cur, old, new).status = cur.status
  BY DEF SubMerge, SubRow

LEMMA LoadedOK ==
  ASSUME sub \in [Subs -> SubRow], NEW ids
  PROVE  /\ Loaded(ids) \in [Subs -> SubRow]
         /\ \A s \in Subs : s \in ids => Loaded(ids)[s] = sub[s]
  BY NoSubRowOK DEF Loaded

\* What the step of one worker leaves to be shown.
LEMMA OneMoves ==
  ASSUME SubWorkInv, NEW w \in Workers, NEW q \in SubWorker, SubWorkerOK(q), SubGo(w, q)
  PROVE  /\ SubWorkInv'
         /\ subWork'[w] = q
         /\ \A v \in Workers : v # w => subWork'[v] = subWork[v]
  BY DEF SubWorkInv, SubGo

Booking(q, s) == q.id = s /\ q.pc \in {"book", "bookRetry"}

\* No document becomes active, no Payment row goes, and the worker was not
\* about to write one.
LEMMA StaysBooked ==
  ASSUME ActiveIsBooked, NEW w \in Workers,
         \A v \in Workers : v # w => subWork'[v] = subWork[v],
         \A s \in Subs : sub'[s].status = "active" => sub[s].status = "active",
         \A s \in Subs : booked[s] \subseteq booked'[s],
         \A s \in Subs : ~ Booking(subWork[w], s)
  PROVE  ActiveIsBooked'
<1> SUFFICES ASSUME NEW s \in Subs, sub'[s].status = "active", booked'[s] = {}
             PROVE  \E v \in Workers : Booking(subWork'[v], s)
  BY DEF ActiveIsBooked, Booking
<1>1. sub[s].status = "active" /\ booked[s] = {}
  OBVIOUS
<1>2. PICK v \in Workers : Booking(subWork[v], s)
  BY <1>1 DEF ActiveIsBooked, Booking
<1>3. v # w
  BY <1>2
<1> QED BY <1>2, <1>3

\* A worker that is not booking goes on as q; nothing becomes active.
LEMMA SubStepOK ==
  ASSUME SubInv, NEW w \in Workers, NEW q \in SubWorker, SubWorkerOK(q), SubGo(w, q), DataTypes',
         \A s \in Subs : sub'[s].status = "active" => sub[s].status = "active",
         \A s \in Subs : booked[s] \subseteq booked'[s],
         subWork[w].pc \notin {"book", "bookRetry"}
  PROVE  SubInv'
<1>1. SubWorkInv' /\ \A v \in Workers : v # w => subWork'[v] = subWork[v]
  BY OneMoves DEF SubInv
<1>2. ActiveIsBooked'
  BY <1>1, StaysBooked DEF SubInv, Booking
<1> QED BY <1>1, <1>2 DEF SubInv

\* The same where documents and PayPlus rest.
LEMMA QuietStepOK ==
  ASSUME SubInv, NEW w \in Workers, NEW q \in SubWorker, SubWorkerOK(q), SubGo(w, q),
         UNCHANGED <<sub, booked, recurring>>,
         subWork[w].pc \notin {"book", "bookRetry"}
  PROVE  SubInv'
  BY SubStepOK DEF SubInv, DataTypes

LEMMA SubWorkerType ==
  ASSUME SubInv, NEW w \in Workers
  PROVE  /\ subWork[w] \in SubWorker /\ SubWorkerOK(subWork[w])
         /\ subWork[w].id \in Subs => Doc(w) \in SubRow
         /\ sub \in [Subs -> SubRow]
  BY DEF SubInv, SubWorkInv, SubWorker, Doc, DataTypes

\* save() of a loaded document: types stay, and nothing becomes active unless
\* the worker made it so.
LEMMA SaveOK ==
  ASSUME SubInv, NEW w \in Workers, subWork[w].id \in Subs, NEW new \in SubRow,
         Save(w, new), new.status = Doc(w).status \/ new.status # "active"
  PROVE  /\ sub' \in [Subs -> SubRow]
         /\ \A s \in Subs : sub'[s].status = "active" => sub[s].status = "active"
<1> DEFINE m == SubMerge(sub[subWork[w].id], Doc(w), new)
<1>1. sub \in [Subs -> SubRow] /\ Doc(w) \in SubRow
  BY SubWorkerType
<1>2. m \in SubRow /\ (m.status = "active" => sub[subWork[w].id].status = "active")
  BY <1>1, MergeOK
<1>3. sub' = [sub EXCEPT ![subWork[w].id] = m]
  BY DEF Save
<1> HIDE DEF m
<1> QED BY <1>1, <1>2, <1>3

-----------------------------------------------------------------------------
(* Requests, webhooks and the job begin                                    *)

LEMMA SubBeginOK ==
  ASSUME SubInv, NEW w \in Workers,
         NEW pc \in SubPc \ {"renew", "book", "recover", "bookRetry", "bump"},
         NEW s \in Subs \cup {NoSub}, SubBegin(w, pc, s),
         pc \in {"idle", "create", "next"} \/ s \in Subs,
         pc = "fail" => sub[s].failed < MaxFailures
  PROVE  SubInv'
<1> DEFINE q == [SubIdle EXCEPT !.pc = pc, !.id = s, !.docs = Loaded({s})]
<1>1. Loaded({s}) \in [Subs -> SubRow] /\ (s \in Subs => Loaded({s})[s] = sub[s])
  BY SubWorkerType, LoadedOK
<1>2. q \in SubWorker
  BY <1>1, IdleOK DEF SubWorker, SubIdle
<1>3. SubWorkerOK(q)
  BY <1>1 DEF SubIdle, SubWorkerOK
<1>4. SubGo(w, q) /\ UNCHANGED <<sub, booked, recurring>> /\ subWork[w].pc = "idle"
  BY DEF SubBegin, SubAt
<1> HIDE DEF q
<1> QED BY <1>2, <1>3, <1>4, QuietStepOK

LEMMA BeginSuccessOK ==
  ASSUME SubInv, NEW w \in Workers, NEW s \in Subs, NEW tx \in 1..MaxCharges,
         BeginRecurringSuccess(w, s, tx)
  PROVE  SubInv'
<1> DEFINE q == [SubIdle EXCEPT !.pc = "renew", !.id = s, !.docs = Loaded({s}), !.tx = tx]
<1>1. Loaded({s}) \in [Subs -> SubRow]
  BY SubWorkerType, LoadedOK
<1>2. q \in SubWorker /\ SubWorkerOK(q)
  <2>1. [SubIdle EXCEPT !.pc = "renew", !.id = s, !.docs = Loaded({s})] \in SubWorker
    BY <1>1, IdleOK DEF SubWorker, SubPc
  <2>2. q = [[SubIdle EXCEPT !.pc = "renew", !.id = s, !.docs = Loaded({s})] EXCEPT !.tx = tx]
    BY DEF SubIdle
  <2>3. q \in SubWorker
    BY <2>1, <2>2, TxOK
  <2> QED BY <2>3 DEF SubIdle, SubWorkerOK
<1>4. SubGo(w, q) /\ UNCHANGED <<sub, booked, recurring>> /\ subWork[w].pc = "idle"
  BY DEF BeginRecurringSuccess, SubAt
<1> HIDE DEF q
<1> QED BY <1>2, <1>4, QuietStepOK

LEMMA ReceiveOK ==
  ASSUME SubInv, NEW w \in Workers, Receive(w)
  PROVE  SubInv'
<1>1. CASE BeginSubscribe(w)
  BY <1>1, SubBeginOK DEF BeginSubscribe, SubPc
<1>2. ASSUME NEW s \in Subs, BeginCancelSubscription(w, s)
      PROVE  SubInv'
  BY <1>2, SubBeginOK DEF BeginCancelSubscription, SubPc
<1>3. ASSUME NEW s \in Subs, BeginRecurringFailure(w, s)
      PROVE  SubInv'
  BY <1>3, SubBeginOK DEF BeginRecurringFailure, SubPc
<1>4. ASSUME NEW s \in Subs, BeginCancelled(w, s)
      PROVE  SubInv'
  BY <1>4, SubBeginOK DEF BeginCancelled, SubPc
<1> QED BY <1>1, <1>2, <1>3, <1>4, BeginSuccessOK DEF Receive

LEMMA BeginJobOK ==
  ASSUME SubInv, NEW w \in Workers, BeginJob(w)
  PROVE  SubInv'
<1> DEFINE candidates == {s \in Subs : Retriable(s)}
           q == [SubIdle EXCEPT !.pc = "next", !.docs = Loaded(candidates), !.todo = candidates]
<1>1. /\ Loaded(candidates) \in [Subs -> SubRow]
      /\ \A s \in candidates : Loaded(candidates)[s].failed < MaxAttempts
  BY SubWorkerType, LoadedOK DEF Retriable
<1>2. SubGo(w, q) /\ UNCHANGED <<sub, booked, recurring>> /\ subWork[w].pc = "idle"
  BY DEF BeginJob, SubAt
<1>3. candidates \subseteq Subs
  OBVIOUS
<1> HIDE DEF candidates
<1>4. q \in SubWorker
  BY <1>1, <1>3, IdleOK DEF SubWorker, SubIdle, SubPc
<1>5. SubWorkerOK(q)
  BY <1>1 DEF SubIdle, SubWorkerOK
<1> HIDE DEF q
<1> QED BY <1>2, <1>4, <1>5, QuietStepOK

-----------------------------------------------------------------------------
(* Checkout and cancellation                                               *)

LEMMA SubCreateOK ==
  ASSUME SubInv, NEW w \in Workers, CreateSubscription(w)
  PROVE  SubInv'
<1> DEFINE row == [NoSubRow EXCEPT !.status = "incomplete"]
<1>1. PICK s \in Subs :
          /\ sub[s].status = "none"
          /\ sub' = [sub EXCEPT ![s] = row]
          /\ SubGo(w, [subWork[w] EXCEPT !.pc = "openPage", !.id = s, !.docs[s] = row])
  BY DEF CreateSubscription
<1> DEFINE q == [subWork[w] EXCEPT !.pc = "openPage", !.id = s, !.docs[s] = row]
<1>2. row \in SubRow /\ row.status = "incomplete" /\ row.failed = 0
  BY NoSubRowOK DEF SubRow
<1>3. subWork[w] \in SubWorker /\ SubWorkerOK(subWork[w]) /\ sub \in [Subs -> SubRow]
      /\ subWork[w].pc = "create" /\ UNCHANGED <<booked, recurring>>
  BY SubWorkerType DEF CreateSubscription, SubAt
<1> HIDE DEF row
<1>4. q \in SubWorker
  BY <1>2, <1>3 DEF SubWorker, SubPc
<1>5. SubWorkerOK(q)
  BY <1>2, <1>3 DEF SubWorker, SubWorkerOK, MaxAttempts
<1>6. /\ DataTypes'
      /\ \A x \in Subs : sub'[x].status = "active" => sub[x].status = "active"
  BY <1>1, <1>2, <1>3 DEF SubInv, DataTypes
<1>7. SubGo(w, q)
  BY <1>1
<1> HIDE DEF q
<1> QED BY <1>3, <1>4, <1>5, <1>6, <1>7, SubStepOK

\* Nothing is asked of workers that are through, or at these awaits.
LEMMA MoveOK ==
  ASSUME NEW q \in SubWorker, SubWorkerOK(q), q.id \in Subs, NEW card \in BOOLEAN,
         NEW pc \in {"saveIds", "saveAtEnd"}
  PROVE  /\ [q EXCEPT !.pc = pc] \in SubWorker /\ SubWorkerOK([q EXCEPT !.pc = pc])
         /\ [q EXCEPT !.pc = pc, !.card = card] \in SubWorker
         /\ SubWorkerOK([q EXCEPT !.pc = pc, !.card = card])
  BY DEF SubWorker, SubWorkerOK, SubPc

LEMMA SubOpenPageOK ==
  ASSUME SubInv, NEW w \in Workers, OpenRecurringPage(w)
  PROVE  SubInv'
<1>1. subWork[w] \in SubWorker /\ SubWorkerOK(subWork[w]) /\ subWork[w].pc = "openPage"
      /\ subWork[w].id \in Subs /\ UNCHANGED <<sub, booked, recurring>>
  BY SubWorkerType DEF OpenRecurringPage, SubAt, SubWorkerOK
<1>2. CASE SubDone(w)
  BY <1>1, <1>2, IdleOK, QuietStepOK DEF SubDone
<1>3. ASSUME NEW card \in BOOLEAN, SubGo(w, [subWork[w] EXCEPT !.pc = "saveIds", !.card = card])
      PROVE  SubInv'
  <2> DEFINE q == [subWork[w] EXCEPT !.pc = "saveIds", !.card = card]
  <2>1. q \in SubWorker /\ SubWorkerOK(q) /\ SubGo(w, q)
    BY <1>1, <1>3, MoveOK
  <2> HIDE DEF q
  <2> QED BY <1>1, <2>1, QuietStepOK
<1>4. \/ SubDone(w)
      \/ \E card \in BOOLEAN : SubGo(w, [subWork[w] EXCEPT !.pc = "saveIds", !.card = card])
  <2>1. PICK answer \in CreateRecurring :
          IF answer.ok THEN SubGo(w, [subWork[w] EXCEPT !.pc = "saveIds", !.card = answer.card])
          ELSE SubDone(w)
    BY DEF OpenRecurringPage
  <2>2. answer.card \in BOOLEAN
    BY <2>1 DEF CreateRecurring
  <2>3. CASE answer.ok
    BY <2>1, <2>2, <2>3
  <2>4. CASE ~ answer.ok
    BY <2>1, <2>4
  <2> QED BY <2>3, <2>4
<1> QED BY <1>2, <1>3, <1>4

LEMMA SaveIdsOK ==
  ASSUME SubInv, NEW w \in Workers, SaveIds(w)
  PROVE  SubInv'
<1> DEFINE new == [Doc(w) EXCEPT !.program = TRUE, !.card = subWork[w].card]
<1>1. subWork[w] \in SubWorker /\ SubWorkerOK(subWork[w]) /\ subWork[w].pc = "saveIds"
      /\ subWork[w].id \in Subs /\ Doc(w) \in SubRow
  BY SubWorkerType DEF SaveIds, SubAt, SubWorkerOK
<1>2. new \in SubRow /\ new.status = Doc(w).status
  BY <1>1 DEF SubRow, SubWorker
<1>3. Save(w, new) /\ SubDone(w) /\ booked' = booked
      /\ recurring' = [recurring EXCEPT ![subWork[w].id].program = "page"]
  BY DEF SaveIds
<1> HIDE DEF new
<1>4. /\ sub' \in [Subs -> SubRow]
      /\ \A s \in Subs : sub'[s].status = "active" => sub[s].status = "active"
  BY <1>1, <1>2, <1>3, SaveOK
<1>5. DataTypes'
  BY <1>1, <1>3, <1>4 DEF SubInv, DataTypes, SubGatewayRow
<1> QED BY <1>1, <1>3, <1>4, <1>5, IdleOK, SubStepOK DEF SubDone

LEMMA StopOK ==
  ASSUME SubInv, NEW w \in Workers, Stop(w)
  PROVE  SubInv'
<1>1. subWork[w] \in SubWorker /\ SubWorkerOK(subWork[w]) /\ subWork[w].pc = "stop"
      /\ subWork[w].id \in Subs /\ UNCHANGED <<sub, booked>>
  BY SubWorkerType DEF Stop, SubAt, SubWorkerOK
<1>2. DataTypes'
  <2> DEFINE id == subWork[w].id
  <2>1. recurring \in [Subs -> SubGatewayRow] /\ recurring[id] \in SubGatewayRow
    BY <1>1 DEF SubInv, DataTypes
  <2>2. [recurring[id] EXCEPT !.program = "stopped"] \in SubGatewayRow
    BY <2>1 DEF SubGatewayRow
  <2>3. \/ recurring' = recurring
        \/ recurring' = [recurring EXCEPT ![id] = [recurring[id] EXCEPT !.program = "stopped"]]
    BY <2>1 DEF Stop, CancelRecurring
  <2> HIDE DEF id
  <2>4. recurring' \in [Subs -> SubGatewayRow]
    BY <2>1, <2>2, <2>3
  <2> QED BY <1>1, <2>4 DEF SubInv, DataTypes
<1>3. CASE SubDone(w)
  BY <1>1, <1>2, <1>3, IdleOK, SubStepOK DEF SubDone
<1>4. CASE SubGoTo(w, "saveAtEnd")
  <2> DEFINE q == [subWork[w] EXCEPT !.pc = "saveAtEnd"]
  <2>1. q \in SubWorker /\ SubWorkerOK(q) /\ SubGo(w, q)
    BY <1>1, <1>4, MoveOK DEF SubGoTo
  <2> HIDE DEF q
  <2> QED BY <1>1, <1>2, <2>1, SubStepOK
<1> QED BY <1>3, <1>4 DEF Stop

-----------------------------------------------------------------------------
(* Saves that end a request or webhook                                     *)

LEMMA LastSaveOK ==
  ASSUME SubInv, NEW w \in Workers, NEW new \in SubRow, Save(w, new), SubDone(w),
         subWork[w].id \in Subs, new.status = Doc(w).status \/ new.status # "active",
         UNCHANGED <<booked, recurring>>, subWork[w].pc \notin {"book", "bookRetry"}
  PROVE  SubInv'
<1>1. /\ sub' \in [Subs -> SubRow]
      /\ \A s \in Subs : sub'[s].status = "active" => sub[s].status = "active"
  BY SaveOK
<1>2. DataTypes'
  BY <1>1 DEF SubInv, DataTypes
<1> QED BY <1>1, <1>2, IdleOK, SubStepOK DEF SubDone

LEMMA LastSavesOK ==
  ASSUME SubInv, NEW w \in Workers, SaveAtEnd(w) \/ SaveFailure(w) \/ SaveCancelled(w)
  PROVE  SubInv'
<1>1. /\ subWork[w] \in SubWorker /\ SubWorkerOK(subWork[w]) /\ subWork[w].id \in Subs
      /\ Doc(w) \in SubRow /\ subWork[w].pc \notin {"book", "bookRetry"}
      /\ SubDone(w) /\ UNCHANGED <<booked, recurring>>
  BY SubWorkerType DEF SaveAtEnd, SaveFailure, SaveCancelled, SubAt, SubWorkerOK
<1>2. CASE SaveAtEnd(w)
  <2>1. [Doc(w) EXCEPT !.atEnd = TRUE] \in SubRow
        /\ [Doc(w) EXCEPT !.atEnd = TRUE].status = Doc(w).status
    BY <1>1 DEF SubRow
  <2> QED BY <1>1, <1>2, <2>1, LastSaveOK DEF SaveAtEnd
<1>3. CASE SaveCancelled(w)
  <2>1. [Doc(w) EXCEPT !.status = "cancelled"] \in SubRow
        /\ [Doc(w) EXCEPT !.status = "cancelled"].status = "cancelled"
    BY <1>1 DEF SubRow
  <2> QED BY <1>1, <1>3, <2>1, LastSaveOK DEF SaveCancelled
<1>4. CASE SaveFailure(w)
  <2> DEFINE failed == Doc(w).failed + 1
             status == IF Doc(w).status = "cancelled" /\ failed < MaxAttempts
                       THEN Doc(w).status ELSE "past_due"
             new == [Doc(w) EXCEPT !.failed = failed, !.status = status]
  <2>1. Save(w, new)
    BY <1>4 DEF SaveFailure
  <2>2. failed \in 0..MaxFailures
    <3>1. subWork[w].pc = "fail"
      BY <1>4 DEF SaveFailure, SubAt
    <3>2. Doc(w).failed < MaxFailures
      BY <1>1, <3>1 DEF SubWorkerOK, Doc
    <3>3. Doc(w).failed \in 0..MaxFailures
      BY <1>1 DEF SubRow
    <3> QED BY <3>2, <3>3, MaxFailuresAssumption
  <2>3. status \in {"cancelled", "past_due"}
    OBVIOUS
  <2> HIDE DEF failed, status
  <2>4. new \in SubRow /\ new.status # "active"
    BY <1>1, <2>2, <2>3 DEF SubRow
  <2> HIDE DEF new
  <2> QED BY <1>1, <2>1, <2>4, LastSaveOK
<1> QED BY <1>2, <1>3, <1>4

-----------------------------------------------------------------------------
(* Renewals: a document becomes active and its worker goes on to book      *)

LEMMA SaveRenewedOK ==
  ASSUME SubInv, NEW w \in Workers, subWork[w].id \in Subs, SaveRenewed(w)
  PROVE  /\ sub' \in [Subs -> SubRow]
         /\ \A s \in Subs : s # subWork[w].id => sub'[s] = sub[s]
<1> DEFINE new == [Doc(w) EXCEPT !.status = "active", !.failed = 0]
           m == SubMerge(sub[subWork[w].id], Doc(w), new)
<1>1. sub \in [Subs -> SubRow] /\ Doc(w) \in SubRow
  BY SubWorkerType
<1>2. new \in SubRow
  <2>1. 0 \in 0..MaxFailures
    BY MaxFailuresAssumption
  <2> QED BY <1>1, <2>1 DEF SubRow
<1>3. m \in SubRow
  BY <1>1, <1>2, MergeOK
<1>4. sub' = [sub EXCEPT ![subWork[w].id] = [m EXCEPT !.covered = TRUE]]
  BY DEF SaveRenewed
<1> HIDE DEF m
<1>5. [m EXCEPT !.covered = TRUE] \in SubRow
  BY <1>3 DEF SubRow
<1> QED BY <1>1, <1>4, <1>5

\* The worker that renewed s is the one that will book.
LEMMA RenewOK ==
  ASSUME SubInv, NEW w \in Workers, subWork[w].id \in Subs, SaveRenewed(w),
         NEW q \in SubWorker, SubWorkerOK(q), SubGo(w, q), Booking(q, subWork[w].id),
         UNCHANGED <<booked, recurring>>, subWork[w].pc \notin {"book", "bookRetry"}
  PROVE  SubInv'
<1>1. DataTypes'
  BY SaveRenewedOK DEF SubInv, DataTypes
<1>2. SubWorkInv' /\ subWork'[w] = q /\ \A v \in Workers : v # w => subWork'[v] = subWork[v]
  BY OneMoves DEF SubInv
<1>3. ASSUME NEW s \in Subs, sub'[s].status = "active", booked'[s] = {}
      PROVE  \E v \in Workers : Booking(subWork'[v], s)
  <2>1. CASE s = subWork[w].id
    BY <1>2, <2>1
  <2>2. CASE s # subWork[w].id
    <3>1. sub[s].status = "active" /\ booked[s] = {}
      BY <1>3, <2>2, SaveRenewedOK
    <3>2. PICK v \in Workers : Booking(subWork[v], s)
      BY <3>1 DEF SubInv, ActiveIsBooked, Booking
    <3> QED BY <1>2, <2>2, <3>2 DEF Booking
  <2> QED BY <2>1, <2>2
<1>4. ActiveIsBooked'
  BY <1>3 DEF ActiveIsBooked, Booking
<1> QED BY <1>1, <1>2, <1>4 DEF SubInv

LEMMA SaveRenewalOK ==
  ASSUME SubInv, NEW w \in Workers, SaveRenewal(w) \/ SaveRecovery(w)
  PROVE  SubInv'
<1>1. subWork[w] \in SubWorker /\ SubWorkerOK(subWork[w]) /\ subWork[w].pc \in {"renew", "recover"}
      /\ subWork[w].id \in Subs /\ SaveRenewed(w) /\ UNCHANGED <<booked, recurring>>
  BY SubWorkerType DEF SaveRenewal, SaveRecovery, SubAt, SubWorkerOK
<1>2. ASSUME NEW pc \in {"book", "bookRetry"}, SubGoTo(w, pc)
      PROVE  SubInv'
  <2> DEFINE q == [subWork[w] EXCEPT !.pc = pc]
  <2>1. q \in SubWorker /\ SubWorkerOK(q) /\ Booking(q, subWork[w].id)
    BY <1>1 DEF SubWorker, SubWorkerOK, Booking, SubPc
  <2>2. SubGo(w, q)
    BY <1>2 DEF SubGoTo
  <2> HIDE DEF q
  <2> QED BY <1>1, <2>1, <2>2, RenewOK
<1> QED BY <1>2 DEF SaveRenewal, SaveRecovery

\* Once booked, a subscription needs no worker to speak for it.
LEMMA BookedOK ==
  ASSUME SubInv, NEW w \in Workers, subWork[w].id \in Subs, subWork[w].tx \in 1..MaxCharges,
         booked' = [booked EXCEPT ![subWork[w].id] = @ \cup {subWork[w].tx}],
         NEW q \in SubWorker, SubWorkerOK(q), SubGo(w, q), UNCHANGED <<sub, recurring>>
  PROVE  SubInv'
<1>1. DataTypes'
  BY DEF SubInv, DataTypes
<1>2. SubWorkInv' /\ \A v \in Workers : v # w => subWork'[v] = subWork[v]
  BY OneMoves DEF SubInv
<1>3. ASSUME NEW s \in Subs, sub'[s].status = "active", booked'[s] = {}
      PROVE  \E v \in Workers : Booking(subWork'[v], s)
  <2>1. s # subWork[w].id /\ booked[s] = {}
    BY <1>3 DEF SubInv, DataTypes
  <2>2. PICK v \in Workers : Booking(subWork[v], s)
    BY <1>3, <2>1 DEF SubInv, ActiveIsBooked, Booking
  <2> QED BY <1>2, <2>1, <2>2 DEF Booking
<1>4. ActiveIsBooked'
  BY <1>3 DEF ActiveIsBooked, Booking
<1> QED BY <1>1, <1>2, <1>4 DEF SubInv

LEMMA NextCandidateOK ==
  ASSUME NEW q \in SubWorker, SubWorkerOK(q)
  PROVE  LET n == [SubIdle EXCEPT !.pc = "next",
                                  !.docs = [q.docs EXCEPT ![q.id] = NoSubRow],
                                  !.todo = q.todo]
         IN  n \in SubWorker /\ SubWorkerOK(n)
<1> DEFINE docs == [q.docs EXCEPT ![q.id] = NoSubRow]
           n == [SubIdle EXCEPT !.pc = "next", !.docs = docs, !.todo = q.todo]
<1>1. docs \in [Subs -> SubRow] /\ q.todo \in SUBSET Subs
  BY NoSubRowOK DEF SubWorker
<1>2. \A s \in q.todo : docs[s].failed < MaxAttempts
  <2>1. \A s \in q.todo : docs[s] = IF s = q.id THEN NoSubRow ELSE q.docs[s]
    BY <1>1 DEF SubWorker
  <2> QED BY <2>1, NoSubRowOK DEF SubWorkerOK, MaxAttempts
<1> HIDE DEF docs
<1>3. n \in SubWorker
  BY <1>1, IdleOK DEF SubWorker, SubPc
<1>4. n.pc = "next" /\ n.docs = docs /\ n.todo = q.todo
  BY DEF SubIdle
<1> HIDE DEF n
<1>5. SubWorkerOK(n)
  BY <1>2, <1>4 DEF SubWorkerOK
<1> QED BY <1>3, <1>5 DEF n, docs

LEMMA BookOK ==
  ASSUME SubInv, NEW w \in Workers, Book(w) \/ BookRetry(w)
  PROVE  SubInv'
<1>1. subWork[w] \in SubWorker /\ SubWorkerOK(subWork[w]) /\ subWork[w].id \in Subs
      /\ subWork[w].tx \in 1..MaxCharges /\ UNCHANGED <<sub, recurring>>
      /\ booked' = [booked EXCEPT ![subWork[w].id] = @ \cup {subWork[w].tx}]
  BY SubWorkerType DEF Book, BookRetry, SubAt, SubWorkerOK
<1>2. CASE SubDone(w)
  BY <1>1, <1>2, IdleOK, BookedOK DEF SubDone
<1>3. CASE GoNext(w)
  BY <1>1, <1>3, NextCandidateOK, BookedOK DEF GoNext
<1> QED BY <1>2, <1>3 DEF Book, BookRetry

-----------------------------------------------------------------------------
(* The retry job                                                           *)

LEMMA ChargeOK ==
  ASSUME SubInv, NEW w \in Workers, NEW s \in Subs, ChargeCandidate(w, s)
  PROVE  SubInv'
<1> DEFINE q == [subWork[w] EXCEPT !.id = s, !.todo = @ \ {s}]
<1>1. subWork[w] \in SubWorker /\ SubWorkerOK(subWork[w]) /\ subWork[w].pc = "next"
      /\ s \in subWork[w].todo /\ UNCHANGED <<sub, booked>>
  BY SubWorkerType DEF ChargeCandidate, SubAt
<1>2. DataTypes'
  BY MaxChargesAssumption DEF ChargeCandidate, ChargeToken, SubInv, DataTypes, SubGatewayRow
<1>3. q \in SubWorker /\ q.pc = "next" /\ q.id = s /\ q.docs[s].failed < MaxAttempts
      /\ \A x \in q.todo : q.docs[x].failed < MaxAttempts
  BY <1>1 DEF SubWorker, SubWorkerOK
<1>4. CASE SubGo(w, [q EXCEPT !.pc = "bump"])
  <2> DEFINE r == [q EXCEPT !.pc = "bump"]
  <2>1. r \in SubWorker /\ SubWorkerOK(r)
    BY <1>3 DEF SubWorker, SubWorkerOK, SubPc
  <2> HIDE DEF r
  <2> QED BY <1>1, <1>2, <1>4, <2>1, SubStepOK DEF r
<1>5. CASE recurring[s].charges < MaxCharges
           /\ SubGo(w, [q EXCEPT !.pc = "recover", !.tx = recurring[s].charges + 1])
  <2> DEFINE tx == recurring[s].charges + 1
             r == [q EXCEPT !.pc = "recover", !.tx = tx]
  <2>1. tx \in 1..MaxCharges
    BY <1>5, MaxChargesAssumption DEF SubInv, DataTypes, SubGatewayRow
  <2>2. SubGo(w, r)
    BY <1>5
  <2> HIDE DEF tx
  <2>3. r \in SubWorker /\ SubWorkerOK(r)
    <3>1. [q EXCEPT !.pc = "recover"] \in SubWorker
      BY <1>3 DEF SubWorker, SubPc
    <3>2. r = [[q EXCEPT !.pc = "recover"] EXCEPT !.tx = tx]
      BY <1>3 DEF SubWorker
    <3>3. r \in SubWorker
      BY <2>1, <3>1, <3>2, TxOK
    <3>4. r.pc = "recover" /\ r.id = s /\ r.docs = q.docs /\ r.todo = q.todo /\ r.tx = tx
      BY <1>3 DEF SubWorker
    <3> QED BY <1>3, <2>1, <3>3, <3>4 DEF SubWorkerOK
  <2> HIDE DEF r
  <2> QED BY <1>1, <1>2, <2>2, <2>3, SubStepOK
<1>6. PICK succeeded \in BOOLEAN :
        /\ ChargeToken(s, succeeded)
        /\ SubGo(w, IF succeeded THEN [q EXCEPT !.pc = "recover", !.tx = recurring[s].charges + 1]
                    ELSE [q EXCEPT !.pc = "bump"])
  BY DEF ChargeCandidate
<1> QED BY <1>4, <1>5, <1>6 DEF ChargeToken

LEMMA BumpOK ==
  ASSUME SubInv, NEW w \in Workers, Bump(w)
  PROVE  SubInv'
<1> DEFINE failed == Doc(w).failed + 1
           status == IF failed >= MaxAttempts THEN "cancelled" ELSE Doc(w).status
           new == [Doc(w) EXCEPT !.failed = failed, !.status = status]
<1>1. subWork[w] \in SubWorker /\ SubWorkerOK(subWork[w]) /\ subWork[w].id \in Subs
      /\ Doc(w) \in SubRow /\ subWork[w].pc = "bump" /\ UNCHANGED <<booked, recurring>>
  BY SubWorkerType DEF Bump, SubAt, SubWorkerOK
<1>2. Save(w, new) /\ GoNext(w)
  BY DEF Bump
<1>3. failed \in 0..MaxFailures
  BY <1>1, MaxFailuresAssumption DEF SubWorkerOK, Doc, SubRow, MaxAttempts
<1>4. status = Doc(w).status \/ status = "cancelled"
  OBVIOUS
<1> HIDE DEF failed, status
<1>5. new \in SubRow /\ (new.status = Doc(w).status \/ new.status # "active")
  BY <1>1, <1>3, <1>4 DEF SubRow
<1> HIDE DEF new
<1>6. /\ sub' \in [Subs -> SubRow]
      /\ \A s \in Subs : sub'[s].status = "active" => sub[s].status = "active"
  BY <1>1, <1>2, <1>5, SaveOK
<1>7. DataTypes'
  BY <1>1, <1>6 DEF SubInv, DataTypes
<1> QED BY <1>1, <1>2, <1>6, <1>7, NextCandidateOK, SubStepOK DEF GoNext

LEMMA ServeOK ==
  ASSUME SubInv, NEW w \in Workers, Serve(w)
  PROVE  SubInv'
<1>1. CASE EndJob(w)
  BY <1>1, IdleOK, QuietStepOK DEF EndJob, SubDone, SubAt
<1> QED BY <1>1, SubCreateOK, SubOpenPageOK, SaveIdsOK, StopOK, LastSavesOK, SaveRenewalOK,
           BookOK, ChargeOK, BumpOK DEF Serve

-----------------------------------------------------------------------------
(* PayPlus and the passing of time                                         *)

LEMMA OutsideOK ==
  ASSUME SubInv, NEW s \in Subs, Outside(s)
  PROVE  SubInv'
<1>1. UNCHANGED <<booked, subWork>>
  BY DEF Outside, Pay, Renew, ChargeByProgram, Refuse, DashboardStop, Age
<1>2. recurring' \in [Subs -> SubGatewayRow]
  <2>1. CASE ChargeByProgram(s)
    <3>1. recurring[s].charges + 1 \in 1..MaxCharges
      BY <2>1, MaxChargesAssumption DEF ChargeByProgram, SubInv, DataTypes, SubGatewayRow
    <3> QED BY <2>1, <3>1 DEF ChargeByProgram, SubInv, DataTypes, SubGatewayRow
  <2>2. recurring \in [Subs -> SubGatewayRow] /\ recurring[s] \in SubGatewayRow
    BY DEF SubInv, DataTypes
  <2>3. CASE Refuse(s)
    <3>1. [recurring[s] EXCEPT !.refused = TRUE] \in SubGatewayRow
      BY <2>2 DEF SubGatewayRow
    <3>2. recurring' = [recurring EXCEPT ![s] = [recurring[s] EXCEPT !.refused = TRUE]]
      BY <2>3, <2>2 DEF Refuse
    <3> QED BY <2>2, <3>1, <3>2
  <2>4. CASE DashboardStop(s)
    <3>1. [recurring[s] EXCEPT !.program = "stopped"] \in SubGatewayRow
      BY <2>2 DEF SubGatewayRow
    <3>2. recurring' = [recurring EXCEPT ![s] = [recurring[s] EXCEPT !.program = "stopped"]]
      BY <2>4, <2>2 DEF DashboardStop
    <3> QED BY <2>2, <3>1, <3>2
  <2>5. CASE Age(s)
    BY <2>5, <2>2 DEF Age
  <2> QED BY <2>1, <2>3, <2>4, <2>5 DEF Outside, Pay, Renew
<1>3. /\ sub' \in [Subs -> SubRow]
      /\ \A x \in Subs : sub'[x].status = sub[x].status
  <2>1. CASE sub' = sub
    BY <2>1 DEF SubInv, DataTypes
  <2>2. CASE Age(s)
    BY <2>2 DEF Age, SubInv, DataTypes, SubRow
  <2> QED BY <2>1, <2>2 DEF Outside, Pay, Renew, ChargeByProgram, Refuse, DashboardStop
<1>4. ActiveIsBooked'
  BY <1>1, <1>3 DEF SubInv, ActiveIsBooked
<1> QED BY <1>1, <1>2, <1>3, <1>4 DEF SubInv, DataTypes, SubWorkInv

-----------------------------------------------------------------------------
(* The invariant and the theorems                                          *)

LEMMA SubInitOK == SubscriptionsInit => SubInv
<1> SUFFICES ASSUME SubscriptionsInit
             PROVE  SubInv
  OBVIOUS
<1>1. DataTypes
  BY NoSubRowOK, MaxChargesAssumption DEF SubscriptionsInit, DataTypes, SubGatewayRow
<1>2. SubWorkInv
  BY IdleOK DEF SubscriptionsInit, SubWorkInv
<1>3. ActiveIsBooked
  BY NoSubRowOK DEF SubscriptionsInit, ActiveIsBooked
<1> QED BY <1>1, <1>2, <1>3 DEF SubInv

LEMMA SubNextOK == SubInv /\ [SubscriptionsNext]_subVars => SubInv'
<1> SUFFICES ASSUME SubInv, [SubscriptionsNext]_subVars
             PROVE  SubInv'
  OBVIOUS
<1>1. CASE UNCHANGED subVars
  BY <1>1 DEF subVars, SubInv, DataTypes, SubWorkInv, ActiveIsBooked
<1>2. CASE SubscriptionsNext
  BY <1>2, OutsideOK, ReceiveOK, BeginJobOK, ServeOK DEF SubscriptionsNext
<1> QED BY <1>1, <1>2

LEMMA SubInvariance == SubscriptionsSpec => []SubInv
  BY SubInitOK, SubNextOK, PTL DEF SubscriptionsSpec

\* Every variable keeps its type, whatever overlaps or is repeated: no save of
\* a stale document makes a row the schema does not know (models/Subscription.ts).
THEOREM SubscriptionsTypeCorrect == SubscriptionsSpec => []SubscriptionsTypeOK
<1>1. SubInv => SubscriptionsTypeOK
  BY DEF SubInv, DataTypes, SubWorkInv, SubscriptionsTypeOK, SubGatewayRow
<1> QED BY <1>1, SubInvariance, PTL

\* A subscription is active only with a Payment row for it, or a worker about
\* to write one (onRecurringSuccess() of GatewayService.ts, the success branch
\* of runSubscriptionRetries()), however many webhooks, requests and runs of
\* the job overlap.
THEOREM ActiveSubscriptionsBooked == SubscriptionsSpec => []ActiveIsBooked
<1>1. SubInv => ActiveIsBooked
  BY DEF SubInv
<1> QED BY <1>1, SubInvariance, PTL

-----------------------------------------------------------------------------
(* One worker at a time                                                    *)

SubInTurn == \A v, w \in Workers : v = w

\* The documents differ at most in the days that have gone by.
Agrees(d, e) ==
    /\ d.status = e.status /\ d.failed = e.failed /\ d.atEnd = e.atEnd
    /\ d.program = e.program

\* What a worker has loaded is what there is until it saves it, and what the job
\* has yet to charge is past due.
Fresh(q, sb) ==
    /\ \A s \in q.todo : Agrees(q.docs[s], sb[s]) /\ sb[s].status = "past_due"
    /\ q.pc \notin {"next", "recover", "bookRetry", "bump"} => q.todo = {}
    /\ q.pc \in {"recover", "bookRetry", "bump"} => q.id \notin q.todo
    /\ q.pc \notin {"idle", "create", "next", "book", "bookRetry"} =>
          Agrees(q.docs[q.id], sb[q.id])
    /\ q.pc = "bump" => sb[q.id].status = "past_due"
    /\ q.pc \notin {"idle", "create", "next"} => sb[q.id].status # "none"
    /\ q.pc \in {"openPage", "saveIds"} => ~ sb[q.id].program /\ ~ sb[q.id].atEnd

\* A program that can charge belongs to a subscription that goes on and knows of
\* it; there is none where a cancellation is about to be noted down.
Running(g) == g.program \in {"page", "live"}

NoProgram(q, gw) == q.pc = "saveAtEnd" => ~ Running(gw[q.id])

ProgramKnown ==
    \A s \in Subs : Running(recurring[s]) => sub[s].program /\ ~ sub[s].atEnd

\* PayPlus has nothing to report of a document not yet created.
NoneBlank ==
    \A s \in Subs : sub[s].status = "none" =>
        recurring[s].program = "none" /\ recurring[s].hooks = {} /\ ~ recurring[s].refused

SubTurnInv ==
    /\ ActiveIsClear
    /\ ProgramKnown
    /\ NoneBlank
    /\ \A w \in Workers : Fresh(subWork[w], sub) /\ NoProgram(subWork[w], recurring)

\* The one worker there is goes on as q.
LEMMA SubTurnOf ==
  ASSUME SubInTurn, SubInv, NEW w \in Workers, NEW q, SubGo(w, q),
         Fresh(q, sub'), NoProgram(q, recurring')
  PROVE  \A v \in Workers : Fresh(subWork'[v], sub') /\ NoProgram(subWork'[v], recurring')
<1>1. \A v \in Workers : subWork'[v] = q
  BY DEF SubInTurn, SubGo, SubInv, SubWorkInv
<1> QED BY <1>1

LEMMA IdleFresh ==
  ASSUME NEW sb, NEW gw
  PROVE  Fresh(SubIdle, sb) /\ NoProgram(SubIdle, gw)
  BY DEF SubIdle, Fresh, NoProgram

\* The one worker moves; documents and PayPlus rest.
LEMMA QuietTurn ==
  ASSUME SubInTurn, SubInv, SubTurnInv, NEW w \in Workers, NEW q, SubGo(w, q), Fresh(q, sub),
         UNCHANGED <<sub, recurring>>, NoProgram(q, recurring)
  PROVE  SubTurnInv'
<1>1. Fresh(q, sub') /\ NoProgram(q, recurring')
  OBVIOUS
<1>2. \A v \in Workers : Fresh(subWork'[v], sub') /\ NoProgram(subWork'[v], recurring')
  BY <1>1, SubTurnOf
<1>3. ProgramKnown'
  BY DEF SubTurnInv, ProgramKnown
<1>4. ActiveIsClear' /\ NoneBlank'
  BY DEF SubTurnInv, ActiveIsClear, NoneBlank
<1> QED BY <1>2, <1>3, <1>4 DEF SubTurnInv

\* save() of a document that is still what it was.
LEMMA SavedAgrees ==
  ASSUME SubInv, NEW w \in Workers, subWork[w].id \in Subs, NEW new \in SubRow, Save(w, new),
         Agrees(Doc(w), sub[subWork[w].id])
  PROVE  /\ Agrees(new, sub'[subWork[w].id])
         /\ \A s \in Subs : s # subWork[w].id => sub'[s] = sub[s]
<1> DEFINE cur == sub[subWork[w].id]
           old == Doc(w)
           m == SubMerge(cur, old, new)
<1>1. cur \in SubRow /\ old \in SubRow /\ sub \in [Subs -> SubRow]
  BY SubWorkerType
<1>2. sub' = [sub EXCEPT ![subWork[w].id] = m]
  BY DEF Save
<1>3. Agrees(new, m)
  BY <1>1 DEF SubMerge, Agrees, SubRow
<1> HIDE DEF m
<1> QED BY <1>1, <1>2, <1>3

LEMMA RenewedAgrees ==
  ASSUME SubInv, NEW w \in Workers, subWork[w].id \in Subs, SaveRenewed(w),
         Agrees(Doc(w), sub[subWork[w].id])
  PROVE  /\ sub'[subWork[w].id].status = "active" /\ sub'[subWork[w].id].failed = 0
         /\ sub'[subWork[w].id].program = sub[subWork[w].id].program
         /\ sub'[subWork[w].id].atEnd = sub[subWork[w].id].atEnd
         /\ \A s \in Subs : s # subWork[w].id => sub'[s] = sub[s]
<1> DEFINE cur == sub[subWork[w].id]
           old == Doc(w)
           new == [old EXCEPT !.status = "active", !.failed = 0]
           m == SubMerge(cur, old, new)
           n == [m EXCEPT !.covered = TRUE]
<1>1. cur \in SubRow /\ old \in SubRow /\ sub \in [Subs -> SubRow]
  BY SubWorkerType
<1>2. sub' = [sub EXCEPT ![subWork[w].id] = n]
  BY DEF SaveRenewed
<1>3. /\ n.status = "active" /\ n.failed = 0
      /\ n.program = cur.program /\ n.atEnd = cur.atEnd
  <2>1. SubMerge(cur, old, new) \in SubRow
    <3>1. 0 \in 0..MaxFailures
      BY MaxFailuresAssumption
    <3>2. new \in SubRow
      BY <1>1, <3>1 DEF SubRow
    <3> QED BY <1>1, <3>2, MergeOK
  <2>2. /\ m.status = "active" /\ m.failed = 0
        /\ m.program = cur.program /\ m.atEnd = cur.atEnd
    BY <1>1 DEF SubMerge, Agrees, SubRow
  <2> HIDE DEF m
  <2> QED BY <2>1, <2>2 DEF SubRow, m
<1> HIDE DEF n
<1> QED BY <1>1, <1>2, <1>3

\* The documents and programs of all others rest, and the one worker goes on as q.
LEMMA SaveTurn ==
  ASSUME SubInTurn, SubInv, SubTurnInv, NEW w \in Workers, NEW id \in Subs, NEW q, SubGo(w, q),
         \A s \in Subs : s # id => sub'[s] = sub[s] /\ recurring'[s] = recurring[s],
         sub'[id].status = "active" => sub'[id].failed = 0,
         Running(recurring'[id]) => sub'[id].program /\ ~ sub'[id].atEnd,
         sub'[id].status # "none",
         Fresh(q, sub'), NoProgram(q, recurring')
  PROVE  SubTurnInv'
<1>1. \A v \in Workers : Fresh(subWork'[v], sub') /\ NoProgram(subWork'[v], recurring')
  BY SubTurnOf
<1>2. ASSUME NEW s \in Subs, Running(recurring'[s])
      PROVE  sub'[s].program /\ ~ sub'[s].atEnd
  <2>1. CASE s = id
    BY <1>2, <2>1
  <2>2. CASE s # id
    <3>1. Running(recurring[s]) /\ sub'[s] = sub[s]
      BY <1>2, <2>2
    <3> QED BY <3>1 DEF SubTurnInv, ProgramKnown
  <2> QED BY <2>1, <2>2
<1>3. ProgramKnown'
  BY <1>2 DEF ProgramKnown
<1>4. ActiveIsClear' /\ NoneBlank'
  BY DEF SubTurnInv, ActiveIsClear, NoneBlank
<1> QED BY <1>1, <1>3, <1>4 DEF SubTurnInv

\* What a begun request, webhook or job has loaded is fresh.
LEMMA SubBeginTurn ==
  ASSUME SubInTurn, SubInv, SubTurnInv, NEW w \in Workers, NEW pc \in SubPc, NEW s, SubBegin(w, pc, s),
         pc \in {"create", "stop", "saveAtEnd", "fail", "cancel"},
         pc # "create" => s \in Subs /\ sub[s].status # "none",
         pc = "saveAtEnd" => ~ sub[s].program
  PROVE  SubTurnInv'
<1> DEFINE q == [SubIdle EXCEPT !.pc = pc, !.id = s, !.docs = Loaded({s})]
<1>1. SubGo(w, q) /\ UNCHANGED <<sub, recurring>>
  BY DEF SubBegin
<1>2. q.pc = pc /\ q.id = s /\ q.todo = {} /\ q.docs = Loaded({s})
  BY DEF SubIdle
<1> HIDE DEF q
<1>3. s \in Subs => Loaded({s})[s] = sub[s]
  BY DEF Loaded
<1>4. Fresh(q, sub)
  BY <1>2, <1>3 DEF Fresh, Agrees
<1>5. NoProgram(q, recurring)
  BY <1>2 DEF NoProgram, SubTurnInv, ProgramKnown
<1> QED BY <1>1, <1>4, <1>5, QuietTurn

LEMMA ReceiveTurn ==
  ASSUME SubInTurn, SubInv, SubTurnInv, NEW w \in Workers, Receive(w) \/ BeginJob(w)
  PROVE  SubTurnInv'
<1>1. CASE BeginSubscribe(w)
  <2>1. "create" \in SubPc /\ SubBegin(w, "create", NoSub)
    BY <1>1 DEF BeginSubscribe, SubPc
  <2> QED BY <2>1, SubBeginTurn
<1>2. ASSUME NEW s \in Subs, BeginCancelSubscription(w, s)
      PROVE  SubTurnInv'
  <2>1. CASE sub[s].program
    BY <1>2, <2>1, SubBeginTurn DEF BeginCancelSubscription, SubPc
  <2>2. CASE ~ sub[s].program
    BY <1>2, <2>2, SubBeginTurn DEF BeginCancelSubscription, SubPc
  <2> QED BY <2>1, <2>2
<1>3. ASSUME NEW s \in Subs, BeginRecurringFailure(w, s) \/ BeginCancelled(w, s)
      PROVE  SubTurnInv'
  <2>1. sub[s].status # "none"
    BY <1>3 DEF BeginRecurringFailure, BeginCancelled, SubTurnInv, NoneBlank
  <2> QED BY <1>3, <2>1, SubBeginTurn DEF BeginRecurringFailure, BeginCancelled, SubPc
<1>4. ASSUME NEW s \in Subs, NEW tx \in 1..MaxCharges, BeginRecurringSuccess(w, s, tx)
      PROVE  SubTurnInv'
  <2> DEFINE q == [SubIdle EXCEPT !.pc = "renew", !.id = s, !.docs = Loaded({s}), !.tx = tx]
  <2>1. SubGo(w, q) /\ UNCHANGED <<sub, recurring>>
    BY <1>4 DEF BeginRecurringSuccess
  <2>2. q.pc = "renew" /\ q.id = s /\ q.todo = {} /\ q.docs = Loaded({s})
    BY DEF SubIdle
  <2> HIDE DEF q
  <2>3. Loaded({s})[s] = sub[s]
    BY DEF Loaded
  <2>4. sub[s].status # "none"
    BY <1>4 DEF BeginRecurringSuccess, SubTurnInv, NoneBlank
  <2>5. Fresh(q, sub) /\ NoProgram(q, recurring)
    BY <2>2, <2>3, <2>4 DEF Fresh, Agrees, NoProgram
  <2> QED BY <2>1, <2>5, QuietTurn
<1>5. CASE BeginJob(w)
  <2> DEFINE candidates == {s \in Subs : Retriable(s)}
             q == [SubIdle EXCEPT !.pc = "next", !.docs = Loaded(candidates), !.todo = candidates]
  <2>1. SubGo(w, q) /\ UNCHANGED <<sub, recurring>>
    BY <1>5 DEF BeginJob
  <2>2. q.pc = "next" /\ q.docs = Loaded(candidates) /\ q.todo = candidates
    BY DEF SubIdle
  <2>3. \A s \in candidates : Loaded(candidates)[s] = sub[s] /\ sub[s].status = "past_due"
    BY DEF Loaded, Retriable
  <2> HIDE DEF q, candidates
  <2>4. Fresh(q, sub) /\ NoProgram(q, recurring)
    BY <2>2, <2>3 DEF Fresh, Agrees, NoProgram
  <2> QED BY <2>1, <2>4, QuietTurn
<1> QED BY <1>1, <1>2, <1>3, <1>4, <1>5 DEF Receive

LEMMA SubCreateTurn ==
  ASSUME SubInTurn, SubInv, SubTurnInv, NEW w \in Workers, CreateSubscription(w)
  PROVE  SubTurnInv'
<1> DEFINE row == [NoSubRow EXCEPT !.status = "incomplete"]
<1>1. PICK s \in Subs :
          /\ sub[s].status = "none"
          /\ sub' = [sub EXCEPT ![s] = row]
          /\ SubGo(w, [subWork[w] EXCEPT !.pc = "openPage", !.id = s, !.docs[s] = row])
  BY DEF CreateSubscription
<1> DEFINE q == [subWork[w] EXCEPT !.pc = "openPage", !.id = s, !.docs[s] = row]
<1>2. /\ subWork[w] \in SubWorker /\ subWork[w].pc = "create" /\ UNCHANGED recurring
      /\ sub \in [Subs -> SubRow]
  BY SubWorkerType DEF CreateSubscription, SubAt
<1>3. subWork[w].todo = {}
  BY <1>2 DEF SubTurnInv, Fresh
<1>4. q.pc = "openPage" /\ q.id = s /\ q.todo = {} /\ q.docs[s] = row
  BY <1>2, <1>3 DEF SubWorker
<1>5. row.status = "incomplete" /\ row.program = FALSE /\ row.atEnd = FALSE
  BY DEF NoSubRow
<1>6. sub'[s] = row /\ \A x \in Subs : x # s => sub'[x] = sub[x]
  BY <1>1, <1>2
<1>7. SubGo(w, q)
  BY <1>1
<1> HIDE DEF q, row
<1>8. Fresh(q, sub') /\ NoProgram(q, recurring')
  BY <1>4, <1>5, <1>6 DEF Fresh, Agrees, NoProgram
<1>9. ~ Running(recurring'[s])
  BY <1>1, <1>2 DEF SubTurnInv, NoneBlank, Running
<1> QED BY <1>2, <1>5, <1>6, <1>7, <1>8, <1>9, SaveTurn

\* A worker at a document knows it as it is.
LEMMA HeldTurn ==
  ASSUME SubInv, SubTurnInv, NEW w \in Workers, subWork[w].pc \notin {"idle", "create", "next"}
  PROVE  /\ subWork[w] \in SubWorker /\ subWork[w].id \in Subs /\ Doc(w) \in SubRow
         /\ sub \in [Subs -> SubRow] /\ recurring \in [Subs -> SubGatewayRow]
         /\ sub[subWork[w].id].status # "none"
         /\ subWork[w].pc \notin {"book", "bookRetry"} => Agrees(Doc(w), sub[subWork[w].id])
<1>1. SubWorkerOK(subWork[w]) /\ Fresh(subWork[w], sub)
  BY SubWorkerType DEF SubTurnInv
<1>2. subWork[w].id \in Subs /\ sub[subWork[w].id].status # "none"
  BY <1>1 DEF SubWorkerOK, Fresh
<1>3. subWork[w].pc \notin {"book", "bookRetry"} => Agrees(Doc(w), sub[subWork[w].id])
  BY <1>1 DEF Fresh, Doc
<1> QED BY <1>2, <1>3, SubWorkerType DEF SubInv, DataTypes

\* What the job has yet to charge, once it is through with one candidate.
LEMMA SubNextTurn ==
  ASSUME SubInv, SubTurnInv, NEW w \in Workers, subWork[w].pc \in {"recover", "bookRetry", "bump"},
         GoNext(w), \A s \in Subs : s # subWork[w].id => sub'[s] = sub[s]
  PROVE  \E q : SubGo(w, q) /\ Fresh(q, sub') /\ NoProgram(q, recurring')
<1> DEFINE docs == [subWork[w].docs EXCEPT ![subWork[w].id] = NoSubRow]
           q == [SubIdle EXCEPT !.pc = "next", !.docs = docs, !.todo = subWork[w].todo]
<1>1. subWork[w] \in SubWorker /\ Fresh(subWork[w], sub)
  BY SubWorkerType DEF SubTurnInv
<1>2. subWork[w].todo \subseteq Subs /\ subWork[w].id \notin subWork[w].todo
  BY <1>1 DEF SubWorker, Fresh
<1>3. \A s \in subWork[w].todo : docs[s] = subWork[w].docs[s] /\ sub'[s] = sub[s]
  BY <1>1, <1>2 DEF SubWorker
<1>4. SubGo(w, q)
  BY DEF GoNext
<1>5. q.pc = "next" /\ q.docs = docs /\ q.todo = subWork[w].todo
  BY DEF SubIdle
<1> HIDE DEF q, docs
<1>6. Fresh(q, sub')
  BY <1>1, <1>3, <1>5 DEF Fresh
<1>7. NoProgram(q, recurring')
  BY <1>5 DEF NoProgram
<1> QED BY <1>4, <1>6, <1>7

\* Where the one worker goes from the save of a document.
Onward(w) == SubDone(w) \/ (subWork[w].pc \in {"recover", "bookRetry", "bump"} /\ GoNext(w))

LEMMA OnwardTurn ==
  ASSUME SubInv, SubTurnInv, NEW w \in Workers, Onward(w),
         \A s \in Subs : s # subWork[w].id => sub'[s] = sub[s]
  PROVE  \E q : SubGo(w, q) /\ Fresh(q, sub') /\ NoProgram(q, recurring')
<1>1. CASE SubDone(w)
  BY <1>1, IdleFresh DEF SubDone
<1>2. CASE subWork[w].pc \in {"recover", "bookRetry", "bump"} /\ GoNext(w)
  BY <1>2, SubNextTurn
<1> QED BY <1>1, <1>2 DEF Onward

\* A document is saved that changes neither the program nor, while it can
\* charge, the mark that the subscription ends.
LEMMA SavedTurn ==
  ASSUME SubInTurn, SubInv, SubTurnInv, NEW w \in Workers, Onward(w), UNCHANGED recurring,
         subWork[w].pc \notin {"idle", "create", "next", "book", "bookRetry"},
         NEW new \in SubRow, Save(w, new), new.status # "none",
         new.status = "active" => new.failed = 0,
         new.program = Doc(w).program,
         new.atEnd = Doc(w).atEnd \/ ~ Running(recurring[subWork[w].id])
  PROVE  SubTurnInv'
<1>1. /\ subWork[w].id \in Subs
      /\ Agrees(Doc(w), sub[subWork[w].id])
  BY HeldTurn
<1>2. /\ Agrees(new, sub'[subWork[w].id])
      /\ \A s \in Subs : s # subWork[w].id => sub'[s] = sub[s]
  BY <1>1, SavedAgrees
<1>3. PICK q : SubGo(w, q) /\ Fresh(q, sub') /\ NoProgram(q, recurring')
  BY <1>2, OnwardTurn
<1>4. Running(recurring[subWork[w].id]) =>
          sub[subWork[w].id].program /\ ~ sub[subWork[w].id].atEnd
  BY <1>1 DEF SubTurnInv, ProgramKnown
<1>5. Running(recurring'[subWork[w].id]) =>
          sub'[subWork[w].id].program /\ ~ sub'[subWork[w].id].atEnd
  BY <1>1, <1>2, <1>4 DEF Agrees
<1>6. /\ sub'[subWork[w].id].status = "active" => sub'[subWork[w].id].failed = 0
      /\ sub'[subWork[w].id].status # "none"
  BY <1>2 DEF Agrees
<1> QED BY <1>1, <1>2, <1>3, <1>5, <1>6, SaveTurn

LEMMA OpenPageTurn ==
  ASSUME SubInTurn, SubInv, SubTurnInv, NEW w \in Workers, OpenRecurringPage(w)
  PROVE  SubTurnInv'
<1>1. subWork[w].pc = "openPage" /\ UNCHANGED <<sub, recurring>> /\ subWork[w] \in SubWorker
      /\ Fresh(subWork[w], sub)
  BY SubWorkerType DEF OpenRecurringPage, SubAt, SubTurnInv
<1>2. CASE SubDone(w)
  BY <1>1, <1>2, IdleFresh, QuietTurn DEF SubDone
<1>3. ASSUME NEW answer \in CreateRecurring,
             SubGo(w, [subWork[w] EXCEPT !.pc = "saveIds", !.card = answer.card])
      PROVE  SubTurnInv'
  <2> DEFINE q == [subWork[w] EXCEPT !.pc = "saveIds", !.card = answer.card]
  <2>1. /\ q.pc = "saveIds" /\ q.id = subWork[w].id /\ q.docs = subWork[w].docs
        /\ q.todo = subWork[w].todo
    BY <1>1 DEF SubWorker
  <2>2. SubGo(w, q)
    BY <1>3
  <2> HIDE DEF q
  <2>3. Fresh(q, sub) /\ NoProgram(q, recurring)
    BY <1>1, <2>1 DEF Fresh, NoProgram
  <2> QED BY <1>1, <2>2, <2>3, QuietTurn
<1> QED BY <1>2, <1>3 DEF OpenRecurringPage

LEMMA SaveIdsTurn ==
  ASSUME SubInTurn, SubInv, SubTurnInv, NEW w \in Workers, SaveIds(w)
  PROVE  SubTurnInv'
<1> DEFINE new == [Doc(w) EXCEPT !.program = TRUE, !.card = subWork[w].card]
           id == subWork[w].id
<1>1. subWork[w].pc = "saveIds" /\ Save(w, new) /\ SubGo(w, SubIdle)
      /\ recurring' = [recurring EXCEPT ![id].program = "page"]
  BY DEF SaveIds, SubAt, SubDone
<1>2. /\ subWork[w] \in SubWorker /\ id \in Subs /\ Doc(w) \in SubRow
      /\ sub \in [Subs -> SubRow] /\ recurring \in [Subs -> SubGatewayRow]
      /\ sub[id].status # "none" /\ Agrees(Doc(w), sub[id])
  BY <1>1, HeldTurn
<1>3. ~ sub[id].atEnd
  BY <1>1 DEF SubTurnInv, Fresh
<1>4. /\ new \in SubRow /\ new.program = TRUE
      /\ new.status = Doc(w).status /\ new.failed = Doc(w).failed
      /\ new.atEnd = Doc(w).atEnd
  BY <1>2 DEF SubRow, SubWorker
<1> HIDE DEF new
<1>5. /\ Agrees(new, sub'[id])
      /\ \A s \in Subs : s # id => sub'[s] = sub[s]
  BY <1>1, <1>2, <1>4, SavedAgrees
<1>6. sub'[id].program = TRUE /\ ~ sub'[id].atEnd /\ sub'[id].status # "none"
  BY <1>2, <1>3, <1>4, <1>5 DEF Agrees
<1>7. sub'[id].status = "active" => sub'[id].failed = 0
  BY <1>2, <1>4, <1>5 DEF Agrees, SubTurnInv, ActiveIsClear
<1>8. \A s \in Subs : s # id => recurring'[s] = recurring[s]
  BY <1>1, <1>2
<1>9. Fresh(SubIdle, sub') /\ NoProgram(SubIdle, recurring')
  BY IdleFresh
<1> HIDE DEF id
<1> QED BY <1>1, <1>2, <1>5, <1>6, <1>7, <1>8, <1>9, SaveTurn

LEMMA StopTurn ==
  ASSUME SubInTurn, SubInv, SubTurnInv, NEW w \in Workers, Stop(w)
  PROVE  SubTurnInv'
<1> DEFINE id == subWork[w].id
           q == [subWork[w] EXCEPT !.pc = "saveAtEnd"]
<1>1. subWork[w].pc = "stop" /\ UNCHANGED sub
  BY DEF Stop, SubAt
<1>2. /\ subWork[w] \in SubWorker /\ id \in Subs
      /\ sub \in [Subs -> SubRow] /\ recurring \in [Subs -> SubGatewayRow]
      /\ sub[id].status # "none" /\ Agrees(Doc(w), sub[id])
  BY <1>1, HeldTurn
<1>3. PICK answered \in BOOLEAN :
          /\ CancelRecurring(id, answered)
          /\ IF answered THEN SubGo(w, q) ELSE SubGo(w, SubIdle)
  BY DEF Stop, SubGoTo, SubDone
<1>4. recurring' = recurring \/ recurring' = [recurring EXCEPT ![id].program = "stopped"]
  BY <1>3 DEF CancelRecurring
<1>5. \A s \in Subs : s # id => sub'[s] = sub[s] /\ recurring'[s] = recurring[s]
  BY <1>1, <1>2, <1>4
<1>6. Running(recurring'[id]) => Running(recurring[id])
  BY <1>2, <1>4 DEF Running, SubGatewayRow
<1>7. Running(recurring'[id]) => sub'[id].program /\ ~ sub'[id].atEnd
  BY <1>1, <1>2, <1>6 DEF SubTurnInv, ProgramKnown
<1>8. sub'[id].status = "active" => sub'[id].failed = 0
  BY <1>1, <1>2 DEF SubTurnInv, ActiveIsClear
<1>9. CASE answered
  <2>1. ~ Running(recurring'[id])
    BY <1>2, <1>3, <1>9 DEF CancelRecurring, Running, SubGatewayRow
  <2>2. q.pc = "saveAtEnd" /\ q.id = id /\ q.docs = subWork[w].docs /\ q.todo = subWork[w].todo
    BY <1>2 DEF SubWorker
  <2>3. SubGo(w, q)
    BY <1>3, <1>9
  <2> HIDE DEF q, id
  <2>4. subWork[w].todo = {} /\ subWork[w].id = id
    BY <1>1 DEF SubTurnInv, Fresh, id
  <2>5. Fresh(q, sub') /\ NoProgram(q, recurring')
    BY <1>1, <1>2, <2>1, <2>2, <2>4 DEF Fresh, NoProgram, Doc
  <2> QED BY <1>1, <1>2, <1>5, <1>7, <1>8, <2>3, <2>5, SaveTurn
<1>10. CASE ~ answered
  <2>1. SubGo(w, SubIdle) /\ Fresh(SubIdle, sub') /\ NoProgram(SubIdle, recurring')
    BY <1>3, <1>10, IdleFresh
  <2> HIDE DEF id
  <2> QED BY <1>1, <1>2, <1>5, <1>7, <1>8, <2>1, SaveTurn
<1> QED BY <1>9, <1>10

LEMMA SaveAtEndTurn ==
  ASSUME SubInTurn, SubInv, SubTurnInv, NEW w \in Workers, SaveAtEnd(w)
  PROVE  SubTurnInv'
<1> DEFINE new == [Doc(w) EXCEPT !.atEnd = TRUE]
<1>1. subWork[w].pc = "saveAtEnd" /\ Save(w, new) /\ Onward(w) /\ UNCHANGED recurring
  BY DEF SaveAtEnd, SubAt, Onward
<1>2. /\ subWork[w].id \in Subs /\ Doc(w) \in SubRow
      /\ sub[subWork[w].id].status # "none" /\ Agrees(Doc(w), sub[subWork[w].id])
  BY <1>1, HeldTurn
<1>3. ~ Running(recurring[subWork[w].id])
  BY <1>1 DEF SubTurnInv, NoProgram
<1>4. /\ new \in SubRow /\ new.status = Doc(w).status /\ new.failed = Doc(w).failed
      /\ new.program = Doc(w).program
  BY <1>2 DEF SubRow
<1> HIDE DEF new
<1>5. new.status # "none" /\ (new.status = "active" => new.failed = 0)
  BY <1>2, <1>4 DEF Agrees, SubTurnInv, ActiveIsClear
<1> QED BY <1>1, <1>3, <1>4, <1>5, SavedTurn

LEMMA SaveFailureTurn ==
  ASSUME SubInTurn, SubInv, SubTurnInv, NEW w \in Workers, SaveFailure(w)
  PROVE  SubTurnInv'
<1> DEFINE failed == Doc(w).failed + 1
           status == IF Doc(w).status = "cancelled" /\ failed < MaxAttempts
                     THEN Doc(w).status ELSE "past_due"
           new == [Doc(w) EXCEPT !.failed = failed, !.status = status]
<1>1. subWork[w].pc = "fail" /\ Save(w, new) /\ Onward(w) /\ UNCHANGED recurring
  BY DEF SaveFailure, SubAt, Onward
<1>2. Doc(w) \in SubRow
  BY <1>1, HeldTurn
<1>3. failed \in 0..MaxFailures
  BY <1>1, <1>2, SubWorkerType, MaxFailuresAssumption DEF SubWorkerOK, Doc, SubRow
<1>4. status \in {"cancelled", "past_due"}
  OBVIOUS
<1> HIDE DEF failed, status
<1>5. /\ new \in SubRow /\ new.status # "none" /\ new.status # "active"
      /\ new.program = Doc(w).program /\ new.atEnd = Doc(w).atEnd
  BY <1>2, <1>3, <1>4 DEF SubRow
<1> HIDE DEF new
<1> QED BY <1>1, <1>5, SavedTurn

LEMMA SaveCancelledTurn ==
  ASSUME SubInTurn, SubInv, SubTurnInv, NEW w \in Workers, SaveCancelled(w)
  PROVE  SubTurnInv'
<1> DEFINE new == [Doc(w) EXCEPT !.status = "cancelled"]
<1>1. subWork[w].pc = "cancel" /\ Save(w, new) /\ Onward(w) /\ UNCHANGED recurring
  BY DEF SaveCancelled, SubAt, Onward
<1>2. Doc(w) \in SubRow
  BY <1>1, HeldTurn
<1>3. /\ new \in SubRow /\ new.status # "none" /\ new.status # "active"
      /\ new.program = Doc(w).program /\ new.atEnd = Doc(w).atEnd
  BY <1>2 DEF SubRow
<1> HIDE DEF new
<1> QED BY <1>1, <1>3, SavedTurn

LEMMA BumpTurn ==
  ASSUME SubInTurn, SubInv, SubTurnInv, NEW w \in Workers, Bump(w)
  PROVE  SubTurnInv'
<1> DEFINE failed == Doc(w).failed + 1
           status == IF failed >= MaxAttempts THEN "cancelled" ELSE Doc(w).status
           new == [Doc(w) EXCEPT !.failed = failed, !.status = status]
<1>1. subWork[w].pc = "bump" /\ Save(w, new) /\ Onward(w) /\ UNCHANGED recurring
  BY DEF Bump, SubAt, Onward
<1>2. Doc(w) \in SubRow /\ Agrees(Doc(w), sub[subWork[w].id])
  BY <1>1, HeldTurn
<1>3. failed \in 0..MaxFailures
  BY <1>1, <1>2, SubWorkerType, MaxFailuresAssumption DEF SubWorkerOK, Doc, SubRow, MaxAttempts
<1>4. Doc(w).status = "past_due"
  BY <1>1, <1>2 DEF SubTurnInv, Fresh, Agrees
<1>5. status \in {"cancelled", "past_due"}
  BY <1>4
<1> HIDE DEF failed, status
<1>6. /\ new \in SubRow /\ new.status # "none" /\ new.status # "active"
      /\ new.program = Doc(w).program /\ new.atEnd = Doc(w).atEnd
  BY <1>2, <1>3, <1>5 DEF SubRow
<1> HIDE DEF new
<1> QED BY <1>1, <1>6, SavedTurn

\* A renewal or recovery starts the count of failures anew.
LEMMA RenewTurn ==
  ASSUME SubInTurn, SubInv, SubTurnInv, NEW w \in Workers, SaveRenewal(w) \/ SaveRecovery(w)
  PROVE  SubTurnInv'
<1>1. PICK pc \in {"book", "bookRetry"} :
          /\ pc = "book" => subWork[w].pc = "renew"
          /\ pc = "bookRetry" => subWork[w].pc = "recover"
          /\ SubGo(w, [subWork[w] EXCEPT !.pc = pc])
  BY DEF SaveRenewal, SaveRecovery, SubAt, SubGoTo
<1> DEFINE q == [subWork[w] EXCEPT !.pc = pc]
           id == subWork[w].id
<1>2. SaveRenewed(w) /\ UNCHANGED recurring /\ subWork[w].pc \in {"renew", "recover"}
  BY DEF SaveRenewal, SaveRecovery, SubAt
<1>3. /\ subWork[w] \in SubWorker /\ id \in Subs /\ Agrees(Doc(w), sub[id])
      /\ Fresh(subWork[w], sub)
  BY <1>2, HeldTurn DEF SubTurnInv
<1>4. /\ sub'[id].status = "active" /\ sub'[id].failed = 0
      /\ sub'[id].program = sub[id].program /\ sub'[id].atEnd = sub[id].atEnd
      /\ \A s \in Subs : s # id => sub'[s] = sub[s]
  BY <1>2, <1>3, RenewedAgrees
<1>5. q.pc = pc /\ q.id = id /\ q.docs = subWork[w].docs /\ q.todo = subWork[w].todo
  BY <1>3 DEF SubWorker
<1>6. SubGo(w, q)
  BY <1>1
<1> HIDE DEF q
<1>7. subWork[w].todo \subseteq Subs /\ id \notin subWork[w].todo
  BY <1>2, <1>3 DEF SubWorker, Fresh
<1>8. Fresh(q, sub')
  BY <1>1, <1>2, <1>3, <1>4, <1>5, <1>7 DEF Fresh
<1>9. NoProgram(q, recurring')
  BY <1>5 DEF NoProgram
<1>10. Running(recurring'[id]) => sub'[id].program /\ ~ sub'[id].atEnd
  BY <1>2, <1>3, <1>4 DEF SubTurnInv, ProgramKnown
<1> HIDE DEF id
<1> QED BY <1>2, <1>3, <1>4, <1>6, <1>8, <1>9, <1>10, SaveTurn

LEMMA ChargeTurn ==
  ASSUME SubInTurn, SubInv, SubTurnInv, NEW w \in Workers, NEW s \in Subs, ChargeCandidate(w, s)
  PROVE  SubTurnInv'
<1> DEFINE p == [subWork[w] EXCEPT !.id = s, !.todo = @ \ {s}]
<1>1. PICK succeeded \in BOOLEAN :
          /\ ChargeToken(s, succeeded)
          /\ SubGo(w, IF succeeded THEN [p EXCEPT !.pc = "recover",
                                                  !.tx = recurring[s].charges + 1]
                      ELSE [p EXCEPT !.pc = "bump"])
  BY DEF ChargeCandidate
<1> DEFINE q == IF succeeded THEN [p EXCEPT !.pc = "recover", !.tx = recurring[s].charges + 1]
                ELSE [p EXCEPT !.pc = "bump"]
<1>2. /\ subWork[w] \in SubWorker /\ subWork[w].pc = "next" /\ s \in subWork[w].todo
      /\ Fresh(subWork[w], sub) /\ UNCHANGED sub
      /\ sub \in [Subs -> SubRow] /\ recurring \in [Subs -> SubGatewayRow]
  BY SubWorkerType DEF ChargeCandidate, SubAt, SubTurnInv, SubInv, DataTypes
<1>3. /\ recurring'[s].program = recurring[s].program
      /\ \A x \in Subs : x # s => recurring'[x] = recurring[x]
  BY <1>1, <1>2 DEF ChargeToken, SubGatewayRow
<1>4. /\ q.pc \in {"recover", "bump"} /\ q.id = s /\ q.docs = subWork[w].docs
      /\ q.todo = subWork[w].todo \ {s}
  BY <1>2 DEF SubWorker
<1>5. SubGo(w, q)
  BY <1>1
<1> HIDE DEF q, p
<1>6. sub[s].status = "past_due" /\ Agrees(subWork[w].docs[s], sub[s])
  BY <1>2 DEF Fresh
<1>7. Fresh(q, sub') /\ NoProgram(q, recurring')
  BY <1>2, <1>4, <1>6 DEF Fresh, NoProgram
<1>8. Running(recurring'[s]) => sub'[s].program /\ ~ sub'[s].atEnd
  BY <1>2, <1>3 DEF SubTurnInv, ProgramKnown, Running
<1> QED BY <1>2, <1>3, <1>5, <1>6, <1>7, <1>8, SaveTurn

LEMMA ServeTurn ==
  ASSUME SubInTurn, SubInv, SubTurnInv, NEW w \in Workers, Serve(w)
  PROVE  SubTurnInv'
<1>1. CASE Book(w)
  BY <1>1, IdleFresh, QuietTurn DEF Book, SubDone
<1>2. CASE EndJob(w)
  BY <1>2, IdleFresh, QuietTurn DEF EndJob, SubDone
<1>3. CASE BookRetry(w)
  <2>1. subWork[w].pc = "bookRetry" /\ GoNext(w) /\ UNCHANGED <<sub, recurring>>
    BY <1>3 DEF BookRetry, SubAt
  <2>2. PICK q : SubGo(w, q) /\ Fresh(q, sub') /\ NoProgram(q, recurring')
    BY <2>1, SubNextTurn
  <2>3. Fresh(q, sub) /\ NoProgram(q, recurring)
    BY <2>1, <2>2
  <2> QED BY <2>1, <2>2, <2>3, QuietTurn
<1> QED BY <1>1, <1>2, <1>3, SubCreateTurn, OpenPageTurn, SaveIdsTurn, StopTurn,
           SaveAtEndTurn, SaveFailureTurn, SaveCancelledTurn, BumpTurn, RenewTurn,
           ChargeTurn DEF Serve

LEMMA SubOutsideTurn ==
  ASSUME SubInv, SubTurnInv, NEW s \in Subs, Outside(s)
  PROVE  SubTurnInv'
<1>1. UNCHANGED subWork /\ recurring \in [Subs -> SubGatewayRow] /\ sub \in [Subs -> SubRow]
  BY DEF Outside, Pay, Renew, ChargeByProgram, Refuse, DashboardStop, Age, SubInv, DataTypes
<1>2. CASE Age(s)
  <2>1. /\ UNCHANGED recurring
        /\ \A x \in Subs : Agrees(sub'[x], sub[x])
    BY <1>1, <1>2 DEF Age, SubRow, Agrees
  <2>2. ASSUME NEW w \in Workers
        PROVE  Fresh(subWork'[w], sub')
    <3>1. Fresh(subWork[w], sub) /\ subWork[w] \in SubWorker /\ SubWorkerOK(subWork[w])
      BY SubWorkerType DEF SubTurnInv
    <3> QED BY <1>1, <2>1, <3>1 DEF Fresh, Agrees, SubWorker, SubWorkerOK
  <2> QED BY <1>1, <2>1, <2>2
          DEF SubTurnInv, ActiveIsClear, ProgramKnown, NoneBlank, Agrees
<1>3. CASE ~ Age(s)
  <2>1. /\ UNCHANGED sub
        /\ recurring[s].program \in {"page", "live"}
        /\ recurring'[s].program \in {"page", "live", "stopped"}
        /\ \A x \in Subs : x # s => recurring'[x] = recurring[x]
    BY <1>1, <1>3 DEF Outside, Pay, Renew, ChargeByProgram, Refuse, DashboardStop,
                      SubGatewayRow
  <2>2. \A x \in Subs : Running(recurring'[x]) => Running(recurring[x])
    BY <2>1 DEF Running
  <2>3. ProgramKnown'
    BY <2>1, <2>2 DEF SubTurnInv, ProgramKnown
  <2>4. NoneBlank'
    BY <2>1 DEF SubTurnInv, NoneBlank
  <2>5. ASSUME NEW w \in Workers
        PROVE  NoProgram(subWork'[w], recurring')
    BY <1>1, <2>2, SubWorkerType DEF SubTurnInv, NoProgram, SubWorkerOK
  <2> QED BY <1>1, <2>1, <2>3, <2>4, <2>5 DEF SubTurnInv, ActiveIsClear
<1> QED BY <1>2, <1>3

LEMMA SubTurnInvariance ==
  ASSUME SubInTurn
  PROVE  SubscriptionsSpec => []SubTurnInv
<1>1. SubscriptionsInit => SubTurnInv
  <2> SUFFICES ASSUME SubscriptionsInit
               PROVE  SubTurnInv
    OBVIOUS
  <2>1. \A s \in Subs : sub[s].status = "none" /\ recurring[s].program = "none"
                        /\ recurring[s].hooks = {} /\ recurring[s].refused = FALSE
    BY NoSubRowOK DEF SubscriptionsInit
  <2>2. \A w \in Workers : subWork[w] = SubIdle
    BY DEF SubscriptionsInit
  <2> QED BY <2>1, <2>2, IdleFresh
          DEF SubTurnInv, ActiveIsClear, ProgramKnown, NoneBlank, Running
<1>2. SubInv /\ SubTurnInv /\ [SubscriptionsNext]_subVars => SubTurnInv'
  <2> SUFFICES ASSUME SubInv, SubTurnInv, [SubscriptionsNext]_subVars
               PROVE  SubTurnInv'
    OBVIOUS
  <2>1. CASE UNCHANGED subVars
    BY <2>1 DEF subVars, SubTurnInv, ActiveIsClear, ProgramKnown, NoneBlank
  <2>2. CASE SubscriptionsNext
    BY <2>2, SubOutsideTurn, ReceiveTurn, ServeTurn DEF SubscriptionsNext
  <2> QED BY <2>1, <2>2
<1> QED BY <1>1, <1>2, SubInvariance, PTL DEF SubscriptionsSpec

\* An active subscription has all its attempts left, while the job and the
\* webhooks do not overlap: each save counts from the failures there are, and
\* each payment starts the count anew (onRecurringSuccess() of
\* GatewayService.ts, bumpFailure() of subscriptionRetry.job.ts).
THEOREM ActiveStartsAnew ==
  ASSUME SubInTurn
  PROVE  SubscriptionsSpec => []ActiveIsClear
<1>1. SubTurnInv => ActiveIsClear
  BY DEF SubTurnInv
<1> QED BY <1>1, SubTurnInvariance, PTL

\* Where a subscription is marked to end, no program charges any more, while
\* requests do not overlap: cancelSubscriptionForUser() finds every program
\* that has been opened, and marks the document only after it is stopped.
THEOREM CancellationStops ==
  ASSUME SubInTurn
  PROVE  SubscriptionsSpec => []CancelStopsProgram
<1>1. ProgramKnown => CancelStopsProgram
  BY DEF ProgramKnown, CancelStopsProgram, Running
<1>2. SubTurnInv => CancelStopsProgram
  BY <1>1 DEF SubTurnInv
<1> QED BY <1>2, SubTurnInvariance, PTL
=============================================================================
