------------------------------- MODULE Reports -------------------------------
(***************************************************************************)
(* The figures that a community's administrators read: computeFinancials() *)
(* of backend/src/services/payment.service.ts and the curve of growth in   *)
(* backend/src/controllers/admin.controller.ts.                            *)
(*                                                                         *)
(* A report is several queries, each on the rows as they are by then: those *)
(* of the finances run at once and end in any order, those of growth one   *)
(* after the other.  Meanwhile payments are made and given back, and       *)
(* members come and go.                                                    *)
(*                                                                         *)
(* The figures of subscriptions and of coming events are sums over other   *)
(* rows and left out.  The server's clock is UTC, as in its container, so  *)
(* that the months of its dates are those of the database.                 *)
(***************************************************************************)
EXTENDS Integers, FiniteSets, FiniteSetsExt

CONSTANTS
    Payments, Events, NoEvent,
    Bars,         \* months of the series: 6 in the code
    People,
    Prices,       \* amounts that are paid
    LastMonth,    \* bound: months that pass
    MaxMoves      \* bound: changes of memberships

ReportsAssumption ==
    /\ NoEvent \notin Events
    /\ IsFiniteSet(Payments) /\ IsFiniteSet(Events) /\ IsFiniteSet(People)
    /\ Prices \subseteq Nat \ {0} /\ Prices # {} /\ IsFiniteSet(Prices)
    /\ Bars \in Nat \ {0} /\ LastMonth \in Nat /\ MaxMoves \in Nat

VARIABLES
    paid,      \* the Payment documents
    month,     \* the month it is
    finances,  \* the report of the finances: what it has read
    moved,     \* cents booked and given back while it is read
    joins,     \* the Membership documents: status, and joinedAt within 90 days
    growth,    \* the report of growth
    moves      \* changes of memberships, and how many since that report was begun
vars == <<paid, month, finances, moved, joins, growth, moves>>

Amounts == 0..Max(Prices)
PaidRow == [status : {"none", "pending", "succeeded", "partial_refund", "refunded"},
            amount : Amounts, refunded : Amounts,
            event : Events \cup {NoEvent}, created : 0..LastMonth]
NoRow == [status |-> "none", amount |-> 0, refunded |-> 0, event |-> NoEvent, created |-> 0]

Cents == 0..Max(Prices) * Cardinality(Payments)
NoFinances == [left |-> {}, now |-> 0, total |-> 0, month |-> 0,
               events |-> [e \in Events |-> 0], series |-> [i \in 0..Bars - 1 |-> 0]]

Queries == {"total", "month", "events", "series"}

NoJoin == [status |-> "none", recent |-> FALSE]

TypeOK ==
    /\ paid \in [Payments -> PaidRow]
    /\ month \in 0..LastMonth
    /\ finances \in [left : SUBSET Queries, now : 0..LastMonth, total : Cents, month : Cents,
                     events : [Events -> Cents], series : [0..Bars - 1 -> Cents]]
    /\ moved \in 0..2 * Max(Prices) * Cardinality(Payments)
    /\ joins \in [People -> [status : {"none", "pending", "active"}, recent : BOOLEAN]]
    /\ growth \in [pc : {"days", "total", "read"}, joined : 0..Cardinality(People),
                   total : 0..Cardinality(People), pending : 0..Cardinality(People)]
    /\ moves \in [all : 0..MaxMoves, since : 0..MaxMoves]

Init ==
    /\ paid = [p \in Payments |-> NoRow]
    /\ month = 0
    /\ finances = NoFinances
    /\ moved = 0
    /\ joins = [u \in People |-> NoJoin]
    /\ growth = [pc |-> "read", joined |-> 0, total |-> 0, pending |-> 0]
    /\ moves = [all |-> 0, since |-> 0]

ownPayments == <<paid, month, finances, moved>>
ownPeople == <<joins, growth, moves>>

-----------------------------------------------------------------------------
(* Payments                                                                *)

\* What a payment adds to a sum.
Net(r) == IF r.status \in {"succeeded", "partial_refund"} THEN r.amount - r.refunded ELSE 0
Sum(ps) == SumFunctionOnSet([p \in Payments |-> Net(paid[p])], ps)

Becomes(p, r) ==
    /\ paid' = [paid EXCEPT ![p] = r]
    /\ moved' = IF finances.left = {} THEN moved
                ELSE IF Net(r) > Net(paid[p]) THEN moved + Net(r) - Net(paid[p])
                ELSE moved + Net(paid[p]) - Net(r)

\* A checkout makes the row; it keeps that month when it succeeds.
Checkout(p) ==
    /\ paid[p].status = "none"
    /\ \E a \in Prices, e \in Events :
          Becomes(p, [NoRow EXCEPT !.status = "pending", !.amount = a, !.event = e,
                                   !.created = month])
    /\ UNCHANGED <<month, finances, ownPeople>>

Succeed(p) ==
    /\ paid[p].status = "pending"
    /\ Becomes(p, [paid[p] EXCEPT !.status = "succeeded"])
    /\ UNCHANGED <<month, finances, ownPeople>>

\* A charge of a subscription is booked at once, and for no event.
Renew(p) ==
    /\ paid[p].status = "none"
    /\ \E a \in Prices :
          Becomes(p, [NoRow EXCEPT !.status = "succeeded", !.amount = a, !.created = month])
    /\ UNCHANGED <<month, finances, ownPeople>>

Refund(p) ==
    /\ Net(paid[p]) > 0
    /\ \E back \in 1..Net(paid[p]) :
          LET refunded == paid[p].refunded + back IN
          Becomes(p, [paid[p] EXCEPT !.refunded = refunded,
                        !.status = IF refunded >= paid[p].amount THEN "refunded"
                                   ELSE "partial_refund"])
    /\ UNCHANGED <<month, finances, ownPeople>>

MonthPasses ==
    /\ month < LastMonth
    /\ month' = month + 1
    /\ UNCHANGED <<paid, finances, moved, ownPeople>>

-----------------------------------------------------------------------------
(* computeFinancials(): `now` is taken once; nothing bounds a sum at its end *)

BeginFinances ==
    /\ finances = NoFinances
    /\ finances' = [NoFinances EXCEPT !.left = Queries, !.now = month]
    /\ moved' = 0
    /\ UNCHANGED <<paid, month, ownPeople>>

Since(m) == Sum({p \in Payments : paid[p].created >= m})

\* Mutant of OfEvent: what a full refund has emptied counts as paid.
OfEventPaid(e) ==
    SumFunctionOnSet([p \in Payments |-> IF paid[p].status = "refunded" THEN paid[p].amount
                                        ELSE Net(paid[p])],
                     {p \in Payments : paid[p].event = e})

OfEvent(e) == Sum({p \in Payments : paid[p].event = e})

\* The bars, the newest at 0: a month without payments has none.
Series(now) == [i \in 0..Bars - 1 |-> Sum({p \in Payments : paid[p].created = now - i})]

Read(q) ==
    /\ q \in finances.left
    /\ finances' = [finances EXCEPT !.left = @ \ {q},
         !.total = IF q = "total" THEN Sum(Payments) ELSE @,
         !.month = IF q = "month" THEN Since(finances.now) ELSE @,
         !.events = IF q = "events" THEN [e \in Events |-> OfEvent(e)] ELSE @,
         !.series = IF q = "series" THEN Series(finances.now) ELSE @]
    /\ UNCHANGED <<paid, month, moved, ownPeople>>

AnswerFinances ==
    /\ finances # NoFinances /\ finances.left = {}
    /\ finances' = NoFinances /\ moved' = 0
    /\ UNCHANGED <<paid, month, ownPeople>>

\* The headline of the last n months.
LastBars(n) == SumFunctionOnSet(finances.series, 0..n - 1)

-----------------------------------------------------------------------------
(* Memberships and their growth                                            *)

Is(status) == {u \in People : joins[u].status = status}
Recent == {u \in People : joins[u].recent}

Move(u, r) ==
    /\ moves.all < MaxMoves
    /\ joins' = [joins EXCEPT ![u] = r]
    /\ moves' = [all |-> moves.all + 1, since |-> moves.since + 1]
    /\ UNCHANGED <<growth, ownPayments>>

\* joinedAt is set when the row is made, and again by an approval; an
\* invitation that is accepted activates a row that waits and leaves it.
Join(u) == /\ joins[u] = NoJoin
           /\ \E s \in {"active", "pending"} : Move(u, [status |-> s, recent |-> TRUE])
Approve(u) == /\ joins[u].status = "pending"
              /\ \E recent \in {TRUE, joins[u].recent} :
                    Move(u, [status |-> "active", recent |-> recent])
Leave(u) == joins[u] # NoJoin /\ Move(u, NoJoin)
Age(u) == joins[u].recent /\ Move(u, [joins[u] EXCEPT !.recent = FALSE])

BeginGrowth ==
    /\ growth.pc = "read"
    /\ growth' = [pc |-> "days", joined |-> 0, total |-> 0, pending |-> 0]
    /\ moves' = [moves EXCEPT !.since = 0]
    /\ UNCHANGED <<joins, ownPayments>>

\* Those who wait for approval count as joined.
ReadDays ==
    /\ growth.pc = "days"
    /\ growth' = [growth EXCEPT !.pc = "total",
                    !.joined = Cardinality(Recent \cap (Is("active") \cup Is("pending"))),
                    !.pending = Cardinality(Is("pending"))]
    /\ UNCHANGED <<joins, moves, ownPayments>>

ReadTotal ==
    /\ growth.pc = "total"
    /\ growth' = [growth EXCEPT !.pc = "read", !.total = Cardinality(Is("active"))]
    /\ UNCHANGED <<joins, moves, ownPayments>>

\* Where the curve begins, and where it ends.
CurveBegins == IF growth.total > growth.joined THEN growth.total - growth.joined ELSE 0
CurveEnds == CurveBegins + growth.joined

-----------------------------------------------------------------------------
Next ==
    \/ \E p \in Payments : Checkout(p) \/ Succeed(p) \/ Renew(p) \/ Refund(p)
    \/ MonthPasses \/ BeginFinances \/ AnswerFinances
    \/ \E q \in Queries : Read(q)
    \/ \E u \in People : Join(u) \/ Approve(u) \/ Leave(u) \/ Age(u)
    \/ BeginGrowth \/ ReadDays \/ ReadTotal

Spec == Init /\ [][Next]_vars

-----------------------------------------------------------------------------
(* Properties                                                              *)

\* The figures of one report differ by no more than what was booked or given
\* back since it was begun: the month's by the newest bar, and neither the bars
\* nor the events come to more than the total (payment.service.ts:148).
FinancesAgree ==
    finances.left = {} =>
       /\ finances.month <= finances.series[0] + moved
       /\ finances.series[0] <= finances.month + moved
       /\ \A n \in 1..Bars : LastBars(n) <= finances.total + moved
       /\ SumFunctionOnSet(finances.events, Events) <= finances.total + moved

\* The curve of growth ends at the number of members, but for those who waited
\* for approval and those who came or left since the report was begun
\* (admin.controller.ts:141).
CurveEndsAtMembers ==
    growth.pc = "read" =>
       /\ CurveEnds >= growth.total
       /\ CurveEnds <= growth.total + growth.pending + moves.since

FiguresAgree == FinancesAgree /\ CurveEndsAtMembers
=============================================================================
