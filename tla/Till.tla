-------------------------------- MODULE Till --------------------------------
(***************************************************************************)
(* Giving money back, from an administrator's page to PayPlus: the dialog  *)
(* of web/src/features/payments/IssueRefundScreen.tsx, the page that       *)
(* confirms it, their hooks in lib/queries.ts, and issueRefund() behind    *)
(* backend/src/controllers/payment.controller.ts.                          *)
(*                                                                         *)
(* There is one payment, and it has succeeded.  The page computes what is  *)
(* left of it from the row as last seen.  A request may overlap others of  *)
(* the same or another browser.  The browser waits 12 s for it, the server *)
(* 15 s for PayPlus: a refund may be made that the page believes to have   *)
(* failed.  The member's RSVP is left to Payments; no refund window is set. *)
(***************************************************************************)
EXTENDS Naturals, FiniteSets

CONSTANTS
    Browsers, NoBrowser,
    Price,        \* payment.amountCents
    MaxPresses    \* bound: refunds asked for

TillAssumption == Price \in Nat \ {0} /\ MaxPresses \in Nat /\ NoBrowser \notin Browsers

VARIABLES
    refunded,   \* payment.refundedAmountCents
    returned,   \* what PayPlus has given back, and what it reports
    page,       \* each browser's page
    asked       \* the requests, in the order they are sent
vars == <<refunded, returned, page, asked>>

Cents == 0..Price
Presses == 1..MaxPresses
Unknown == Price + 1   \* the payment is not in the cache

Page == [at : {"elsewhere", "form", "dialog", "issued"},
         seen : Cents \cup {Unknown},    \* refundedAmountCents as cached
         amount : Cents,                 \* entered; 0: a full refund
         waits : 0..MaxPresses,          \* the request the form waits for
         visit : 0..MaxPresses]          \* requests sent before the form was opened
Away == [at |-> "elsewhere", seen |-> Unknown, amount |-> 0, waits |-> 0, visit |-> 0]

Request == [pc : {"none", "check", "ask", "save", "ok", "error", "told", "failed"},
            by : Browsers \cup {NoBrowser},
            full : BOOLEAN,
            amount : Cents,    \* of a partial refund, later of any
            loaded : Cents,    \* refundedAmountCents as loaded
            awaited : BOOLEAN, \* by the browser
            shown : Cents,     \* the dialog's figure
            gave : Cents,      \* what PayPlus gave back for it
            visit : 0..MaxPresses]
NoRequest == [pc |-> "none", by |-> NoBrowser, full |-> FALSE, amount |-> 0, loaded |-> 0,
              awaited |-> FALSE, shown |-> 0, gave |-> 0, visit |-> 0]

TypeOK ==
    /\ refunded \in Cents
    /\ returned \in [total : Cents, notices : SUBSET Cents]
    /\ page \in [Browsers -> Page]
    /\ asked \in [Presses -> Request]

Init ==
    /\ refunded = 0
    /\ returned = [total |-> 0, notices |-> {}]
    /\ page = [b \in Browsers |-> Away]
    /\ asked = [n \in Presses |-> NoRequest]

-----------------------------------------------------------------------------
(* The page                                                                *)

Sent == {n \in Presses : asked[n].pc # "none"}
Turn(b, p) == page' = [page EXCEPT ![b] = p]
Stays == UNCHANGED <<refunded, returned, asked>>

\* A page that is opened has fields of its own; the payment may be cached.
Open(b) ==
    /\ page[b].at = "elsewhere"
    /\ \E seen \in {page[b].seen, Unknown} :
          Turn(b, [Away EXCEPT !.at = "form", !.seen = seen, !.visit = Cardinality(Sent)])
    /\ Stays

Leave(b) ==
    /\ page[b].at # "elsewhere"
    /\ Turn(b, [page[b] EXCEPT !.at = "elsewhere", !.waits = 0])
    /\ Stays

\* usePayment(), on opening and again once a refund was issued.
Load(b) ==
    /\ page[b].at \in {"form", "dialog"}
    /\ Turn(b, [page[b] EXCEPT !.seen = refunded])
    /\ Stays

\* refundCents
Figure(p) == IF p.seen = Unknown THEN 0 ELSE IF p.amount = 0 THEN Price - p.seen ELSE p.amount

\* The mode and, for a partial refund, the amount are entered before.
Confirm(b) ==
    /\ page[b].at = "form" /\ page[b].waits = 0
    /\ \E amount \in Cents :
          LET p == [page[b] EXCEPT !.at = "dialog", !.amount = amount] IN
          Figure(p) > 0 /\ Turn(b, p)
    /\ Stays

Dismiss(b) ==
    /\ page[b].at = "dialog"
    /\ Turn(b, [page[b] EXCEPT !.at = "form"])
    /\ Stays

\* A full refund sends no amount.
Press(b) ==
    LET p == page[b]
        n == Cardinality(Sent) + 1 IN
    /\ p.at = "dialog" /\ p.waits = 0 /\ n \in Presses
    /\ asked' = [asked EXCEPT ![n] =
                    [NoRequest EXCEPT !.pc = "check", !.by = b, !.full = p.amount = 0,
                                      !.amount = p.amount, !.awaited = TRUE,
                                      !.shown = Figure(p), !.visit = p.visit]]
    /\ Turn(b, [p EXCEPT !.waits = n])
    /\ UNCHANGED <<refunded, returned>>

-----------------------------------------------------------------------------
(* issueRefund()                                                           *)

Becomes(n, q) == asked' = [asked EXCEPT ![n] = q]
To(n, pc) == Becomes(n, [asked[n] EXCEPT !.pc = pc])

Check(n) ==
    LET q == asked[n]
        remaining == Price - refunded
        amount == IF q.full THEN remaining ELSE q.amount IN
    /\ q.pc = "check"
    /\ IF amount \in 1..remaining
       THEN Becomes(n, [q EXCEPT !.pc = "ask", !.amount = amount, !.loaded = refunded])
       ELSE To(n, "error")
    /\ UNCHANGED <<refunded, returned, page>>

\* PayPlus gives no more back than was paid; it may refuse, and its answer may
\* come too late.
Give(n) ==
    LET q == asked[n] IN
    /\ q.pc = "ask" /\ returned.total + q.amount <= Price
    /\ returned' = [total |-> returned.total + q.amount,
                    notices |-> returned.notices \cup {q.amount}]
    /\ \E pc \in {"save", "error"} : Becomes(n, [q EXCEPT !.pc = pc, !.gave = q.amount])
    /\ UNCHANGED <<refunded, page>>

Refuse(n) ==
    /\ asked[n].pc = "ask" /\ To(n, "error")
    /\ UNCHANGED <<refunded, returned, page>>

\* The document is saved as it was loaded.
Save(n) ==
    /\ asked[n].pc = "save"
    /\ refunded' = asked[n].loaded + asked[n].amount
    /\ To(n, "ok")
    /\ UNCHANGED <<returned, page>>

Crash(n) ==
    /\ asked[n].pc = "save" /\ To(n, "error")
    /\ UNCHANGED <<refunded, returned, page>>

\* A refund made in PayPlus's own dashboard.
Return(amount) ==
    /\ amount > 0 /\ returned.total + amount <= Price
    /\ returned' = [total |-> returned.total + amount, notices |-> returned.notices \cup {amount}]
    /\ UNCHANGED <<refunded, page, asked>>

\* refund_success
Notice(amount) ==
    /\ amount \in returned.notices /\ amount > refunded
    /\ refunded' = amount
    /\ UNCHANGED <<returned, page, asked>>

-----------------------------------------------------------------------------
(* submit(), once the answer is there                                      *)

Settled(n) == [page[asked[n].by] EXCEPT !.waits = IF @ = n THEN 0 ELSE @]

\* nav() leads to the confirmation, wherever the administrator is by then.
Answer(n) ==
    /\ asked[n].pc = "ok" /\ asked[n].awaited
    /\ To(n, "told")
    /\ Turn(asked[n].by, [Settled(n) EXCEPT !.at = "issued", !.visit = n])
    /\ UNCHANGED <<refunded, returned>>

\* The dialog stays open, with the fields as they were.
Error(n) ==
    /\ asked[n].pc = "error" /\ asked[n].awaited
    /\ To(n, "failed")
    /\ Turn(asked[n].by, Settled(n))
    /\ UNCHANGED <<refunded, returned>>

Timeout(n) ==
    /\ asked[n].pc \in {"check", "ask", "save", "ok"} /\ asked[n].awaited
    /\ Becomes(n, [asked[n] EXCEPT !.awaited = FALSE])
    /\ Turn(asked[n].by, Settled(n))
    /\ UNCHANGED <<refunded, returned>>

\* "... has been refunded to the member"
Claim(n) == IF asked[n].full THEN Price ELSE asked[n].amount

-----------------------------------------------------------------------------
Next ==
    \/ \E b \in Browsers : Open(b) \/ Leave(b) \/ Load(b) \/ Confirm(b) \/ Dismiss(b) \/ Press(b)
    \/ \E n \in Presses : Check(n) \/ Give(n) \/ Refuse(n) \/ Save(n) \/ Crash(n)
                          \/ Answer(n) \/ Error(n) \/ Timeout(n)
    \/ \E amount \in Cents : Return(amount) \/ Notice(amount)

Spec == Init /\ [][Next]_vars

-----------------------------------------------------------------------------
(* Properties                                                              *)

\* A press returns no more than the dialog has shown, however old what it shows
\* and whatever overlaps (IssueRefundScreen.tsx:34, GatewayService.ts:275).
NoMoreThanShown == \A n \in Presses : asked[n].gave <= asked[n].shown

\* The confirmation is true: the sum it names was returned for this request, or,
\* where it names the price, by all of them (IssueRefundScreen.tsx:60).
ConfirmationTrue ==
    \A b \in Browsers : page[b].at = "issued" =>
        LET n == page[b].visit IN
        IF asked[n].full THEN returned.total = Claim(n) ELSE asked[n].gave = Claim(n)

\* Whoever opens the page once gives money back once, unless he believes that a
\* refund has failed and asks for a partial one, before or after
\* (IssueRefundScreen.tsx:57).
OncePerVisit ==
    \A n, m \in Presses :
        /\ n < m /\ asked[n].visit = asked[m].visit /\ asked[n].by = asked[m].by
        /\ asked[n].gave > 0 /\ asked[m].gave > 0
        => asked[n].pc # "told" /\ ~ (asked[n].full /\ asked[m].full)

RefundsAsAsked == NoMoreThanShown /\ ConfirmationTrue /\ OncePerVisit
=============================================================================
