-------------------------------- MODULE Plans --------------------------------
(***************************************************************************)
(* A member's own view of a subscription: the pages SubscriptionPlans,     *)
(* ManageSubscription and CancelSubscription of web/src/features/payments, *)
(* the requests they make, and listMySubscriptions() of                    *)
(* backend/src/services/payment.service.ts.                                *)
(*                                                                         *)
(* What webhooks and the retry job do is told in Subscriptions; here each  *)
(* is one step.  A request is several, and may go on after the page has    *)
(* given up waiting.  Any other page counts as the one of the memberships.  *)
(***************************************************************************)
EXTENDS Naturals, FiniteSets

CONSTANTS
    MaxSubs,    \* bound: subscriptions of the member
    MaxCalls    \* bound: presses of a button

PlansAssumption == MaxSubs \in Nat /\ MaxCalls \in Nat

VARIABLES
    sub,        \* the Subscription documents
    program,    \* what PayPlus runs for each
    charged,    \* those it has charged for at least once
    tab,        \* the member's page
    call,       \* the requests, in the order they are sent
    gaveUp,     \* those the retry job has ended, their program running on
    crossed     \* two checkouts have passed the check of the other's row
vars == <<sub, program, charged, tab, call, gaveUp, crossed>>

Subs == 1..MaxSubs
PlanCalls == 1..MaxCalls

Sub == [status : {"none", "incomplete", "active", "past_due", "cancelled"},
        ids : BOOLEAN,      \* gatewaySubscriptionId is set
        ends : BOOLEAN,     \* cancelAtPeriodEnd
        ahead : BOOLEAN]    \* currentPeriodEnd is to come
NoSub == [status |-> "none", ids |-> FALSE, ends |-> FALSE, ahead |-> FALSE]

\* Of one, the page of memberships has a button to cancel it, or says that it ends.
Shown == {"cancellable", "ends", "neither"}

Shows(row) ==
    IF row.ends THEN "ends" ELSE IF row.status = "active" THEN "cancellable" ELSE "neither"

NoCall == [pc |-> "none", of |-> 0, leads |-> FALSE]
Over == [NoCall EXCEPT !.pc = "done"]

TypeOK ==
    /\ sub \in [Subs -> Sub]
    /\ program \in [Subs -> {"none", "page", "live", "stopped"}]
    /\ charged \in SUBSET Subs
    /\ tab \in [at : {"plans", "payplus", "list", "cancel", "scheduled"},
                of : 0..MaxSubs, list : [Subs -> Shown], waits : 0..MaxCalls]
    /\ call \in [PlanCalls -> [pc : {"none", "check", "create", "open", "save", "link",
                                 "load", "stop", "mark", "ok", "error", "done"},
                           of : 0..MaxSubs,
                           leads : BOOLEAN]]   \* away from wherever the member is
    /\ gaveUp \in SUBSET Subs /\ crossed \in BOOLEAN

Init ==
    /\ sub = [s \in Subs |-> NoSub]
    /\ program = [s \in Subs |-> "none"]
    /\ charged = {}
    /\ tab = [at |-> "list", of |-> 0, list |-> [s \in Subs |-> "neither"],
              waits |-> 0]
    /\ call = [n \in PlanCalls |-> NoCall]
    /\ gaveUp = {} /\ crossed = FALSE

server == <<sub, program, charged, gaveUp, crossed>>

-----------------------------------------------------------------------------
(* The pages                                                               *)

Turn(at, s) == tab' = [tab EXCEPT !.at = at, !.of = s, !.waits = 0]

Open(at) ==
    /\ tab.at # at /\ at \in {"plans", "list"}
    /\ Turn(at, 0)
    /\ UNCHANGED <<server, call>>

\* listMySubscriptions()
Listed(s) ==
    \/ sub[s].status \in {"active", "past_due", "incomplete"}
    \/ sub[s].status = "cancelled" /\ sub[s].ahead

\* What is cached stays on the page until it is asked for again.
Load ==
    /\ tab.at \in {"list", "cancel", "scheduled"}
    /\ tab' = [tab EXCEPT !.list =
                  [s \in Subs |-> IF Listed(s) THEN Shows(sub[s]) ELSE "neither"]]
    /\ UNCHANGED <<server, call>>

\* "Ends", not "Renews".
SaysEnds(s) == tab.list[s] = "ends"
\* "Cancellation scheduled. [...] No further charges [...]."
SaysScheduled(s) == tab.at = "scheduled" /\ tab.of = s

\* The link is there for an active subscription only.
ToCancel(s) ==
    /\ tab.at = "list" /\ tab.list[s] = "cancellable"
    /\ Turn("cancel", s)
    /\ UNCHANGED <<server, call>>

\* A button waits for its answer.
Send(pc) ==
    /\ tab.waits = 0
    /\ \E n \in PlanCalls :
          /\ call[n].pc = "none" /\ \A i \in 1..n - 1 : call[i].pc # "none"
          /\ call' = [call EXCEPT ![n] =
                          [pc |-> pc, of |-> tab.of, leads |-> pc = "check"]]
          /\ tab' = [tab EXCEPT !.waits = n]
    /\ UNCHANGED server

Subscribe == tab.at = "plans" /\ Send("check")
Cancel == tab.at = "cancel" /\ Send("load")

End(n) == call' = [call EXCEPT ![n] = Over]

\* go(): to PayPlus's page, wherever the member is by then.
Redirect(n) ==
    /\ call[n].pc = "link"
    /\ IF call[n].leads THEN Turn("payplus", call[n].of) ELSE UNCHANGED tab
    /\ End(n) /\ UNCHANGED server

\* confirm(): the page tells it, if it is still there.
Confirm(n) ==
    /\ call[n].pc = "ok"
    /\ IF tab.waits = n THEN Turn("scheduled", call[n].of) ELSE UNCHANGED tab
    /\ End(n) /\ UNCHANGED server

Settled(n) == tab' = [tab EXCEPT !.waits = IF @ = n THEN 0 ELSE @]

Error(n) ==
    /\ call[n].pc = "error"
    /\ Settled(n) /\ End(n) /\ UNCHANGED server

Timeout(n) ==
    /\ call[n].leads \/ tab.waits = n
    /\ call[n].pc # "error"
    /\ call' = [call EXCEPT ![n].leads = FALSE]
    /\ Settled(n) /\ UNCHANGED server

-----------------------------------------------------------------------------
(* createSubscription()                                                    *)

To(n, pc) == call' = [call EXCEPT ![n].pc = pc]

Check(n) ==
    /\ call[n].pc = "check"
    /\ IF \E s \in Subs : sub[s].status \in {"active", "past_due", "incomplete"}
       THEN To(n, "error") /\ UNCHANGED crossed
       ELSE /\ To(n, "create")
            /\ crossed' = (crossed \/ \E m \in PlanCalls : call[m].pc = "create")
    /\ UNCHANGED <<sub, program, charged, gaveUp, tab>>

Create(n) ==
    /\ call[n].pc = "create"
    /\ \E s \in Subs :
          /\ sub[s].status = "none" /\ \A r \in 1..s - 1 : sub[r].status # "none"
          /\ sub' = [sub EXCEPT ![s].status = "incomplete"]
          /\ call' = [call EXCEPT ![n].pc = "open", ![n].of = s]
    /\ UNCHANGED <<program, charged, gaveUp, crossed, tab>>

\* createRecurring() may fail, or its answer be lost, and the row stays.
OpenPage(n) ==
    /\ call[n].pc = "open"
    /\ program' \in {program, [program EXCEPT ![call[n].of] = "page"]}
    /\ \/ To(n, "error")
       \/ program' # program /\ To(n, "save")
    /\ UNCHANGED <<sub, charged, gaveUp, crossed, tab>>

SaveIds(n) ==
    /\ call[n].pc = "save"
    /\ sub' = [sub EXCEPT ![call[n].of].ids = TRUE]
    /\ To(n, "link")
    /\ UNCHANGED <<program, charged, gaveUp, crossed, tab>>

-----------------------------------------------------------------------------
(* cancelSubscriptionForUser()                                             *)

\* A cancelled subscription is answered for at once.
LoadSub(n) ==
    LET s == sub[call[n].of] IN
    /\ call[n].pc = "load"
    /\ To(n, IF s.status = "cancelled" THEN "ok" ELSE IF s.ids THEN "stop" ELSE "mark")
    /\ UNCHANGED <<server, tab>>

\* cancelRecurring() may fail, or its answer be lost.
Stop(n) ==
    /\ call[n].pc = "stop"
    /\ \/ /\ program' = [program EXCEPT ![call[n].of] = "stopped"]
          /\ To(n, "mark") \/ To(n, "error")
       \/ UNCHANGED program /\ To(n, "error")
    /\ UNCHANGED <<sub, charged, gaveUp, crossed, tab>>

Mark(n) ==
    /\ call[n].pc = "mark"
    /\ sub' = [sub EXCEPT ![call[n].of].ends = TRUE]
    /\ To(n, "ok")
    /\ UNCHANGED <<program, charged, gaveUp, crossed, tab>>

-----------------------------------------------------------------------------
(* PayPlus, its notices, and the job                                       *)

Pay ==
    /\ tab.at = "payplus" /\ program[tab.of] = "page"
    /\ program' = [program EXCEPT ![tab.of] = "live"]
    /\ charged' = charged \cup {tab.of}
    /\ UNCHANGED <<sub, gaveUp, crossed, tab, call>>

DashboardStop(s) ==
    /\ program[s] = "live"
    /\ program' = [program EXCEPT ![s] = "stopped"]
    /\ UNCHANGED <<sub, charged, gaveUp, crossed, tab, call>>

Notified(s, row, ended) ==
    /\ sub[s] # row
    /\ sub' = [sub EXCEPT ![s] = row]
    /\ gaveUp' = gaveUp \cup ended
    /\ UNCHANGED <<program, charged, crossed, tab, call>>

\* Skipped while the period is far from its end; late, and after the end, too.
Success(s) ==
    /\ s \in charged /\ ~ sub[s].ahead
    /\ Notified(s, [sub[s] EXCEPT !.status = "active", !.ahead = TRUE], {})

Failure(s) ==
    /\ program[s] = "live" /\ sub[s].status # "cancelled"
    /\ Notified(s, [sub[s] EXCEPT !.status = "past_due"], {})

Cancelled(s) ==
    /\ program[s] = "stopped"
    /\ Notified(s, [sub[s] EXCEPT !.status = "cancelled"], {})

\* The job charges the saved card, or ends the subscription but not the program.
Retry(s) ==
    /\ sub[s].status = "past_due"
    /\ \/ Notified(s, [sub[s] EXCEPT !.status = "active", !.ahead = TRUE], {})
       \/ Notified(s, [sub[s] EXCEPT !.status = "cancelled"], {s})

PeriodEnds(s) == Notified(s, [sub[s] EXCEPT !.ahead = FALSE], {})

-----------------------------------------------------------------------------
Next ==
    \/ \E at \in {"plans", "list"} : Open(at)
    \/ Load \/ Subscribe \/ Cancel \/ Pay
    \/ \E n \in PlanCalls :
          Redirect(n) \/ Confirm(n) \/ Error(n) \/ Timeout(n) \/ Check(n) \/ Create(n)
          \/ OpenPage(n) \/ SaveIds(n) \/ LoadSub(n) \/ Stop(n) \/ Mark(n)
    \/ \E s \in Subs :
          ToCancel(s) \/ DashboardStop(s) \/ Success(s) \/ Failure(s) \/ Cancelled(s)
          \/ Retry(s) \/ PeriodEnds(s)

Spec == Init /\ [][Next]_vars

-----------------------------------------------------------------------------
(* Properties                                                              *)

\* Whoever is told that a cancellation is scheduled, or sees when a subscription
\* ends, is not charged by its program any more; unless the retry job has ended
\* it before, which nobody tells PayPlus (CancelSubscriptionScreen.tsx:37,
\* ManageSubscriptionScreen.tsx:81, subscriptionRetry.job.ts:113).
EndIsTrue ==
    \A s \in Subs :
        /\ SaysEnds(s) => program[s] # "live"
        /\ SaysScheduled(s) => (program[s] # "live" \/ s \in gaveUp)

\* Whoever is charged by a program finds it on the page of memberships, but for
\* one the job has ended (payment.service.ts:53).
ChargedIsListed ==
    \A s \in Subs : program[s] = "live" => (Listed(s) \/ s \in gaveUp)

\* A member has one program at a time, unless the job has ended one or two
\* checkouts crossed between the check and the row (GatewayService.ts:165).
OneProgram ==
    ~ crossed => Cardinality({s \in Subs \ gaveUp : program[s] \in {"page", "live"}}) <= 1

PlansHold == EndIsTrue /\ ChargedIsListed /\ OneProgram
=============================================================================
