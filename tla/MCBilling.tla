------------------------------ MODULE MCBilling ------------------------------
(***************************************************************************)
(* Event payments and subscriptions, one worker each: a behaviour is one   *)
(* of the two and leaves the other as it is.  Neither's fairness asks for  *)
(* anything of a part that has not begun.                                  *)
(***************************************************************************)
EXTENDS Payments, Subscriptions

VARIABLE part

paymentVars == <<payment, owner, rows, metrics, gateway, work>>
subscriptionVars == <<sub, booked, recurring, subWork>>
allVars == <<part, paymentVars, subscriptionVars>>

NoPayments ==
    /\ Init
    /\ rows = [u \in Members |-> NoRsvpRow]

AllInit ==
    /\ SubscriptionsInit
    /\ \/ part = "subscriptions" /\ NoPayments
       \/ part = "payments" /\ Init
AllNext ==
    /\ UNCHANGED part
    /\ \/ part = "subscriptions" /\ SubscriptionsNext /\ UNCHANGED paymentVars
       \/ part = "payments" /\ Next /\ UNCHANGED subscriptionVars
AllSpec == AllInit /\ [][AllNext]_allVars /\ SubscriptionsFairness /\ Fairness
=============================================================================
