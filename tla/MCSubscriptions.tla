-------------------------- MODULE MCSubscriptions --------------------------
(* Subscriptions on small instances.                                       *)
EXTENDS Subscriptions
=============================================================================
