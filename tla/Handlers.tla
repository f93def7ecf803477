------------------------------ MODULE Handlers ------------------------------
(***************************************************************************)
(* What serves requests, webhooks and runs of jobs about money: Payments   *)
(* and Subscriptions extend this module and have names of their own, so    *)
(* that they can be extended together.                                     *)
(***************************************************************************)
CONSTANTS
    Workers    \* requests, webhooks and job runs served at a time
=============================================================================
