---------------------------- MODULE MCEventRsvp ----------------------------
(* EventRsvp on small instances.                                           *)
EXTENDS EventRsvp, TLC

Symmetry == Permutations(Users) \cup Permutations(Requests)
=============================================================================
