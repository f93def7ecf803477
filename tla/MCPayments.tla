----------------------------- MODULE MCPayments -----------------------------
(* Payments on small instances.                                            *)
EXTENDS Payments, TLC

Symmetry == Permutations(Members) \cup Permutations(Payments) \cup Permutations(Workers)
=============================================================================
