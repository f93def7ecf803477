----------------------------- MODULE MCSessions -----------------------------
(* Sessions on small instances.                                            *)
EXTENDS Sessions, TLC

Symmetry == Permutations(Tabs) \cup Permutations(Phones) \cup Permutations(Tokens)
            \cup Permutations(Workers)
=============================================================================
