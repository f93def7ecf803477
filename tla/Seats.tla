------------------------------- MODULE Seats -------------------------------
(***************************************************************************)
(* What an event with limited seats promises: a seat is granted only while *)
(* one is free, and any seat may be given back at any time.  EventRsvp is  *)
(* shown to implement it, with two meanings of "holder".                   *)
(***************************************************************************)
EXTENDS Naturals, FiniteSets

CONSTANTS Users, Unlimited

VARIABLES holders, capacity
seatVars == <<holders, capacity>>

Free == capacity = Unlimited \/ Cardinality(holders) < capacity

Grant(u) == Free /\ holders' = holders \cup {u}
GiveBack(S) == holders' = holders \ S

Init == holders = {}
Next ==
    /\ \/ \E u \in Users : Grant(u)
       \/ \E S \in SUBSET holders : GiveBack(S)
    /\ UNCHANGED capacity

Spec == Init /\ [][Next]_seatVars

\* Never more seats taken than the event has.
Within == capacity # Unlimited => Cardinality(holders) <= capacity
=============================================================================
