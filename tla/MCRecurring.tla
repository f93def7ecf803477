----------------------------- MODULE MCRecurring -----------------------------
(***************************************************************************)
(* A series for every combination of frequency, interval, weekdays and end.*)
(***************************************************************************)
EXTENDS Recurring

SmallRules == [freq : Freq, interval : 1..2, byDay : {{}, {1, 3}}, endType : EndType, limit : {3}]
=============================================================================
