------------------------------- MODULE Serving -------------------------------
(***************************************************************************)
(* The requests an Express server has under way: each is served by a       *)
(* worker, and every await of its handler is a step of its own.  The       *)
(* modules of services that extend this one have names of their own, so    *)
(* that they can be extended together.                                     *)
(***************************************************************************)
EXTENDS Naturals, FiniteSets

CONSTANTS
    Workers,    \* requests served at a time
    Pools       \* the sets of workers a behaviour may have

ASSUME WorkersFinite == IsFiniteSet(Workers)
ASSUME PoolsAssumption == Pools \subseteq SUBSET Workers

VARIABLES
    pool,    \* the workers there are
    sent     \* requests begun
=============================================================================
