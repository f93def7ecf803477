---------------------------- MODULE ScreensProofs ----------------------------
(***************************************************************************)
(* Theorems about the web client's screens, for any number of browsers,    *)
(* calls, communities and requests: each part of MCScreens, an instance    *)
(* there.                                                                  *)
(***************************************************************************)
EXTENDS MCScreens, Sequences, FiniteSetTheorems, SequenceTheorems, TLAPS

-----------------------------------------------------------------------------
(* Paid membership: the inductive invariant of Plans                       *)

\* PayPlus has, or had, the member's card for it.
Running(s) == program[s] \in {"live", "stopped"}
\* Nothing will charge it any more but the retry job.
Ended(s) == program[s] = "stopped" \/ s \in gaveUp
\* It counts for the check of a new checkout.
Taken(s) == sub[s].status # "none" /\ ~ Ended(s)

SubOK(s) ==
    /\ s \in charged <=> Running(s)
    /\ s \in charged => sub[s].ids
    /\ sub[s].ids => sub[s].status # "none"
    /\ sub[s].status \in {"active", "past_due", "cancelled"} => s \in charged
    /\ sub[s].status = "none" => program[s] = "none"
    /\ sub[s].status = "cancelled" => Ended(s)
    /\ sub[s].ends => program[s] = "stopped"
    /\ planPage.list[s] = "cancellable" => s \in charged
    /\ planPage.list[s] = "ends" => sub[s].ends

PlanPageOK ==
    /\ planPage.at \in {"cancel", "scheduled"} => planPage.of \in charged
    /\ planPage.at = "scheduled" => Ended(planPage.of)
    /\ planPage.at = "payplus" => planPage.of \in P!Subs /\ sub[planPage.of].ids

PlanCallOK(n) ==
    LET s == planCall[n].of
        pc == planCall[n].pc
    IN /\ pc \in {"open", "save", "link"} => s \in P!Subs /\ sub[s].status # "none"
       /\ pc = "open" => program[s] = "none" /\ ~ sub[s].ids
       /\ pc = "save" => program[s] = "page" /\ ~ sub[s].ids
       /\ pc = "link" => sub[s].ids
       /\ pc \in {"load", "stop", "mark", "ok"} => s \in charged
       /\ pc = "mark" => program[s] = "stopped"
       /\ pc = "ok" => Ended(s)

\* Each checkout makes a row of its own.
OwnRows ==
    \A n, m \in P!PlanCalls :
        /\ planCall[n].pc \in {"open", "save"} /\ planCall[m].pc \in {"open", "save"}
        /\ planCall[n].of = planCall[m].of
        => n = m

OneCheckout ==
    ~ crossed =>
        /\ \A n, m \in P!PlanCalls :
              planCall[n].pc = "create" /\ planCall[m].pc = "create" => n = m
        /\ (\E n \in P!PlanCalls : planCall[n].pc = "create") => \A s \in P!Subs : ~ Taken(s)
        /\ \A s, r \in P!Subs : Taken(s) /\ Taken(r) => s = r

PlansInv ==
    /\ P!TypeOK
    /\ \A s \in P!Subs : SubOK(s)
    /\ PlanPageOK
    /\ \A n \in P!PlanCalls : PlanCallOK(n)
    /\ OwnRows
    /\ OneCheckout

\* What a page or a request is.
PlanPageType == [at : {"plans", "payplus", "list", "cancel", "scheduled"},
                 of : 0..MaxSubs, list : [P!Subs -> P!Shown], waits : 0..MaxCalls]
PlanCallType == [pc : {"none", "check", "create", "open", "save", "link",
                       "load", "stop", "mark", "ok", "error", "done"},
                 of : 0..MaxSubs, leads : BOOLEAN]

LEMMA PlansTypes ==
  P!TypeOK <=>
    /\ sub \in [P!Subs -> P!Sub]
    /\ program \in [P!Subs -> {"none", "page", "live", "stopped"}]
    /\ charged \in SUBSET P!Subs /\ planPage \in PlanPageType
    /\ planCall \in [P!PlanCalls -> PlanCallType]
    /\ gaveUp \in SUBSET P!Subs /\ crossed \in BOOLEAN
BY DEF P!TypeOK, PlanPageType, PlanCallType

LEMMA PlanBounds ==
  /\ MaxSubs \in Nat /\ MaxCalls \in Nat
  /\ P!Subs \subseteq 0..MaxSubs /\ P!PlanCalls \subseteq 0..MaxCalls
BY PartsAssumption DEF P!PlansAssumption, P!Subs, P!PlanCalls

LEMMA PlansInit == P!Init => PlansInv
<1> SUFFICES ASSUME P!Init PROVE PlansInv
  OBVIOUS
<1>1. /\ sub = [s \in P!Subs |-> P!NoSub] /\ program = [s \in P!Subs |-> "none"]
      /\ charged = {} /\ gaveUp = {} /\ crossed = FALSE
      /\ planCall = [n \in P!PlanCalls |-> P!NoCall]
  BY DEF P!Init
<1>2. PICK list : list = [s \in P!Subs |-> "neither"]
  OBVIOUS
<1>3. planPage = [at |-> "list", of |-> 0, list |-> list, waits |-> 0]
  BY <1>2 DEF P!Init
<1>4. P!NoSub \in P!Sub /\ P!NoCall \in PlanCallType
  BY PlanBounds DEF P!NoSub, P!Sub, P!NoCall, PlanCallType
<1>5. list \in [P!Subs -> P!Shown]
  BY <1>2 DEF P!Shown
<1>6. planPage \in PlanPageType
  BY <1>3, <1>5, PlanBounds DEF PlanPageType
<1>7. P!TypeOK
  BY <1>1, <1>4, <1>6, PlansTypes
<1>8. \A s \in P!Subs : SubOK(s)
  BY <1>1, <1>2, <1>3 DEF SubOK, Running, Ended, P!NoSub
<1>9. \A n \in P!PlanCalls : planCall[n].pc = "none"
  BY <1>1 DEF P!NoCall
<1>10. \A n \in P!PlanCalls : PlanCallOK(n)
  BY <1>9 DEF PlanCallOK
<1>11. OwnRows
  BY <1>9 DEF OwnRows
<1>12. \A s \in P!Subs : ~ Taken(s)
  BY <1>1 DEF Taken, P!NoSub
<1>13. OneCheckout
  BY <1>9, <1>12 DEF OneCheckout
<1>14. PlanPageOK
  BY <1>3 DEF PlanPageOK
<1> QED BY <1>7, <1>8, <1>10, <1>11, <1>13, <1>14 DEF PlansInv

\* What changes no row, program or charge.
LEMMA PlansPages ==
  ASSUME PlansInv, UNCHANGED <<sub, program, charged, gaveUp, crossed>>,
         planPage' \in PlanPageType,
         \A s \in P!Subs : /\ planPage'.list[s] = "cancellable" => s \in charged
                           /\ planPage'.list[s] = "ends" => sub[s].ends,
         PlanPageOK',
         planCall' \in [P!PlanCalls -> PlanCallType],
         \A n \in P!PlanCalls : planCall'[n] = planCall[n] \/ PlanCallOK(n)',
         \A n \in P!PlanCalls :
            /\ planCall'[n].pc = "create" => planCall[n].pc = "create"
            /\ planCall'[n].pc \in {"open", "save"} =>
                  planCall[n].pc \in {"open", "save"} /\ planCall[n].of = planCall'[n].of
  PROVE  PlansInv'
<1>1. P!TypeOK'
  BY PlansTypes DEF PlansInv, P!TypeOK, PlanPageType, PlanCallType
<1>2. \A s \in P!Subs : SubOK(s)'
  BY DEF PlansInv, SubOK, Running, Ended
<1>3. \A n \in P!PlanCalls : PlanCallOK(n)'
  BY DEF PlansInv, PlanCallOK, Ended
<1>4. OwnRows'
  BY DEF PlansInv, OwnRows
<1>5. OneCheckout'
  BY DEF PlansInv, OneCheckout, Taken, Ended
<1> QED BY <1>1, <1>2, <1>3, <1>4, <1>5 DEF PlansInv

\* The parts of PlansInv that the steps below read.
LEMMA PlansAre ==
  ASSUME PlansInv
  PROVE  /\ sub \in [P!Subs -> P!Sub] /\ planPage \in PlanPageType
         /\ planCall \in [P!PlanCalls -> PlanCallType]
         /\ program \in [P!Subs -> {"none", "page", "live", "stopped"}]
         /\ charged \in SUBSET P!Subs /\ gaveUp \in SUBSET P!Subs /\ crossed \in BOOLEAN
         /\ \A s \in P!Subs : SubOK(s)
         /\ PlanPageOK
         /\ \A n \in P!PlanCalls : PlanCallOK(n)
BY PlansTypes DEF PlansInv

\* Where Turn() leads.
LEMMA PlansTurned ==
  ASSUME planPage \in PlanPageType,
         NEW at \in {"plans", "payplus", "list", "cancel", "scheduled"}, NEW s \in 0..MaxSubs,
         P!Turn(at, s)
  PROVE  /\ planPage' \in PlanPageType /\ planPage'.list = planPage.list
         /\ planPage'.at = at /\ planPage'.of = s
<1>1. PICK L : L = [P!Subs -> P!Shown]
  OBVIOUS
<1>2. PlanPageType = [at : {"plans", "payplus", "list", "cancel", "scheduled"},
                      of : 0..MaxSubs, list : L, waits : 0..MaxCalls]
  BY <1>1 DEF PlanPageType
<1>3. 0 \in 0..MaxCalls
  BY PlanBounds
<1>4. planPage' = [planPage EXCEPT !.at = at, !.of = s, !.waits = 0]
  BY DEF P!Turn
<1> QED BY <1>2, <1>3, <1>4

LEMMA PlansOpen ==
  ASSUME PlansInv, NEW at, P!Open(at)  PROVE PlansInv'
<1>1. P!Turn(at, 0) /\ at \in {"plans", "list"}
  BY DEF P!Open
<1>2. UNCHANGED <<sub, program, charged, gaveUp, crossed, planCall>>
  BY DEF P!Open, P!server
<1>3. planPage' \in PlanPageType /\ planPage'.list = planPage.list /\ planPage'.at = at
  BY <1>1, PlansAre, PlansTurned, PlanBounds
<1>4. PlanPageOK'
  BY <1>1, <1>3 DEF PlanPageOK
<1> QED BY <1>2, <1>3, <1>4, PlansAre, PlansPages DEF SubOK

LEMMA PlansLoad ==
  ASSUME PlansInv, P!Load  PROVE PlansInv'
<1>1. PICK list : list = [s \in P!Subs |-> IF P!Listed(s) THEN P!Shows(sub[s]) ELSE "neither"]
  OBVIOUS
<1>2. planPage' = [planPage EXCEPT !.list = list]
  BY <1>1 DEF P!Load
<1>3. UNCHANGED <<sub, program, charged, gaveUp, crossed, planCall>>
  BY DEF P!Load, P!server
<1>4. list \in [P!Subs -> P!Shown]
  BY <1>1 DEF P!Shown, P!Shows
<1>5. /\ planPage' \in PlanPageType /\ planPage'.list = list
      /\ planPage'.at = planPage.at /\ planPage'.of = planPage.of
  BY <1>2, <1>4, PlansAre DEF PlanPageType
<1>6. \A s \in P!Subs : /\ list[s] = "cancellable" => s \in charged
                        /\ list[s] = "ends" => sub[s].ends
  BY <1>1, PlansAre DEF P!Shows, SubOK
<1>7. PlanPageOK'
  BY <1>3, <1>5, PlansAre DEF PlanPageOK, Ended
<1> QED BY <1>3, <1>5, <1>6, <1>7, PlansAre, PlansPages

LEMMA PlansToCancel ==
  ASSUME PlansInv, NEW s \in P!Subs, P!ToCancel(s)  PROVE PlansInv'
<1>1. P!Turn("cancel", s)
  BY DEF P!ToCancel
<1>2. UNCHANGED <<sub, program, charged, gaveUp, crossed, planCall>>
  BY DEF P!ToCancel, P!server
<1>3. s \in charged
  BY PlansAre DEF P!ToCancel, SubOK
<1>4. /\ planPage' \in PlanPageType /\ planPage'.list = planPage.list
      /\ planPage'.at = "cancel" /\ planPage'.of = s
  BY <1>1, PlansAre, PlansTurned, PlanBounds
<1>5. PlanPageOK'
  BY <1>2, <1>3, <1>4 DEF PlanPageOK
<1> QED BY <1>2, <1>4, <1>5, PlansAre, PlansPages DEF SubOK

LEMMA PlansSend ==
  ASSUME PlansInv, NEW pc, P!Send(pc),
         pc = "check" \/ (pc = "load" /\ planPage.at = "cancel")
  PROVE  PlansInv'
<1>1. PICK n \in P!PlanCalls :
         /\ planCall' = [planCall EXCEPT ![n] =
                            [pc |-> pc, of |-> planPage.of, leads |-> pc = "check"]]
         /\ planPage' = [planPage EXCEPT !.waits = n]
  BY DEF P!Send
<1>2. UNCHANGED <<sub, program, charged, gaveUp, crossed>>
  BY DEF P!Send, P!server
<1>3. PICK c : c = [pc |-> pc, of |-> planPage.of, leads |-> pc = "check"]
  OBVIOUS
<1>4. c \in PlanCallType /\ c.pc \in {"check", "load"} /\ c.of = planPage.of /\ c.pc = pc
  BY <1>3, PlansAre DEF PlanCallType, PlanPageType
<1>5. planCall' = [planCall EXCEPT ![n] = c]
  BY <1>1, <1>3
<1>6. /\ planPage' \in PlanPageType /\ planPage'.list = planPage.list
      /\ planPage'.at = planPage.at /\ planPage'.of = planPage.of
  BY <1>1, PlansAre, PlanBounds DEF PlanPageType
<1>7. PlanPageOK'
  BY <1>2, <1>6, PlansAre DEF PlanPageOK, Ended
<1>8. planCall' \in [P!PlanCalls -> PlanCallType]
  BY <1>4, <1>5, PlansAre
<1>9. planCall'[n] = c /\ \A m \in P!PlanCalls : m # n => planCall'[m] = planCall[m]
  BY <1>5, PlansAre
<1>10. PlanCallOK(n)'
  BY <1>2, <1>4, <1>9, PlansAre DEF PlanCallOK, PlanPageOK
<1>11. \A m \in P!PlanCalls : planCall'[m] = planCall[m] \/ PlanCallOK(m)'
  BY <1>9, <1>10
<1>12. \A m \in P!PlanCalls :
          /\ planCall'[m].pc = "create" => planCall[m].pc = "create"
          /\ planCall'[m].pc \in {"open", "save"} =>
                planCall[m].pc \in {"open", "save"} /\ planCall[m].of = planCall'[m].of
  BY <1>4, <1>9
<1> QED BY <1>2, <1>6, <1>7, <1>8, <1>11, <1>12, PlansAre, PlansPages DEF SubOK

\* A request that goes on to pc, or is over, with the page as it is.
LEMMA PlansTo ==
  ASSUME PlansInv, NEW n \in P!PlanCalls, NEW c \in PlanCallType,
         planCall' = [planCall EXCEPT ![n] = c],
         UNCHANGED <<sub, program, charged, gaveUp, crossed>>,
         planPage' \in PlanPageType, planPage'.list = planPage.list, PlanPageOK',
         c.pc \notin {"create", "open", "save"} \/ (c.pc = planCall[n].pc /\ c.of = planCall[n].of),
         PlanCallOK(n)'
  PROVE  PlansInv'
<1>1. planCall' \in [P!PlanCalls -> PlanCallType]
  BY PlansAre
<1>2. planCall'[n] = c /\ \A m \in P!PlanCalls : m # n => planCall'[m] = planCall[m]
  BY PlansAre
<1>3. \A m \in P!PlanCalls : planCall'[m] = planCall[m] \/ PlanCallOK(m)'
  BY <1>2
<1>4. \A m \in P!PlanCalls :
          /\ planCall'[m].pc = "create" => planCall[m].pc = "create"
          /\ planCall'[m].pc \in {"open", "save"} =>
                planCall[m].pc \in {"open", "save"} /\ planCall[m].of = planCall'[m].of
  BY <1>2
<1>5. \A s \in P!Subs : /\ planPage'.list[s] = "cancellable" => s \in charged
                        /\ planPage'.list[s] = "ends" => sub[s].ends
  BY PlansAre DEF SubOK
<1> QED BY <1>1, <1>3, <1>4, <1>5, PlansPages

LEMMA PlansOver == P!Over \in PlanCallType /\ P!Over.pc = "done"
<1>1. PICK c : c = P!NoCall
  OBVIOUS
<1>2. 0 \in 0..MaxSubs
  BY PlanBounds
<1>3. c \in PlanCallType
  BY <1>1, <1>2 DEF P!NoCall, PlanCallType
<1>4. P!Over = [c EXCEPT !.pc = "done"]
  BY <1>1 DEF P!Over
<1> QED BY <1>3, <1>4 DEF PlanCallType

LEMMA PlansSettled ==
  ASSUME PlansInv, NEW n, P!Settled(n)
  PROVE  /\ planPage' \in PlanPageType /\ planPage'.list = planPage.list
         /\ planPage'.at = planPage.at /\ planPage'.of = planPage.of
<1>1. PICK waits \in 0..MaxCalls : planPage' = [planPage EXCEPT !.waits = waits]
  <2>1. planPage.waits \in 0..MaxCalls /\ 0 \in 0..MaxCalls
    BY PlansAre, PlanBounds DEF PlanPageType
  <2> QED BY <2>1 DEF P!Settled
<1>2. planPage \in PlanPageType
  BY PlansAre
<1> QED BY <1>1, <1>2 DEF PlanPageType

LEMMA PlansRedirect ==
  ASSUME PlansInv, NEW n \in P!PlanCalls, P!Redirect(n)  PROVE PlansInv'
<1>1. /\ planCall' = [planCall EXCEPT ![n] = P!Over] /\ planCall[n].pc = "link"
      /\ UNCHANGED <<sub, program, charged, gaveUp, crossed>>
  BY DEF P!Redirect, P!End, P!server
<1>2. planCall[n].of \in P!Subs /\ sub[planCall[n].of].ids
  BY <1>1, PlansAre DEF PlanCallOK
<1>3. PlanCallOK(n)'
  BY <1>1, PlansAre, PlansOver DEF PlanCallOK
<1>4. planPage' \in PlanPageType /\ planPage'.list = planPage.list /\ PlanPageOK'
  <2>1. CASE planPage' = planPage
    BY <1>1, <2>1, PlansAre DEF PlanPageOK, Ended
  <2>2. CASE P!Turn("payplus", planCall[n].of)
    <3>1. /\ planPage' \in PlanPageType /\ planPage'.list = planPage.list
          /\ planPage'.at = "payplus" /\ planPage'.of = planCall[n].of
      BY <1>2, <2>2, PlansAre, PlansTurned, PlanBounds
    <3> QED BY <1>1, <1>2, <3>1 DEF PlanPageOK
  <2> QED BY <2>1, <2>2 DEF P!Redirect
<1> QED BY <1>1, <1>3, <1>4, PlansOver, PlansTo

LEMMA PlansConfirm ==
  ASSUME PlansInv, NEW n \in P!PlanCalls, P!Confirm(n)  PROVE PlansInv'
<1>1. /\ planCall' = [planCall EXCEPT ![n] = P!Over] /\ planCall[n].pc = "ok"
      /\ UNCHANGED <<sub, program, charged, gaveUp, crossed>>
  BY DEF P!Confirm, P!End, P!server
<1>2. planCall[n].of \in charged /\ Ended(planCall[n].of)
  BY <1>1, PlansAre DEF PlanCallOK
<1>3. PlanCallOK(n)'
  BY <1>1, PlansAre, PlansOver DEF PlanCallOK
<1>4. planPage' \in PlanPageType /\ planPage'.list = planPage.list /\ PlanPageOK'
  <2>1. CASE planPage' = planPage
    BY <1>1, <2>1, PlansAre DEF PlanPageOK, Ended
  <2>2. CASE P!Turn("scheduled", planCall[n].of)
    <3>0. planCall[n].of \in 0..MaxSubs
      BY <1>2, PlansAre, PlanBounds
    <3>1. /\ planPage' \in PlanPageType /\ planPage'.list = planPage.list
          /\ planPage'.at = "scheduled" /\ planPage'.of = planCall[n].of
      BY <2>2, <3>0, PlansAre, PlansTurned
    <3> QED BY <1>1, <1>2, <3>1 DEF PlanPageOK, Ended
  <2> QED BY <2>1, <2>2 DEF P!Confirm
<1> QED BY <1>1, <1>3, <1>4, PlansOver, PlansTo

LEMMA PlansError ==
  ASSUME PlansInv, NEW n \in P!PlanCalls, P!Error(n)  PROVE PlansInv'
<1>1. /\ planCall' = [planCall EXCEPT ![n] = P!Over] /\ P!Settled(n)
      /\ UNCHANGED <<sub, program, charged, gaveUp, crossed>>
  BY DEF P!Error, P!End, P!server
<1>2. PlanCallOK(n)'
  BY <1>1, PlansAre, PlansOver DEF PlanCallOK
<1>3. PlanPageOK'
  BY <1>1, PlansAre, PlansSettled DEF PlanPageOK, Ended
<1> QED BY <1>1, <1>2, <1>3, PlansOver, PlansSettled, PlansTo

LEMMA PlansTimeout ==
  ASSUME PlansInv, NEW n \in P!PlanCalls, P!Timeout(n)  PROVE PlansInv'
<1>1. PICK c : c = [planCall[n] EXCEPT !.leads = FALSE]
  OBVIOUS
<1>2. c \in PlanCallType /\ c.pc = planCall[n].pc /\ c.of = planCall[n].of
  BY <1>1, PlansAre DEF PlanCallType
<1>3. /\ planCall' = [planCall EXCEPT ![n] = c] /\ P!Settled(n)
      /\ UNCHANGED <<sub, program, charged, gaveUp, crossed>>
  BY <1>1, PlansAre DEF P!Timeout, P!server
<1>4. PlanCallOK(n)'
  BY <1>2, <1>3, PlansAre DEF PlanCallOK, Ended
<1>5. PlanPageOK'
  BY <1>3, PlansAre, PlansSettled DEF PlanPageOK, Ended
<1> QED BY <1>2, <1>3, <1>4, <1>5, PlansSettled, PlansTo

\* Step of a request by To(n, pc).
LEMMA PlansGone ==
  ASSUME PlansInv, NEW n \in P!PlanCalls, NEW pc, P!To(n, pc),
         [planCall[n] EXCEPT !.pc = pc] \in PlanCallType
  PROVE  /\ planCall' \in [P!PlanCalls -> PlanCallType]
         /\ planCall'[n].pc = pc /\ planCall'[n].of = planCall[n].of
         /\ \A m \in P!PlanCalls : m # n => planCall'[m] = planCall[m]
<1>1. planCall[n] \in PlanCallType
  BY PlansAre
<1>2. PICK c : c = [planCall[n] EXCEPT !.pc = pc]
  OBVIOUS
<1>3. c.pc = pc /\ c.of = planCall[n].of
  BY <1>1, <1>2 DEF PlanCallType
<1>4. planCall' = [planCall EXCEPT ![n] = c]
  BY <1>2, PlansAre DEF P!To
<1> QED BY <1>2, <1>3, <1>4, PlansAre

LEMMA PlansTogether ==
  ASSUME sub' \in [P!Subs -> P!Sub], planPage' \in PlanPageType,
         planCall' \in [P!PlanCalls -> PlanCallType],
         program' \in [P!Subs -> {"none", "page", "live", "stopped"}],
         charged' \in SUBSET P!Subs, gaveUp' \in SUBSET P!Subs, crossed' \in BOOLEAN,
         \A s \in P!Subs : SubOK(s)', PlanPageOK',
         \A n \in P!PlanCalls : PlanCallOK(n)', OwnRows', OneCheckout'
  PROVE  PlansInv'
<1>1. P!TypeOK'
  BY DEF P!TypeOK, PlanPageType, PlanCallType
<1> QED BY <1>1 DEF PlansInv

\* The name of a step of a request.
LEMMA PlansPc ==
  ASSUME PlansInv, NEW n \in P!PlanCalls,
         NEW pc \in {"none", "check", "create", "open", "save", "link",
                     "load", "stop", "mark", "ok", "error", "done"}
  PROVE  [planCall[n] EXCEPT !.pc = pc] \in PlanCallType
BY PlansAre DEF PlanCallType

LEMMA PlansCheck ==
  ASSUME PlansInv, NEW n \in P!PlanCalls, P!Check(n)  PROVE PlansInv'
<1>1. PICK pc \in {"error", "create"} : P!To(n, pc)
  BY DEF P!Check
<1>2. UNCHANGED <<sub, program, charged, gaveUp, planPage>>
  BY DEF P!Check
<1>3. /\ planCall' \in [P!PlanCalls -> PlanCallType]
      /\ planCall'[n].pc = pc /\ planCall'[n].of = planCall[n].of
      /\ \A m \in P!PlanCalls : m # n => planCall'[m] = planCall[m]
  BY <1>1, PlansPc, PlansGone
<1>4. PlanCallOK(n)'
  BY <1>1, <1>3 DEF PlanCallOK
<1>5. \A m \in P!PlanCalls : PlanCallOK(m)'
  BY <1>2, <1>3, <1>4, PlansAre DEF PlanCallOK, Ended
<1>6. OwnRows'
  BY <1>1, <1>3 DEF PlansInv, OwnRows
<1>7. CASE \E s \in P!Subs : sub[s].status \in {"active", "past_due", "incomplete"}
  <2>1. UNCHANGED crossed /\ P!To(n, "error")
    BY <1>7 DEF P!Check
  <2>2. planCall'[n].pc = "error"
    BY <2>1, PlansPc, PlansGone
  <2>3. OneCheckout'
    BY <1>2, <1>3, <2>1, <2>2 DEF PlansInv, OneCheckout, Taken, Ended
  <2> QED BY <1>2, <1>3, <1>5, <1>6, <2>1, <2>3, PlansAre, PlansTogether
             DEF SubOK, Running, Ended, PlanPageOK
<1>8. CASE ~ \E s \in P!Subs : sub[s].status \in {"active", "past_due", "incomplete"}
  <2>1. PICK b \in BOOLEAN : b <=> (crossed \/ \E m \in P!PlanCalls : planCall[m].pc = "create")
    OBVIOUS
  <2>2. crossed' = b
    BY <1>8, <2>1 DEF P!Check
  <2>3. \A s \in P!Subs : ~ Taken(s)
    BY <1>8, PlansAre DEF Taken, SubOK, P!Sub
  <2>4. OneCheckout'
    <3>1. \A s \in P!Subs : ~ Taken(s)'
      BY <1>2, <2>3 DEF Taken, Ended
    <3>2. ~ crossed' => \A m \in P!PlanCalls : m # n => planCall'[m].pc # "create"
      BY <1>3, <2>1, <2>2
    <3> QED BY <3>1, <3>2 DEF OneCheckout
  <2> QED BY <1>2, <1>3, <1>5, <1>6, <2>2, <2>4, PlansAre, PlansTogether
             DEF SubOK, Running, Ended, PlanPageOK
<1> QED BY <1>7, <1>8

LEMMA PlansCreate ==
  ASSUME PlansInv, NEW n \in P!PlanCalls, P!Create(n)  PROVE PlansInv'
<1>1. PICK s \in P!Subs :
         /\ sub[s].status = "none"
         /\ sub' = [sub EXCEPT ![s].status = "incomplete"]
         /\ planCall' = [planCall EXCEPT ![n].pc = "open", ![n].of = s]
  BY DEF P!Create
<1>2. UNCHANGED <<program, charged, gaveUp, crossed, planPage>> /\ planCall[n].pc = "create"
  BY DEF P!Create
<1>3. PICK row : row = [sub[s] EXCEPT !.status = "incomplete"]
  OBVIOUS
<1>4. row \in P!Sub /\ row.status = "incomplete" /\ row.ids = sub[s].ids /\ row.ends = sub[s].ends
  BY <1>3, PlansAre DEF P!Sub
<1>5. sub' = [sub EXCEPT ![s] = row]
  BY <1>1, <1>3, PlansAre
<1>6. sub' \in [P!Subs -> P!Sub] /\ sub'[s] = row /\ \A r \in P!Subs : r # s => sub'[r] = sub[r]
  BY <1>4, <1>5, PlansAre
<1>7. PICK c : c = [planCall[n] EXCEPT !.pc = "open", !.of = s]
  OBVIOUS
<1>8. c \in PlanCallType /\ c.pc = "open" /\ c.of = s
  BY <1>7, PlansAre, PlanBounds DEF PlanCallType
<1>9. planCall' = [planCall EXCEPT ![n] = c]
  BY <1>1, <1>7, PlansAre
<1>10. /\ planCall' \in [P!PlanCalls -> PlanCallType] /\ planCall'[n] = c
       /\ \A m \in P!PlanCalls : m # n => planCall'[m] = planCall[m]
  BY <1>8, <1>9, PlansAre
<1>11. program[s] = "none" /\ s \notin charged /\ ~ sub[s].ids /\ ~ sub[s].ends
  BY <1>1, PlansAre DEF SubOK, Running
<1>12. \A r \in P!Subs : SubOK(r)'
  BY <1>2, <1>4, <1>6, <1>11, PlansAre DEF SubOK, Running, Ended
<1>13. PlanPageOK'
  BY <1>2, <1>4, <1>6, PlansAre DEF PlanPageOK, Ended
<1>14. \A m \in P!PlanCalls : PlanCallOK(m)'
  <2>1. PlanCallOK(n)'
    BY <1>2, <1>4, <1>6, <1>8, <1>10, <1>11 DEF PlanCallOK
  <2>2. ASSUME NEW m \in P!PlanCalls, m # n  PROVE PlanCallOK(m)'
    BY <1>1, <1>2, <1>4, <1>6, <1>10, <2>2, PlansAre DEF PlanCallOK, Ended
  <2> QED BY <2>1, <2>2
<1>15. OwnRows'
  <2>1. \A m \in P!PlanCalls : m # n /\ planCall'[m].pc \in {"open", "save"} => planCall'[m].of # s
    BY <1>1, <1>10, PlansAre DEF PlanCallOK
  <2> QED BY <1>8, <1>10, <2>1 DEF PlansInv, OwnRows
<1>16. OneCheckout'
  <2> SUFFICES ASSUME ~ crossed PROVE OneCheckout'
    BY <1>2 DEF OneCheckout
  <2>1. \A m \in P!PlanCalls : planCall'[m].pc # "create"
    BY <1>2, <1>8, <1>10 DEF PlansInv, OneCheckout
  <2>2. \A r \in P!Subs : ~ Taken(r)
    BY <1>2 DEF PlansInv, OneCheckout
  <2>3. \A r \in P!Subs : Taken(r)' => r = s
    BY <1>2, <1>6, <2>2 DEF Taken, Ended
  <2> QED BY <2>1, <2>3 DEF OneCheckout
<1> QED BY <1>2, <1>6, <1>10, <1>12, <1>13, <1>14, <1>15, <1>16, PlansAre, PlansTogether

\* A program is made, stopped, or fails to be; the rows stay.
LEMMA PlansPrograms ==
  ASSUME PlansInv, NEW s \in P!Subs, NEW how \in {"page", "stopped"},
         program' = [program EXCEPT ![s] = how],
         how = "page" => program[s] = "none" /\ sub[s].status # "none" /\ ~ sub[s].ids,
         how = "stopped" => s \in charged,
         UNCHANGED <<sub, charged, gaveUp, crossed>>,
         planPage' \in PlanPageType, planPage' = planPage
  PROVE  /\ program' \in [P!Subs -> {"none", "page", "live", "stopped"}]
         /\ \A r \in P!Subs : SubOK(r)' /\ (Ended(r) => Ended(r)') /\ (Taken(r)' => Taken(r))
         /\ PlanPageOK'
<1>1. /\ program' \in [P!Subs -> {"none", "page", "live", "stopped"}] /\ program'[s] = how
      /\ \A r \in P!Subs : r # s => program'[r] = program[r]
  BY PlansAre
<1>2. \A r \in P!Subs : (Ended(r) => Ended(r)') /\ (Taken(r)' => Taken(r))
  BY <1>1 DEF Ended, Taken
<1>3. ASSUME NEW r \in P!Subs  PROVE SubOK(r)'
  <2>1. SubOK(r)
    BY PlansAre
  <2>2. CASE r # s
    BY <1>1, <2>1, <2>2 DEF SubOK, Running, Ended
  <2>3. CASE r = s
    BY <1>1, <2>1, <2>3 DEF SubOK, Running, Ended
  <2> QED BY <2>2, <2>3
<1>4. PlanPageOK'
  BY <1>1, PlansAre DEF PlanPageOK, Ended
<1> QED BY <1>1, <1>2, <1>3, <1>4

LEMMA PlansOpenPage ==
  ASSUME PlansInv, NEW n \in P!PlanCalls, P!OpenPage(n)  PROVE PlansInv'
<1> DEFINE s == planCall[n].of
<1>1. /\ planCall[n].pc = "open"
      /\ UNCHANGED <<sub, charged, gaveUp, crossed, planPage>>
      /\ program' = program \/ program' = [program EXCEPT ![s] = "page"]
  BY DEF P!OpenPage
<1>2. s \in P!Subs /\ sub[s].status # "none" /\ program[s] = "none" /\ ~ sub[s].ids
  BY <1>1, PlansAre DEF PlanCallOK
<1>3. PICK pc \in {"error", "save"} : P!To(n, pc) /\ (pc = "save" => program' # program)
  BY DEF P!OpenPage
<1>4. /\ planCall' \in [P!PlanCalls -> PlanCallType]
      /\ planCall'[n].pc = pc /\ planCall'[n].of = s
      /\ \A m \in P!PlanCalls : m # n => planCall'[m] = planCall[m]
  BY <1>3, PlansPc, PlansGone
<1>5. /\ program' \in [P!Subs -> {"none", "page", "live", "stopped"}]
      /\ \A r \in P!Subs : SubOK(r)' /\ (Ended(r) => Ended(r)') /\ (Taken(r)' => Taken(r))
      /\ PlanPageOK'
  <2>1. CASE program' = program
    BY <1>1, <2>1, PlansAre DEF SubOK, Running, Ended, Taken, PlanPageOK
  <2>2. CASE program' = [program EXCEPT ![s] = "page"]
    <3> HIDE DEF s
    <3> QED BY <1>1, <1>2, <2>2, PlansAre, PlansPrograms
  <2> QED BY <1>1, <2>1, <2>2
<1>6. \A r \in P!Subs : r # s => program'[r] = program[r]
  BY <1>1, PlansAre
<1>7. PlanCallOK(n)'
  BY <1>1, <1>2, <1>3, <1>4, PlansAre DEF PlanCallOK
<1>8. ASSUME NEW m \in P!PlanCalls, m # n  PROVE PlanCallOK(m)'
  <2>1. PlanCallOK(m)
    BY PlansAre
  <2>2. planCall[m].pc \in {"open", "save"} => planCall[m].of # s
    BY <1>1, <1>8 DEF PlansInv, OwnRows
  <2>3. planCall[m].of \in charged => planCall[m].of # s
    BY <1>2, PlansAre DEF SubOK
  <2> QED BY <1>1, <1>4, <1>6, <1>8, <2>1, <2>2, <2>3, PlansAre DEF PlanCallOK, Ended
<1>9. OwnRows'
  BY <1>1, <1>3, <1>4 DEF PlansInv, OwnRows
<1>10. OneCheckout'
  BY <1>1, <1>3, <1>4, <1>5 DEF PlansInv, OneCheckout
<1>11. \A m \in P!PlanCalls : PlanCallOK(m)'
  BY <1>7, <1>8
<1> QED BY <1>1, <1>4, <1>5, <1>9, <1>10, <1>11, PlansAre, PlansTogether

LEMMA PlansSaveIds ==
  ASSUME PlansInv, NEW n \in P!PlanCalls, P!SaveIds(n)  PROVE PlansInv'
<1> DEFINE s == planCall[n].of
<1>1. /\ planCall[n].pc = "save" /\ UNCHANGED <<program, charged, gaveUp, crossed, planPage>>
      /\ sub' = [sub EXCEPT ![s].ids = TRUE] /\ P!To(n, "link")
  BY DEF P!SaveIds
<1>2. s \in P!Subs /\ sub[s].status # "none" /\ program[s] = "page" /\ ~ sub[s].ids
  BY <1>1, PlansAre DEF PlanCallOK
<1>3. PICK row : row = [sub[s] EXCEPT !.ids = TRUE]
  OBVIOUS
<1>4. row \in P!Sub /\ row.status = sub[s].status /\ row.ids /\ row.ends = sub[s].ends
  BY <1>2, <1>3, PlansAre DEF P!Sub
<1>5. sub' = [sub EXCEPT ![s] = row]
  BY <1>1, <1>2, <1>3, PlansAre
<1>6. sub' \in [P!Subs -> P!Sub] /\ sub'[s] = row /\ \A r \in P!Subs : r # s => sub'[r] = sub[r]
  BY <1>2, <1>4, <1>5, PlansAre
<1>7. /\ planCall' \in [P!PlanCalls -> PlanCallType]
      /\ planCall'[n].pc = "link" /\ planCall'[n].of = s
      /\ \A m \in P!PlanCalls : m # n => planCall'[m] = planCall[m]
  BY <1>1, PlansPc, PlansGone
<1>8. \A r \in P!Subs : SubOK(r)'
  BY <1>1, <1>2, <1>4, <1>6, PlansAre DEF SubOK, Running, Ended
<1>9. PlanPageOK'
  BY <1>1, <1>4, <1>6, PlansAre DEF PlanPageOK, Ended
<1>10. PlanCallOK(n)'
  BY <1>2, <1>4, <1>6, <1>7 DEF PlanCallOK
<1>11. ASSUME NEW m \in P!PlanCalls, m # n  PROVE PlanCallOK(m)'
  <2>1. PlanCallOK(m)
    BY PlansAre
  <2>2. planCall[m].pc \in {"open", "save"} => planCall[m].of # s
    BY <1>1, <1>11 DEF PlansInv, OwnRows
  <2> QED BY <1>1, <1>2, <1>4, <1>6, <1>7, <1>11, <2>1, <2>2 DEF PlanCallOK, Ended
<1>12. OwnRows'
  BY <1>7 DEF PlansInv, OwnRows
<1>13. \A r \in P!Subs : Taken(r)' <=> Taken(r)
  BY <1>1, <1>4, <1>6 DEF Taken, Ended
<1>14. OneCheckout'
  BY <1>1, <1>7, <1>13 DEF PlansInv, OneCheckout
<1>15. \A m \in P!PlanCalls : PlanCallOK(m)'
  BY <1>10, <1>11
<1> QED BY <1>1, <1>6, <1>7, <1>8, <1>9, <1>12, <1>14, <1>15, PlansAre, PlansTogether

LEMMA PlansLoadSub ==
  ASSUME PlansInv, NEW n \in P!PlanCalls, P!LoadSub(n)  PROVE PlansInv'
<1> DEFINE s == planCall[n].of
<1>1. planCall[n].pc = "load" /\ UNCHANGED <<sub, program, charged, gaveUp, crossed, planPage>>
  BY DEF P!LoadSub, P!server
<1>2. s \in charged /\ s \in P!Subs /\ sub[s].ids /\ SubOK(s)
  BY <1>1, PlansAre DEF PlanCallOK, SubOK
<1>3. PICK pc \in {"ok", "stop"} : P!To(n, pc) /\ (pc = "ok" => sub[s].status = "cancelled")
  BY <1>2 DEF P!LoadSub
<1>4. [planCall[n] EXCEPT !.pc = pc] \in PlanCallType
  BY PlansPc
<1>5. planCall' = [planCall EXCEPT ![n] = [planCall[n] EXCEPT !.pc = pc]]
  BY <1>3, PlansAre DEF P!To
<1>6. planCall'[n].pc = pc /\ planCall'[n].of = s
  BY <1>3, <1>4, PlansGone
<1>7. PlanCallOK(n)'
  BY <1>1, <1>2, <1>3, <1>6 DEF PlanCallOK, SubOK, Ended
<1>8. PlanPageOK'
  BY <1>1, PlansAre DEF PlanPageOK, Ended
<1>9. PICK c : c = [planCall[n] EXCEPT !.pc = pc]
  OBVIOUS
<1>10. c \in PlanCallType /\ c.pc \in {"ok", "stop"}
  BY <1>4, <1>9, PlansAre DEF PlanCallType
<1> QED BY <1>1, <1>5, <1>7, <1>8, <1>9, <1>10, PlansAre, PlansTo

LEMMA PlansStop ==
  ASSUME PlansInv, NEW n \in P!PlanCalls, P!Stop(n)  PROVE PlansInv'
<1> DEFINE s == planCall[n].of
<1>1. planCall[n].pc = "stop" /\ UNCHANGED <<sub, charged, gaveUp, crossed, planPage>>
  BY DEF P!Stop
<1>2. s \in charged /\ s \in P!Subs
  BY <1>1, PlansAre DEF PlanCallOK
<1>3. PICK pc \in {"mark", "error"} :
         /\ P!To(n, pc)
         /\ \/ program' = [program EXCEPT ![s] = "stopped"]
            \/ program' = program /\ pc = "error"
  BY DEF P!Stop
<1>4. /\ planCall' \in [P!PlanCalls -> PlanCallType]
      /\ planCall'[n].pc = pc /\ planCall'[n].of = s
      /\ \A m \in P!PlanCalls : m # n => planCall'[m] = planCall[m]
  BY <1>3, PlansPc, PlansGone
<1>5. /\ program' \in [P!Subs -> {"none", "page", "live", "stopped"}]
      /\ \A r \in P!Subs : SubOK(r)' /\ (Ended(r) => Ended(r)') /\ (Taken(r)' => Taken(r))
      /\ PlanPageOK'
  <2>1. CASE program' = program
    BY <1>1, <2>1, PlansAre DEF SubOK, Running, Ended, Taken, PlanPageOK
  <2>2. CASE program' = [program EXCEPT ![s] = "stopped"]
    <3> HIDE DEF s
    <3> QED BY <1>1, <1>2, <2>2, PlansAre, PlansPrograms
  <2> QED BY <1>3, <2>1, <2>2
<1>6. (\A r \in P!Subs : r # s => program'[r] = program[r]) /\ (pc = "mark" => program'[s] = "stopped")
  BY <1>2, <1>3, PlansAre
<1>7. PlanCallOK(n)'
  BY <1>1, <1>2, <1>3, <1>4, <1>6 DEF PlanCallOK
<1>8. ASSUME NEW m \in P!PlanCalls, m # n  PROVE PlanCallOK(m)'
  <2>1. PlanCallOK(m)
    BY PlansAre
  <2>2. program[s] \in {"live", "stopped"} /\ (program'[s] = program[s] \/ program'[s] = "stopped")
    BY <1>2, <1>3, PlansAre DEF SubOK, Running
  <2> QED BY <1>1, <1>4, <1>5, <1>6, <1>8, <2>1, <2>2, PlansAre DEF PlanCallOK, Ended
<1>9. OwnRows'
  BY <1>1, <1>3, <1>4 DEF PlansInv, OwnRows
<1>10. OneCheckout'
  BY <1>1, <1>3, <1>4, <1>5 DEF PlansInv, OneCheckout
<1>11. \A m \in P!PlanCalls : PlanCallOK(m)'
  BY <1>7, <1>8
<1> QED BY <1>1, <1>4, <1>5, <1>9, <1>10, <1>11, PlansAre, PlansTogether

LEMMA PlansMark ==
  ASSUME PlansInv, NEW n \in P!PlanCalls, P!Mark(n)  PROVE PlansInv'
<1> DEFINE s == planCall[n].of
<1>1. /\ planCall[n].pc = "mark" /\ UNCHANGED <<program, charged, gaveUp, crossed, planPage>>
      /\ sub' = [sub EXCEPT ![s].ends = TRUE] /\ P!To(n, "ok")
  BY DEF P!Mark
<1>2. s \in P!Subs /\ s \in charged /\ program[s] = "stopped"
  BY <1>1, PlansAre DEF PlanCallOK
<1>3. PICK row : row = [sub[s] EXCEPT !.ends = TRUE]
  OBVIOUS
<1>4. row \in P!Sub /\ row.status = sub[s].status /\ row.ids = sub[s].ids /\ row.ends
  BY <1>2, <1>3, PlansAre DEF P!Sub
<1>5. sub' = [sub EXCEPT ![s] = row]
  BY <1>1, <1>2, <1>3, PlansAre
<1>6. sub' \in [P!Subs -> P!Sub] /\ sub'[s] = row /\ \A r \in P!Subs : r # s => sub'[r] = sub[r]
  BY <1>2, <1>4, <1>5, PlansAre
<1>7. /\ planCall' \in [P!PlanCalls -> PlanCallType]
      /\ planCall'[n].pc = "ok" /\ planCall'[n].of = s
      /\ \A m \in P!PlanCalls : m # n => planCall'[m] = planCall[m]
  BY <1>1, PlansPc, PlansGone
<1>8. \A r \in P!Subs : SubOK(r)'
  BY <1>1, <1>2, <1>4, <1>6, PlansAre DEF SubOK, Running, Ended
<1>9. PlanPageOK'
  BY <1>1, <1>4, <1>6, PlansAre DEF PlanPageOK, Ended
<1>10. PlanCallOK(n)'
  BY <1>1, <1>2, <1>7 DEF PlanCallOK, Ended
<1>11. ASSUME NEW m \in P!PlanCalls, m # n  PROVE PlanCallOK(m)'
  <2>1. PlanCallOK(m)
    BY PlansAre
  <2> QED BY <1>1, <1>4, <1>6, <1>7, <1>11, <2>1 DEF PlanCallOK, Ended
<1>12. OwnRows'
  BY <1>7 DEF PlansInv, OwnRows
<1>13. \A r \in P!Subs : Taken(r)' <=> Taken(r)
  BY <1>1, <1>4, <1>6 DEF Taken, Ended
<1>14. OneCheckout'
  BY <1>1, <1>7, <1>13 DEF PlansInv, OneCheckout
<1>15. \A m \in P!PlanCalls : PlanCallOK(m)'
  BY <1>10, <1>11
<1> QED BY <1>1, <1>6, <1>7, <1>8, <1>9, <1>12, <1>14, <1>15, PlansAre, PlansTogether

LEMMA PlansPay == ASSUME PlansInv, P!Pay  PROVE PlansInv'
<1> DEFINE s == planPage.of
<1>1. /\ planPage.at = "payplus" /\ program[s] = "page"
      /\ program' = [program EXCEPT ![s] = "live"] /\ charged' = charged \cup {s}
      /\ UNCHANGED <<sub, gaveUp, crossed, planPage, planCall>>
  BY DEF P!Pay
<1>2. s \in P!Subs /\ sub[s].ids /\ sub[s].status # "none"
  BY <1>1, PlansAre DEF PlanPageOK, SubOK
<1>3. /\ program' \in [P!Subs -> {"none", "page", "live", "stopped"}] /\ program'[s] = "live"
      /\ \A r \in P!Subs : r # s => program'[r] = program[r]
  BY <1>1, <1>2, PlansAre
<1>4. \A r \in P!Subs : Ended(r)' <=> Ended(r)
  BY <1>1, <1>3 DEF Ended
<1>5. ASSUME NEW r \in P!Subs  PROVE SubOK(r)'
  <2>1. SubOK(r)
    BY PlansAre
  <2>2. CASE r # s
    BY <1>1, <1>3, <2>1, <2>2 DEF SubOK, Running, Ended
  <2>3. CASE r = s
    BY <1>1, <1>2, <1>3, <1>4, <2>1, <2>3 DEF SubOK, Running, Ended
  <2> QED BY <2>2, <2>3
<1>6. PlanPageOK'
  BY <1>1, <1>2 DEF PlanPageOK
<1>7. ASSUME NEW m \in P!PlanCalls  PROVE PlanCallOK(m)'
  <2>1. PlanCallOK(m)
    BY PlansAre
  <2> QED BY <1>1, <1>2, <1>3, <1>4, <2>1, PlansAre DEF PlanCallOK, Ended
<1>8. OwnRows'
  BY <1>1 DEF PlansInv, OwnRows
<1>9. OneCheckout'
  BY <1>1, <1>4 DEF PlansInv, OneCheckout, Taken
<1>10. charged' \in SUBSET P!Subs
  BY <1>1, <1>2, PlansAre
<1> QED BY <1>1, <1>3, <1>5, <1>6, <1>7, <1>8, <1>9, <1>10, PlansAre, PlansTogether

LEMMA PlansDashboardStop ==
  ASSUME PlansInv, NEW s \in P!Subs, P!DashboardStop(s)  PROVE PlansInv'
<1>1. /\ program[s] = "live" /\ program' = [program EXCEPT ![s] = "stopped"]
      /\ UNCHANGED <<sub, charged, gaveUp, crossed, planPage, planCall>>
  BY DEF P!DashboardStop
<1>2. s \in charged
  BY <1>1, PlansAre DEF SubOK, Running
<1>3. /\ program' \in [P!Subs -> {"none", "page", "live", "stopped"}]
      /\ \A r \in P!Subs : SubOK(r)' /\ (Ended(r) => Ended(r)') /\ (Taken(r)' => Taken(r))
      /\ PlanPageOK'
  BY <1>1, <1>2, PlansAre, PlansPrograms
<1>4. program'[s] = "stopped" /\ \A r \in P!Subs : r # s => program'[r] = program[r]
  BY <1>1, PlansAre
<1>5. ASSUME NEW m \in P!PlanCalls  PROVE PlanCallOK(m)'
  <2>1. PlanCallOK(m)
    BY PlansAre
  <2> QED BY <1>1, <1>3, <1>4, <2>1, PlansAre DEF PlanCallOK, Ended
<1>6. OwnRows'
  BY <1>1 DEF PlansInv, OwnRows
<1>7. OneCheckout'
  BY <1>1, <1>3 DEF PlansInv, OneCheckout
<1> QED BY <1>1, <1>3, <1>5, <1>6, <1>7, PlansAre, PlansTogether

\* A notice is about a subscription that PayPlus has charged for, but for the end
\* of a period.
LEMMA PlansNotified ==
  ASSUME PlansInv, NEW s \in P!Subs, NEW row \in P!Sub, NEW ended \in SUBSET {s},
         P!Notified(s, row, ended),
         row.ids = sub[s].ids, row.ends = sub[s].ends,
         row.status = sub[s].status
            \/ (s \in charged /\ row.status \in {"active", "past_due", "cancelled"}),
         row.status = "cancelled" => Ended(s) \/ ended = {s}
  PROVE  PlansInv'
<1>1. /\ sub' = [sub EXCEPT ![s] = row] /\ gaveUp' = gaveUp \cup ended
      /\ UNCHANGED <<program, charged, crossed, planPage, planCall>>
  BY DEF P!Notified
<1>2. sub' \in [P!Subs -> P!Sub] /\ sub'[s] = row /\ \A r \in P!Subs : r # s => sub'[r] = sub[r]
  BY <1>1, PlansAre
<1>3. gaveUp' \in SUBSET P!Subs
  BY <1>1, PlansAre
<1>4. \A r \in P!Subs : Ended(r) => Ended(r)'
  BY <1>1 DEF Ended
<1>5. ASSUME NEW r \in P!Subs  PROVE SubOK(r)' /\ (Taken(r)' => Taken(r))
  <2>1. SubOK(r)
    BY PlansAre
  <2>2. CASE r # s
    BY <1>1, <1>2, <1>4, <2>1, <2>2 DEF SubOK, Running, Ended, Taken
  <2>3. CASE r = s
    BY <1>1, <1>2, <1>4, <2>1, <2>3 DEF SubOK, Running, Ended, Taken, P!Sub
  <2> QED BY <2>2, <2>3
<1>6. PlanPageOK'
  BY <1>1, <1>2, <1>4, PlansAre DEF PlanPageOK, Ended
<1>7. ASSUME NEW m \in P!PlanCalls  PROVE PlanCallOK(m)'
  <2>1. PlanCallOK(m)
    BY PlansAre
  <2>2. ASSUME NEW r \in P!Subs
        PROVE  (sub[r].ids <=> sub'[r].ids) /\ (sub[r].status # "none" => sub'[r].status # "none")
    BY <1>2 DEF P!Sub
  <2> QED BY <1>1, <1>4, <2>1, <2>2, PlansAre DEF PlanCallOK, Ended
<1>8. OwnRows'
  BY <1>1 DEF PlansInv, OwnRows
<1>9. OneCheckout'
  BY <1>1, <1>5 DEF PlansInv, OneCheckout
<1> QED BY <1>1, <1>2, <1>3, <1>5, <1>6, <1>7, <1>8, <1>9, PlansAre, PlansTogether

LEMMA PlansNotice ==
  ASSUME PlansInv, NEW s \in P!Subs,
         P!Success(s) \/ P!Failure(s) \/ P!Cancelled(s) \/ P!Retry(s) \/ P!PeriodEnds(s)
  PROVE  PlansInv'
<1>1. sub[s] \in P!Sub /\ SubOK(s)
  BY PlansAre
<1>2. ASSUME NEW status \in {"active", "past_due", "cancelled"}, NEW ended \in SUBSET {s},
             s \in charged, status = "cancelled" => Ended(s) \/ ended = {s},
             NEW row, P!Notified(s, row, ended),
             \/ row = [sub[s] EXCEPT !.status = status]
             \/ row = [sub[s] EXCEPT !.status = status, !.ahead = TRUE]
      PROVE  PlansInv'
  <2>1. /\ row \in P!Sub /\ row.status = status /\ row.ids = sub[s].ids
        /\ row.ends = sub[s].ends
    BY <1>1, <1>2 DEF P!Sub
  <2> QED BY <1>2, <2>1, PlansNotified
<1>3. CASE P!Success(s)
  BY <1>2, <1>3 DEF P!Success
<1>4. CASE P!Failure(s)
  <2>1. s \in charged
    BY <1>1, <1>4 DEF P!Failure, SubOK, Running
  <2> QED BY <1>2, <1>4, <2>1 DEF P!Failure
<1>5. CASE P!Cancelled(s)
  <2>1. s \in charged /\ Ended(s)
    BY <1>1, <1>5 DEF P!Cancelled, SubOK, Running, Ended
  <2> QED BY <1>2, <1>5, <2>1 DEF P!Cancelled
<1>6. CASE P!Retry(s)
  <2>1. s \in charged
    BY <1>1, <1>6 DEF P!Retry, SubOK
  <2> QED BY <1>2, <1>6, <2>1 DEF P!Retry
<1>7. CASE P!PeriodEnds(s)
  <2>1. PICK row : row = [sub[s] EXCEPT !.ahead = FALSE]
    OBVIOUS
  <2>2. /\ row \in P!Sub /\ row.status = sub[s].status /\ row.ids = sub[s].ids
        /\ row.ends = sub[s].ends
    BY <1>1, <2>1 DEF P!Sub
  <2>3. P!Notified(s, row, {})
    BY <1>7, <2>1 DEF P!PeriodEnds
  <2>4. row.status = "cancelled" => Ended(s)
    BY <1>1, <2>2 DEF SubOK
  <2> QED BY <2>2, <2>3, <2>4, PlansNotified
<1> QED BY <1>3, <1>4, <1>5, <1>6, <1>7

LEMMA PlansNext == PlansInv /\ P!Next => PlansInv'
<1> SUFFICES ASSUME PlansInv, P!Next PROVE PlansInv'
  OBVIOUS
<1>1. ASSUME NEW at, P!Open(at) PROVE PlansInv'
  BY <1>1, PlansOpen
<1>2. CASE P!Load
  BY <1>2, PlansLoad
<1>3. CASE P!Subscribe \/ P!Cancel
  BY <1>3, PlansSend DEF P!Subscribe, P!Cancel
<1>4. CASE P!Pay
  BY <1>4, PlansPay
<1>5. ASSUME NEW n \in P!PlanCalls,
             P!Redirect(n) \/ P!Confirm(n) \/ P!Error(n) \/ P!Timeout(n) \/ P!Check(n)
             \/ P!Create(n)
      PROVE PlansInv'
  BY <1>5, PlansRedirect, PlansConfirm, PlansError, PlansTimeout, PlansCheck, PlansCreate
<1>6. ASSUME NEW n \in P!PlanCalls,
             P!OpenPage(n) \/ P!SaveIds(n) \/ P!LoadSub(n) \/ P!Stop(n) \/ P!Mark(n)
      PROVE PlansInv'
  BY <1>6, PlansOpenPage, PlansSaveIds, PlansLoadSub, PlansStop, PlansMark
<1>7. ASSUME NEW s \in P!Subs, P!ToCancel(s) \/ P!DashboardStop(s)
      PROVE PlansInv'
  BY <1>7, PlansToCancel, PlansDashboardStop
<1>8. ASSUME NEW s \in P!Subs,
             P!Success(s) \/ P!Failure(s) \/ P!Cancelled(s) \/ P!Retry(s) \/ P!PeriodEnds(s)
      PROVE PlansInv'
  BY <1>8, PlansNotice
<1> QED BY <1>1, <1>2, <1>3, <1>4, <1>5, <1>6, <1>7, <1>8 DEF P!Next

LEMMA PlansStutter == PlansInv /\ UNCHANGED planVars => PlansInv'
<1> SUFFICES ASSUME PlansInv, UNCHANGED planVars PROVE PlansInv'
  OBVIOUS
<1>1. /\ sub' = sub /\ program' = program /\ charged' = charged /\ planPage' = planPage
      /\ planCall' = planCall /\ gaveUp' = gaveUp /\ crossed' = crossed
  BY DEF planVars
<1>2. P!TypeOK'
  BY <1>1 DEF PlansInv, P!TypeOK
<1>3. (\A s \in P!Subs : SubOK(s)') /\ PlanPageOK' /\ OneCheckout'
  BY <1>1 DEF PlansInv, SubOK, Running, Ended, PlanPageOK, OneCheckout, Taken
<1>4. (\A n \in P!PlanCalls : PlanCallOK(n)') /\ OwnRows'
  BY <1>1 DEF PlansInv, PlanCallOK, Ended, OwnRows
<1> QED BY <1>2, <1>3, <1>4 DEF PlansInv

LEMMA PlansCounts == \A S : P!Cardinality(S) = Cardinality(S)
BY DEF P!Cardinality, Cardinality, P!IsFiniteSet, IsFiniteSet

LEMMA PlansImply == PlansInv => P!TypeOK /\ P!PlansHold
<1> SUFFICES ASSUME PlansInv PROVE P!TypeOK /\ P!PlansHold
  OBVIOUS
<1>1. P!EndIsTrue
  BY PlansAre DEF P!EndIsTrue, P!SaysEnds, P!SaysScheduled, SubOK, PlanPageOK, Ended
<1>2. P!ChargedIsListed
  BY PlansAre DEF P!ChargedIsListed, P!Listed, SubOK, Running, Ended, P!Sub
<1>3. P!OneProgram
  <2> SUFFICES ASSUME ~ crossed
               PROVE P!Cardinality({s \in P!Subs \ gaveUp : program[s] \in {"page", "live"}}) <= 1
    BY DEF P!OneProgram
  <2> DEFINE Runs == {s \in P!Subs \ gaveUp : program[s] \in {"page", "live"}}
  <2>1. \A s \in Runs : Taken(s)
    BY PlansAre DEF Taken, Ended, SubOK
  <2>2. \A s, r \in Runs : s = r
    BY <2>1 DEF PlansInv, OneCheckout
  <2>3. Cardinality(Runs) <= 1
    <3> HIDE DEF Runs
    <3>1. CASE Runs = {}
      BY <3>1, FS_EmptySet
    <3>2. CASE Runs # {}
      <4>1. PICK s : Runs = {s}
        BY <2>2, <3>2
      <4>2. Cardinality({s}) = 1
        BY FS_Singleton
      <4> QED BY <4>1, <4>2
    <3> QED BY <3>1, <3>2
  <2> QED BY <2>3, PlansCounts
<1> QED BY <1>1, <1>2, <1>3 DEF PlansInv, P!PlansHold

\* However a member's clicks, the requests of his pages, PayPlus's notices and the
\* retry job interleave: what a page says has ended is not charged, what is
\* charged is listed, and a member has one program (CancelSubscriptionScreen,
\* ManageSubscriptionScreen, payment.service.ts, GatewayService.ts).
THEOREM PlansRight == P!Spec => [](P!TypeOK /\ P!PlansHold)
<1>1. PlansInv /\ [P!Next]_P!vars => PlansInv'
  BY PlansNext, PlansStutter DEF P!vars, planVars
<1> QED BY <1>1, PlansInit, PlansImply, PTL DEF P!Spec

-----------------------------------------------------------------------------
(* The way in: the inductive invariant of Accounts                         *)

Reachable(pc) == pc \in {"code", "mail", "join", "verify"}

UserType == [is : BOOLEAN, named : BOOLEAN, picked : BOOLEAN, profile : BOOLEAN,
             interests : BOOLEAN, password : BOOLEAN, verified : BOOLEAN,
             code : 0..MaxRequests, reset : 0..MaxRequests]
CopyType == [named : BOOLEAN, picked : BOOLEAN, profile : BOOLEAN, interests : BOOLEAN]
PlaceType == [at : {"out", "profile", "interests", "home"}, session : BOOLEAN,
              copy : CopyType]
RequestType == [op : {"none", "register", "resend", "forgot", "google", "accept", "verify",
                      "reset"},
                pc : {"idle", "create", "code", "mail", "googleCreate", "acceptCreate",
                      "join", "verify", "hash"},
                token : 0..MaxRequests, name : BOOLEAN]

AccountTypes ==
    /\ user \in UserType /\ accounts \in Nat /\ invited \in BOOLEAN
    /\ inbox \in [code : 0..MaxRequests, reset : 0..MaxRequests]
    /\ place \in [Browsers -> PlaceType] /\ request \in [Browsers -> RequestType]
    /\ requests \in 0..MaxRequests /\ uses \in [1..MaxRequests -> Nat]
    /\ alone \in BOOLEAN /\ mailed \in BOOLEAN

\* What there is only with an account, and what is stamped only of what is there.
UserOK ==
    /\ accounts = IF user.is THEN 1 ELSE 0
    /\ user.named \/ user.picked \/ user.verified => user.is
    /\ user.profile => user.named
    /\ user.interests => user.picked

\* A tab's copy shows nothing that the account has not.
PlaceOK(t) ==
    /\ place[t].copy.named \/ place[t].copy.profile => user.named
    /\ place[t].copy.picked \/ place[t].copy.interests => user.picked
    /\ place[t].session \/ place[t].at # "out" => user.is
    /\ place[t].at = "home" => user.named /\ user.picked

RequestOK(t) ==
    /\ request[t].pc = "idle" => request[t] = M!Idle
    /\ Reachable(request[t].pc) => user.is
    /\ request[t].pc = "hash" => request[t].token # 0
    /\ request[t].op = "forgot" => request[t].pc = "mail"

\* A token in the order the requests have: none is used before it is made, none
\* twice, and the one an account holds not yet.
TokensOK ==
    /\ user.reset <= requests
    /\ \A n \in 1..MaxRequests : /\ uses[n] <= 1
                                 /\ n > requests => uses[n] = 0
    /\ user.reset # 0 => uses[user.reset] = 0

\* While requests do not overlap, what one of them holds is still the account's.
HeldOK(t) ==
    /\ request[t].pc = "hash" => request[t].token = user.reset
    /\ request[t].pc = "mail" =>
          request[t].token = IF request[t].op = "forgot" THEN user.reset ELSE user.code

\* What the last mails hold is good, but for what the next is to replace.
LinkGood == inbox.reset # 0 => uses[inbox.reset] = 1 \/ user.reset = inbox.reset
CodeGood == inbox.code # 0 => user.verified \/ user.code = inbox.code
MailsLink(t) == request[t].pc = "mail" /\ request[t].op = "forgot"
MailsCode(t) == request[t].pc = "mail" /\ request[t].op # "forgot"

MailsOf(t) == mailed => (LinkGood \/ MailsLink(t)) /\ (CodeGood \/ MailsCode(t))
MailsOK ==
    mailed => /\ LinkGood \/ \E t \in Browsers : MailsLink(t)
              /\ CodeGood \/ \E t \in Browsers : MailsCode(t)

InTurnOK ==
    alone =>
        /\ \A t, o \in Browsers : t # o => M!Quiet(t) \/ M!Quiet(o)
        /\ TokensOK /\ MailsOK
        /\ \A t \in Browsers : HeldOK(t)

AccountsInv ==
    /\ AccountTypes
    /\ UserOK
    /\ \A t \in Browsers : PlaceOK(t) /\ RequestOK(t)
    /\ InTurnOK

LEMMA AccountConstants == MaxRequests \in Nat /\ 0 \in 0..MaxRequests
BY PartsAssumption DEF M!AccountsAssumption

LEMMA AccountsAre ==
  ASSUME AccountsInv
  PROVE  /\ user \in UserType /\ accounts \in Nat /\ invited \in BOOLEAN
         /\ inbox \in [code : 0..MaxRequests, reset : 0..MaxRequests]
         /\ place \in [Browsers -> PlaceType] /\ request \in [Browsers -> RequestType]
         /\ requests \in 0..MaxRequests /\ uses \in [1..MaxRequests -> Nat]
         /\ alone \in BOOLEAN /\ mailed \in BOOLEAN
         /\ UserOK
         /\ \A t \in Browsers : PlaceOK(t) /\ RequestOK(t)
         /\ InTurnOK
BY DEF AccountsInv, AccountTypes

LEMMA IdleIs ==
  /\ M!Idle \in RequestType /\ M!Idle.pc = "idle" /\ M!Idle.op = "none"
  /\ M!Idle.token = 0
<1>1. 0 \in 0..MaxRequests
  BY AccountConstants
<1> QED BY <1>1 DEF M!Idle, RequestType

LEMMA AbsentIs ==
  /\ M!Absent \in UserType
  /\ ~ M!Absent.is /\ ~ M!Absent.named /\ ~ M!Absent.picked /\ ~ M!Absent.profile
  /\ ~ M!Absent.interests /\ ~ M!Absent.verified
  /\ M!Absent.code = 0 /\ M!Absent.reset = 0
<1>1. PICK n \in 0..MaxRequests : n = 0
  BY AccountConstants
<1>2. M!Absent = [is |-> FALSE, named |-> FALSE, picked |-> FALSE, profile |-> FALSE,
                  interests |-> FALSE, password |-> FALSE, verified |-> FALSE, code |-> n,
                  reset |-> n]
  BY <1>1 DEF M!Absent
<1> QED BY <1>1, <1>2 DEF UserType

LEMMA CopyIs ==
  ASSUME NEW u \in UserType
  PROVE  /\ M!Copy(u) \in CopyType
         /\ M!Copy(u).named = u.named /\ M!Copy(u).picked = u.picked
         /\ M!Copy(u).profile = u.profile /\ M!Copy(u).interests = u.interests
BY DEF M!Copy, UserType, CopyType

LEMMA GateIs ==
  ASSUME NEW copy
  PROVE  /\ M!Gate(copy) \in {"profile", "interests", "home"}
         /\ M!Gate(copy) = "home" => /\ copy.named \/ copy.profile
                                     /\ copy.picked \/ copy.interests
BY DEF M!Gate

\* What a page shows of the account u.
Fits(p, u) ==
    /\ p \in PlaceType
    /\ p.copy.named \/ p.copy.profile => u.named
    /\ p.copy.picked \/ p.copy.interests => u.picked
    /\ p.session \/ p.at # "out" => u.is
    /\ p.at = "home" => u.named /\ u.picked

LEMMA SignedOutOf == \A u : Fits(M!SignedOut, u)
<1>1. PICK c : c = M!NoCopy
  OBVIOUS
<1>2. c \in CopyType /\ ~ c.named /\ ~ c.profile /\ ~ c.picked /\ ~ c.interests
  BY <1>1, AbsentIs, CopyIs DEF M!NoCopy
<1>3. M!SignedOut = [at |-> "out", session |-> FALSE, copy |-> c]
  BY <1>1 DEF M!SignedOut
<1> QED BY <1>2, <1>3 DEF Fits, PlaceType

LEMMA SignedInOf ==
  ASSUME NEW u \in UserType, u.is, u.profile => u.named, u.interests => u.picked,
         NEW at \in {"out", "profile", "interests", "home"},
         at = "home" => u.named /\ u.picked
  PROVE  Fits(M!SignedIn(u, at), u)
<1>1. PICK c : c = M!Copy(u)
  OBVIOUS
<1>2. /\ c \in CopyType /\ c.named = u.named /\ c.picked = u.picked
      /\ c.profile = u.profile /\ c.interests = u.interests
  BY <1>1, CopyIs
<1>3. M!SignedIn(u, at) = [at |-> at, session |-> TRUE, copy |-> c]
  BY <1>1 DEF M!SignedIn
<1> QED BY <1>2, <1>3 DEF Fits, PlaceType

LEMMA LandedOf ==
  ASSUME NEW u \in UserType, u.is, u.profile => u.named, u.interests => u.picked
  PROVE  Fits(M!Landed(u), u)
<1>1. PICK at : at = M!Gate(M!Copy(u))
  OBVIOUS
<1>2. at \in {"profile", "interests", "home"} /\ (at = "home" => u.named /\ u.picked)
  BY <1>1, GateIs, CopyIs
<1>3. M!Landed(u) = M!SignedIn(u, at)
  BY <1>1 DEF M!Landed
<1> QED BY <1>2, <1>3, SignedInOf

\* The account u has what v has.
Grows(v, u) ==
    (v.is => u.is) /\ (v.named => u.named) /\ (v.picked => u.picked)

LEMMA OfGrows ==
  ASSUME NEW p, NEW v, NEW u, Fits(p, v), Grows(v, u)  PROVE Fits(p, u)
BY DEF Fits, Grows

LEMMA PlacesOf == AccountsInv => \A t \in Browsers : Fits(place[t], user)
<1> SUFFICES ASSUME AccountsInv, NEW t \in Browsers PROVE Fits(place[t], user)
  OBVIOUS
<1>1. place[t] \in PlaceType /\ PlaceOK(t)
  BY AccountsAre
<1> QED BY <1>1 DEF PlaceOK, Fits

\* A page that stays signed in as it is, or leaves.
LEMMA OfMoved ==
  ASSUME NEW p, NEW u, Fits(p, u),
         NEW at \in {"out", "profile", "interests", "home"},
         at # "out" => p.session, at = "home" => M!Gate(p.copy) = "home"
  PROVE  Fits([p EXCEPT !.at = at], u)
<1>1. p \in PlaceType
  BY DEF Fits
<1>2. PICK q : q = [p EXCEPT !.at = at]
  OBVIOUS
<1>3. q \in PlaceType /\ q.at = at /\ q.session = p.session /\ q.copy = p.copy
  BY <1>1, <1>2 DEF PlaceType
<1>4. at = "home" => (p.copy.named \/ p.copy.profile) /\ (p.copy.picked \/ p.copy.interests)
  BY GateIs
<1> QED BY <1>2, <1>3, <1>4 DEF Fits

\* What does not move the account, and the rest of the parts of UserOK.
UserFits(u, n) ==
    /\ n = IF u.is THEN 1 ELSE 0
    /\ u.named \/ u.picked \/ u.verified => u.is
    /\ u.profile => u.named
    /\ u.interests => u.picked

RequestFits(r, u) ==
    /\ r \in RequestType
    /\ r.pc = "idle" => r = M!Idle
    /\ Reachable(r.pc) => u.is
    /\ r.pc = "hash" => r.token # 0
    /\ r.op = "forgot" => r.pc = "mail"

\* A step of tab t: all it may change of the account, of pages and of requests.
Steps(t, u, p, r) ==
    /\ user' = u /\ u \in UserType /\ Grows(user, u) /\ UserFits(u, accounts')
    /\ place' = [place EXCEPT ![t] = p] /\ Fits(p, u)
    /\ request' = [request EXCEPT ![t] = r] /\ RequestFits(r, u)
    /\ invited' \in BOOLEAN /\ inbox' \in [code : 0..MaxRequests, reset : 0..MaxRequests]
    /\ requests' \in 0..MaxRequests /\ uses' \in [1..MaxRequests -> Nat]
    /\ alone' \in BOOLEAN /\ mailed' \in BOOLEAN

\* Nobody else has a request under way.
Only(t) == alone /\ \A o \in Browsers : o # t => M!Quiet(o)

LEMMA AccountsSteps ==
  ASSUME AccountsInv, NEW t \in Browsers, NEW u, NEW p, NEW r, Steps(t, u, p, r),
         alone' => Only(t) /\ TokensOK' /\ HeldOK(t)' /\ MailsOf(t)'
  PROVE  AccountsInv'
<1>1. /\ user' = u /\ u \in UserType /\ Grows(user, u) /\ UserFits(u, accounts')
      /\ place' = [place EXCEPT ![t] = p] /\ Fits(p, u)
      /\ request' = [request EXCEPT ![t] = r] /\ RequestFits(r, u)
      /\ invited' \in BOOLEAN /\ inbox' \in [code : 0..MaxRequests, reset : 0..MaxRequests]
      /\ requests' \in 0..MaxRequests /\ uses' \in [1..MaxRequests -> Nat]
      /\ alone' \in BOOLEAN /\ mailed' \in BOOLEAN
  BY DEF Steps
<1>2. p \in PlaceType /\ r \in RequestType /\ accounts' \in Nat
  BY <1>1 DEF Fits, RequestFits, UserFits
<1>3. /\ place' \in [Browsers -> PlaceType] /\ place'[t] = p
      /\ \A o \in Browsers : o # t => place'[o] = place[o]
  BY <1>1, <1>2, AccountsAre
<1>4. /\ request' \in [Browsers -> RequestType] /\ request'[t] = r
      /\ \A o \in Browsers : o # t => request'[o] = request[o]
  BY <1>1, <1>2, AccountsAre
<1>5. AccountTypes'
  BY <1>1, <1>2, <1>3, <1>4 DEF AccountTypes, UserType, PlaceType, CopyType, RequestType
<1>6. UserOK'
  BY <1>1 DEF UserOK, UserFits
<1>7. ASSUME NEW o \in Browsers  PROVE PlaceOK(o)' /\ RequestOK(o)'
  <2>1. CASE o = t
    BY <1>1, <1>3, <1>4, <2>1 DEF PlaceOK, RequestOK, Fits, RequestFits
  <2>2. CASE o # t
    <3>1. PlaceOK(o) /\ RequestOK(o)
      BY AccountsAre
    <3> QED BY <1>1, <1>3, <1>4, <2>2, <3>1 DEF PlaceOK, RequestOK, Grows, Reachable
  <2> QED BY <2>1, <2>2
<1>8. InTurnOK'
  <2> SUFFICES ASSUME alone' PROVE InTurnOK'
    BY DEF InTurnOK
  <2>1. \A o \in Browsers : o # t => M!Quiet(o)' /\ request'[o].pc = "idle"
    BY <1>4, IdleIs DEF Only, M!Quiet
  <2>2. \A o \in Browsers : HeldOK(o)'
    BY <2>1 DEF HeldOK
  <2>3. MailsOK'
    BY DEF MailsOK, MailsOf
  <2>4. \A o1, o2 \in Browsers : o1 # o2 => M!Quiet(o1)' \/ M!Quiet(o2)'
    BY <2>1
  <2> QED BY <2>2, <2>3, <2>4 DEF InTurnOK
<1> QED BY <1>5, <1>6, <1>7, <1>8 DEF AccountsInv

\* What a request that begins can tell of the others.
LEMMA AccountsBegin ==
  ASSUME AccountsInv, NEW t \in Browsers, M!Begins(t)
  PROVE  /\ request[t] = M!Idle /\ request[t].pc = "idle"
         /\ requests' = requests + 1 /\ requests' \in 1..MaxRequests /\ alone' \in BOOLEAN
         /\ \A n \in 0..requests : n <= requests'
         /\ alone' => Only(t) /\ TokensOK /\ (mailed => LinkGood /\ CodeGood)
<1>1. /\ request[t] = M!Idle /\ requests < MaxRequests /\ requests' = requests + 1
      /\ alone' = (alone /\ \A o \in Browsers : M!Quiet(o))
  BY DEF M!Begins, M!Quiet
<1>2. requests \in Nat /\ requests' \in 1..MaxRequests /\ \A n \in 0..requests : n <= requests'
  BY <1>1, AccountsAre, AccountConstants
<1>3. alone' => alone /\ \A o \in Browsers : M!Quiet(o)
  BY <1>1
<1>4. alone' => \A o \in Browsers : request[o].pc = "idle"
  BY <1>3, IdleIs DEF M!Quiet
<1>5. alone' => Only(t) /\ TokensOK /\ MailsOK
  BY <1>3, AccountsAre DEF Only, InTurnOK
<1>6. alone' /\ mailed => LinkGood /\ CodeGood
  BY <1>4, <1>5 DEF MailsOK, MailsLink, MailsCode
<1>7. alone' \in BOOLEAN
  BY <1>1, AccountsAre
<1> QED BY <1>1, <1>2, <1>5, <1>6, <1>7, IdleIs

\* What a request that goes on can.
LEMMA AccountsGo ==
  ASSUME AccountsInv, NEW t \in Browsers, NEW pc, pc # "idle", M!GoesOn(t, pc)
  PROVE  /\ request[t].pc = pc /\ request[t] \in RequestType /\ RequestOK(t)
         /\ requests' = requests /\ alone' = alone
         /\ alone => Only(t) /\ TokensOK /\ HeldOK(t) /\ MailsOf(t)
<1>1. request[t].pc = pc /\ requests' = requests /\ alone' = alone
  BY DEF M!GoesOn
<1>2. ~ M!Quiet(t)
  BY <1>1, IdleIs DEF M!Quiet
<1>3. alone => \A o \in Browsers : o # t => M!Quiet(o)
  BY <1>2, AccountsAre DEF InTurnOK
<1>4. alone => \A o \in Browsers : o # t => request[o].pc = "idle"
  BY <1>3, IdleIs DEF M!Quiet
<1>5. alone => TokensOK /\ HeldOK(t) /\ MailsOK
  BY AccountsAre DEF InTurnOK
<1>6. alone => MailsOf(t)
  BY <1>4, <1>5 DEF MailsOK, MailsOf, MailsLink, MailsCode
<1> QED BY <1>1, <1>3, <1>5, <1>6, AccountsAre DEF Only

\* What neither begins nor goes on.
LEMMA AccountsPlaces ==
  ASSUME AccountsInv, NEW t \in Browsers, NEW p, Fits(p, user),
         place' = [place EXCEPT ![t] = p],
         UNCHANGED <<user, accounts, invited, inbox, request, requests, uses, alone, mailed>>
  PROVE  AccountsInv'
<1>0. /\ user' = user /\ accounts' = accounts /\ invited' = invited /\ inbox' = inbox
      /\ request' = request /\ requests' = requests /\ uses' = uses /\ alone' = alone
      /\ mailed' = mailed
  OBVIOUS
<1>1. p \in PlaceType
  BY DEF Fits
<1>2. /\ place' \in [Browsers -> PlaceType] /\ place'[t] = p
      /\ \A o \in Browsers : o # t => place'[o] = place[o]
  BY <1>1, AccountsAre
<1>3. AccountTypes' /\ UserOK'
  BY <1>0, <1>2, AccountsAre
     DEF AccountTypes, UserType, PlaceType, CopyType, RequestType, UserOK
<1>4. ASSUME NEW o \in Browsers  PROVE PlaceOK(o)' /\ RequestOK(o)'
  <2>1. PlaceOK(o) /\ RequestOK(o)
    BY AccountsAre
  <2> QED BY <1>0, <1>2, <2>1 DEF PlaceOK, RequestOK, Fits, Reachable
<1>5. InTurnOK'
  BY <1>0, AccountsAre DEF InTurnOK, M!Quiet, TokensOK, MailsOK, LinkGood, CodeGood, MailsLink,
                           MailsCode, HeldOK
<1> QED BY <1>3, <1>4, <1>5 DEF AccountsInv

\* Pages: Visit, Splash and SignOut.
LEMMA AccountsMoves ==
  ASSUME AccountsInv, NEW t \in Browsers, M!Visit(t) \/ M!Splash(t) \/ M!SignOut(t)
  PROVE  AccountsInv'
<1>1. UNCHANGED <<user, accounts, invited, inbox, request, requests, uses, alone, mailed>>
  BY DEF M!Visit, M!Splash, M!SignOut
<1>2. /\ Fits(place[t], user) /\ user \in UserType /\ place \in [Browsers -> PlaceType]
      /\ place[t].session => user.is
      /\ user.profile => user.named
      /\ user.interests => user.picked
  BY PlacesOf, AccountsAre DEF PlaceOK, UserOK
<1>3. CASE place' = [place EXCEPT ![t].at = "out"]
  <2>1. PICK p : p = [place[t] EXCEPT !.at = "out"]
    OBVIOUS
  <2>2. place' = [place EXCEPT ![t] = p]
    BY <1>2, <1>3, <2>1
  <2>3. Fits(p, user)
    BY <1>2, <2>1, OfMoved
  <2> QED BY <1>1, <2>2, <2>3, AccountsPlaces
<1>4. CASE place[t].session /\ place' = [place EXCEPT ![t].at = M!Gate(place[t].copy)]
  <2>0. PICK at : at = M!Gate(place[t].copy)
    OBVIOUS
  <2>1. at \in {"profile", "interests", "home"}
    BY <2>0, GateIs
  <2>2. place' = [place EXCEPT ![t] = [place[t] EXCEPT !.at = at]]
    BY <1>2, <1>4, <2>0
  <2>3. Fits([place[t] EXCEPT !.at = at], user)
    BY <1>2, <1>4, <2>0, <2>1, OfMoved
  <2> QED BY <1>1, <2>2, <2>3, AccountsPlaces
<1>5. CASE place[t].session /\ place' = [place EXCEPT ![t] = M!Landed(user)]
  BY <1>1, <1>2, <1>5, LandedOf, AccountsPlaces
<1>6. CASE place' = [place EXCEPT ![t] = M!SignedOut]
  BY <1>1, <1>6, SignedOutOf, AccountsPlaces
<1> QED BY <1>3, <1>4, <1>5, <1>6 DEF M!Visit, M!Splash, M!SignOut

LEMMA IdleFits == \A u : RequestFits(M!Idle, u)
BY IdleIs DEF RequestFits, Reachable

\* A request that goes on to pc.
LEMMA WaitsFits ==
  ASSUME NEW u, NEW op \in {"register", "resend", "forgot", "google", "accept", "verify", "reset"},
         NEW pc \in {"create", "code", "mail", "googleCreate", "acceptCreate", "join", "verify",
                     "hash"},
         NEW token \in 0..MaxRequests, NEW name \in BOOLEAN,
         Reachable(pc) => u.is, pc = "hash" => token # 0, op = "forgot" => pc = "mail"
  PROVE  RequestFits([op |-> op, pc |-> pc, token |-> token, name |-> name], u)
BY DEF RequestFits, RequestType

\* The account stays as it is.
LEMMA UserStays ==
  ASSUME AccountsInv
  PROVE  /\ user \in UserType /\ Grows(user, user) /\ UserFits(user, accounts)
         /\ user.profile => user.named
         /\ user.interests => user.picked
BY AccountsAre DEF Grows, UserFits, UserOK

LEMMA PlaceStays ==
  ASSUME AccountsInv, NEW t \in Browsers  PROVE place = [place EXCEPT ![t] = place[t]]
BY AccountsAre

LEMMA RequestStays ==
  ASSUME AccountsInv, NEW t \in Browsers  PROVE request = [request EXCEPT ![t] = request[t]]
BY AccountsAre

\* A request begins, or is answered at once, and changes neither account nor mail.
LEMMA AccountsBeginOnly ==
  ASSUME AccountsInv, NEW t \in Browsers, M!Begins(t), NEW p, NEW r,
         place' = [place EXCEPT ![t] = p], Fits(p, user),
         request' = [request EXCEPT ![t] = r], RequestFits(r, user),
         r.pc = "hash" => r.token = user.reset, r.pc # "mail",
         UNCHANGED <<user, accounts, invited, inbox, uses, mailed>>
  PROVE  AccountsInv'
<1>1. /\ requests' = requests + 1 /\ requests' \in 1..MaxRequests /\ alone' \in BOOLEAN
      /\ \A n \in 0..requests : n <= requests'
      /\ alone' => Only(t) /\ TokensOK /\ (mailed => LinkGood /\ CodeGood)
  BY AccountsBegin
<1>2. requests' \in 0..MaxRequests
  BY <1>1, AccountConstants
<1>3. /\ user' = user /\ accounts' = accounts /\ invited' = invited /\ inbox' = inbox
      /\ uses' = uses /\ mailed' = mailed
  OBVIOUS
<1>4. Steps(t, user, p, r)
  BY <1>1, <1>2, <1>3, UserStays, AccountsAre DEF Steps
<1>5. request'[t] = r
  BY AccountsAre
<1>6. ASSUME alone'  PROVE TokensOK' /\ HeldOK(t)' /\ MailsOf(t)'
  <2>1. TokensOK'
    <3>1. user.reset \in 0..MaxRequests /\ requests \in Nat /\ requests' \in Nat
      BY <1>1, AccountsAre, AccountConstants DEF UserType
    <3> QED BY <1>1, <1>3, <1>6, <3>1 DEF TokensOK
  <2>2. HeldOK(t)'
    BY <1>3, <1>5 DEF HeldOK
  <2>3. MailsOf(t)'
    BY <1>1, <1>3, <1>6 DEF MailsOf, LinkGood, CodeGood
  <2> QED BY <2>1, <2>2, <2>3
<1> QED BY <1>1, <1>4, <1>6, AccountsSteps

LEMMA AccountsRegister ==
  ASSUME AccountsInv, NEW t \in Browsers,
         M!Register(t) \/ M!Accept(t) \/ M!Resend(t) \/ M!Verify(t) \/ M!Reset(t)
  PROVE  AccountsInv'
<1>1. /\ M!Begins(t) /\ UNCHANGED <<user, accounts, invited, inbox, uses, mailed>>
      /\ place' = place
  BY DEF M!Register, M!Accept, M!Resend, M!Verify, M!Reset
<1>2. place' = [place EXCEPT ![t] = place[t]] /\ Fits(place[t], user)
  BY <1>1, PlaceStays, PlacesOf
<1>3. ASSUME NEW r, request' = [request EXCEPT ![t] = r], RequestFits(r, user),
             r.pc = "hash" => r.token = user.reset, r.pc # "mail"
      PROVE  AccountsInv'
  BY <1>1, <1>2, <1>3, AccountsBeginOnly
<1>4. CASE M!Done(t)
  BY <1>3, <1>4, IdleFits, IdleIs DEF M!Done
<1>5. ASSUME NEW op \in {"register", "accept", "resend", "verify", "reset"},
             NEW pc \in {"create", "code", "acceptCreate", "join", "verify", "hash"},
             NEW token \in 0..MaxRequests, NEW name \in BOOLEAN, M!Waits(t, op, pc, token, name),
             Reachable(pc) => user.is, pc = "hash" => token # 0 /\ token = user.reset
      PROVE  AccountsInv'
  <2>1. PICK r : r = [op |-> op, pc |-> pc, token |-> token, name |-> name]
    OBVIOUS
  <2>2. RequestFits(r, user)
    BY <1>5, <2>1, WaitsFits
  <2>3. request' = [request EXCEPT ![t] = r] /\ r.pc = pc /\ r.token = token
    BY <1>5, <2>1 DEF M!Waits
  <2> QED BY <1>3, <1>5, <2>2, <2>3
<1>6. 0 \in 0..MaxRequests
  BY AccountConstants
<1>7. CASE M!Register(t)
  <2>1. M!Waits(t, "register", "create", 0, TRUE) => AccountsInv'
    BY <1>5, <1>6 DEF Reachable
  <2> QED BY <1>4, <1>7, <2>1 DEF M!Register
<1>8. CASE M!Accept(t)
  <2>1. place[t].session => user.is
    BY AccountsAre DEF PlaceOK
  <2>2. place[t].session /\ M!Waits(t, "accept", "join", 0, FALSE) => AccountsInv'
    BY <1>5, <1>6, <2>1
  <2>3. M!Waits(t, "accept", "acceptCreate", 0, TRUE) => AccountsInv'
    BY <1>5, <1>6 DEF Reachable
  <2> QED BY <1>4, <1>8, <2>2, <2>3 DEF M!Accept
<1>9. CASE M!Resend(t)
  BY <1>5, <1>6, <1>9 DEF M!Resend
<1>10. inbox.code \in 0..MaxRequests /\ inbox.reset \in 0..MaxRequests
  BY AccountsAre
<1>11. CASE M!Verify(t)
  <2>1. ASSUME NEW token \in 0..MaxRequests, M!Waits(t, "verify", "verify", token, FALSE)
        PROVE  AccountsInv'
    BY <1>5, <1>11, <2>1 DEF M!Verify
  <2> QED BY <1>4, <1>6, <1>10, <1>11, <2>1 DEF M!Verify
<1>12. CASE M!Reset(t)
  <2>1. inbox.reset # 0
    BY <1>12 DEF M!Reset
  <2> QED BY <1>4, <1>5, <1>10, <1>12, <2>1 DEF M!Reset, Reachable
<1> QED BY <1>7, <1>8, <1>9, <1>11, <1>12

LEMMA AccountsLogin ==
  ASSUME AccountsInv, NEW t \in Browsers, M!Login(t)  PROVE AccountsInv'
<1>1. /\ M!Begins(t) /\ user.is /\ place' = [place EXCEPT ![t] = M!Landed(user)]
      /\ request' = request
      /\ UNCHANGED <<user, accounts, invited, inbox, uses, mailed>>
  BY DEF M!Login
<1>2. Fits(M!Landed(user), user)
  BY <1>1, UserStays, LandedOf
<1>3. request[t] = M!Idle /\ request' = [request EXCEPT ![t] = M!Idle]
  BY <1>1, AccountsBegin, RequestStays
<1> QED BY <1>1, <1>2, <1>3, IdleFits, IdleIs, AccountsBeginOnly

\* A step that changes nothing a mail or a link has to do with.
LEMMA AccountsCalm ==
  ASSUME AccountsInv, NEW t \in Browsers,
         \/ M!Begins(t)
         \/ \E pc \in {"create", "googleCreate", "acceptCreate", "join"} : M!GoesOn(t, pc),
         NEW u \in UserType, user' = u, Grows(user, u), UserFits(u, accounts'),
         u.reset = user.reset, u.code = user.code, user.verified => u.verified,
         NEW p, place' = [place EXCEPT ![t] = p], Fits(p, u),
         NEW r, request' = [request EXCEPT ![t] = r], RequestFits(r, u),
         r.pc \notin {"mail", "hash"},
         invited' \in BOOLEAN, UNCHANGED <<inbox, uses, mailed>>
  PROVE  AccountsInv'
<1>1. inbox' = inbox /\ uses' = uses /\ mailed' = mailed
  OBVIOUS
<1>2. /\ requests' \in 0..MaxRequests /\ alone' \in BOOLEAN
      /\ \A n \in 0..requests : n <= requests'
      /\ alone' => Only(t) /\ TokensOK /\ (mailed => LinkGood /\ CodeGood)
  <2>1. CASE M!Begins(t)
    BY <2>1, AccountsBegin, AccountConstants
  <2>2. CASE \E pc \in {"create", "googleCreate", "acceptCreate", "join"} : M!GoesOn(t, pc)
    <3>1. PICK pc \in {"create", "googleCreate", "acceptCreate", "join"} : M!GoesOn(t, pc)
      BY <2>2
    <3>2. /\ request[t].pc = pc /\ requests' = requests /\ alone' = alone
          /\ alone => Only(t) /\ TokensOK /\ MailsOf(t)
      BY <3>1, AccountsGo
    <3>3. \A n \in 0..requests : n <= requests
      BY AccountsAre, AccountConstants
    <3> QED BY <3>2, <3>3, AccountsAre DEF MailsOf, MailsLink, MailsCode
  <2> QED BY <2>1, <2>2
<1>3. Steps(t, u, p, r)
  BY <1>1, <1>2, AccountsAre DEF Steps
<1>4. request'[t] = r
  BY AccountsAre
<1>5. ASSUME alone'  PROVE TokensOK' /\ HeldOK(t)' /\ MailsOf(t)'
  <2>1. TokensOK'
    <3>1. user.reset \in 0..MaxRequests /\ requests \in Nat /\ requests' \in Nat
      BY <1>2, AccountsAre, AccountConstants DEF UserType
    <3>2. user'.reset = user.reset
      OBVIOUS
    <3> QED BY <1>1, <1>2, <1>5, <3>1, <3>2 DEF TokensOK
  <2>2. HeldOK(t)'
    BY <1>4 DEF HeldOK
  <2>3. MailsOf(t)'
    BY <1>1, <1>2, <1>5 DEF MailsOf, LinkGood, CodeGood
  <2> QED BY <2>1, <2>2, <2>3
<1> QED BY <1>2, <1>3, <1>5, AccountsSteps

\* A new account: whatever there was of the address is kept.
LEMMA CreateIs ==
  ASSUME AccountsInv,
         NEW fields \in [named : BOOLEAN, profile : BOOLEAN, password : BOOLEAN,
                         verified : BOOLEAN],
         fields.profile => fields.named, M!Create(fields)
  PROVE  /\ user' \in UserType /\ user'.is /\ Grows(user, user') /\ UserFits(user', accounts')
         /\ user'.reset = user.reset /\ user'.code = user.code
         /\ user.verified => user'.verified
         /\ user'.profile => user'.named
         /\ user'.interests => user'.picked
<1>1. /\ ~ user.is /\ accounts' = accounts + 1
      /\ user' = [user EXCEPT !.is = TRUE, !.named = fields.named, !.profile = fields.profile,
                              !.password = fields.password, !.verified = fields.verified]
  BY DEF M!Create
<1>2. user \in UserType /\ UserOK
  BY AccountsAre
<1>3. user' \in UserType
  BY <1>1, <1>2 DEF UserType
<1>4. /\ user'.is /\ user'.named = fields.named /\ user'.profile = fields.profile
      /\ user'.verified = fields.verified
      /\ user'.picked = user.picked /\ user'.interests = user.interests
      /\ user'.code = user.code /\ user'.reset = user.reset
  BY <1>1, <1>2 DEF UserType
<1>5. accounts' = 1
  BY <1>1, <1>2 DEF UserOK
<1> QED BY <1>1, <1>2, <1>3, <1>4, <1>5 DEF UserOK, UserFits, Grows

LEMMA WithPasswordIs ==
  /\ M!WithPassword \in [named : BOOLEAN, profile : BOOLEAN, password : BOOLEAN,
                         verified : BOOLEAN]
  /\ ~ M!WithPassword.profile
BY DEF M!WithPassword

LEMMA AccountsCreate ==
  ASSUME AccountsInv, NEW t \in Browsers, M!RegisterCreate(t) \/ M!AcceptCreate(t)
  PROVE  AccountsInv'
<1>1. PICK pc \in {"create", "acceptCreate"} : M!GoesOn(t, pc)
  BY DEF M!RegisterCreate, M!AcceptCreate
<1>2. place' = place /\ UNCHANGED <<invited, inbox, uses, mailed>>
  BY DEF M!RegisterCreate, M!AcceptCreate
<1>3. /\ place' = [place EXCEPT ![t] = place[t]] /\ Fits(place[t], user)
      /\ invited' \in BOOLEAN
  BY <1>2, PlaceStays, PlacesOf, AccountsAre
<1>4. CASE M!Refused(t)
  <2>1. UNCHANGED <<user, accounts>> /\ request' = [request EXCEPT ![t] = M!Idle]
    BY <1>4 DEF M!Refused, M!Done
  <2> QED BY <1>1, <1>2, <1>3, <2>1, UserStays, IdleFits, IdleIs, AccountsCalm
<1>5. CASE M!Create(M!WithPassword)
  <2>1. PICK u : u = user'
    OBVIOUS
  <2>2. /\ u \in UserType /\ u.is /\ Grows(user, u) /\ UserFits(u, accounts')
        /\ u.reset = user.reset /\ u.code = user.code /\ (user.verified => u.verified)
    BY <1>5, <2>1, WithPasswordIs, CreateIs
  <2>3. PICK op \in {"register", "accept"}, to \in {"code", "join"} : M!Waits(t, op, to, 0, TRUE)
    BY <1>5 DEF M!RegisterCreate, M!AcceptCreate, M!Refused, M!Create
  <2>4. PICK r : r = [op |-> op, pc |-> to, token |-> 0, name |-> TRUE]
    OBVIOUS
  <2>5. RequestFits(r, u) /\ r.pc \notin {"mail", "hash"}
    BY <2>2, <2>4, AccountConstants, WaitsFits
  <2>6. request' = [request EXCEPT ![t] = r]
    BY <2>3, <2>4 DEF M!Waits
  <2>7. Fits(place[t], u)
    BY <1>3, <2>2, OfGrows
  <2> QED BY <1>1, <1>2, <1>3, <2>1, <2>2, <2>5, <2>6, <2>7, AccountsCalm
<1> QED BY <1>4, <1>5 DEF M!RegisterCreate, M!AcceptCreate

LEMMA AccountsGoogle ==
  ASSUME AccountsInv, NEW t \in Browsers, NEW name \in BOOLEAN, M!Google(t, name)
  PROVE  AccountsInv'
<1>1. /\ M!Begins(t) /\ UNCHANGED <<accounts, invited, inbox, uses, mailed>>
      /\ invited' \in BOOLEAN
  BY AccountsAre DEF M!Google
<1>2. CASE user.is
  <2>1. PICK named \in BOOLEAN, profile \in BOOLEAN :
           /\ named <=> (user.named \/ name)
           /\ profile <=> (user.profile \/ named)
    OBVIOUS
  <2>2. PICK u : u = [user EXCEPT !.named = user.named \/ name, !.verified = TRUE,
                                  !.profile = @ \/ (user.named \/ name)]
    OBVIOUS
  <2>3. /\ user' = u /\ place' = [place EXCEPT ![t] = M!Landed(u)]
        /\ request' = [request EXCEPT ![t] = M!Idle]
    BY <1>2, <2>2 DEF M!Google, M!Done
  <2>4. user \in UserType /\ UserOK
    BY AccountsAre
  <2>5. u = [user EXCEPT !.named = named, !.verified = TRUE, !.profile = profile]
    <3>1. (user.named \/ name) = named
      BY <2>1, <2>4 DEF UserType
    <3>2. (user.profile \/ named) = profile
      BY <2>1, <2>4 DEF UserType
    <3> QED BY <2>2, <3>1, <3>2
  <2>6. u \in UserType
    BY <2>4, <2>5 DEF UserType
  <2>7. /\ u.is = user.is /\ (u.named <=> named) /\ u.verified /\ (u.profile <=> profile)
        /\ u.picked = user.picked /\ u.interests = user.interests
        /\ u.code = user.code /\ u.reset = user.reset
    BY <2>4, <2>5 DEF UserType
  <2>8. Grows(user, u) /\ UserFits(u, accounts') /\ (u.profile => u.named)
        /\ (u.interests => u.picked)
    BY <1>1, <1>2, <2>1, <2>4, <2>7 DEF Grows, UserFits, UserOK
  <2>9. Fits(M!Landed(u), u)
    BY <1>2, <2>6, <2>7, <2>8, LandedOf
  <2> QED BY <1>1, <2>3, <2>6, <2>7, <2>8, <2>9, IdleFits, IdleIs, AccountsCalm
<1>3. CASE ~ user.is
  <2>1. UNCHANGED <<user, place>> /\ M!Waits(t, "google", "googleCreate", 0, name)
    BY <1>3 DEF M!Google
  <2>2. PICK r : r = [op |-> "google", pc |-> "googleCreate", token |-> 0, name |-> name]
    OBVIOUS
  <2>3. RequestFits(r, user) /\ r.pc = "googleCreate"
    BY <2>2, AccountConstants, WaitsFits DEF Reachable
  <2>4. request' = [request EXCEPT ![t] = r]
    BY <2>1, <2>2 DEF M!Waits
  <2>5. place' = [place EXCEPT ![t] = place[t]] /\ Fits(place[t], user)
    BY <2>1, PlaceStays, PlacesOf
  <2> QED BY <1>1, <2>1, <2>3, <2>4, <2>5, UserStays, AccountsCalm
<1> QED BY <1>2, <1>3

LEMMA AccountsGoogleCreate ==
  ASSUME AccountsInv, NEW t \in Browsers, M!GoogleCreate(t)  PROVE AccountsInv'
<1>1. /\ M!GoesOn(t, "googleCreate") /\ UNCHANGED <<invited, inbox, uses, mailed>>
      /\ invited' \in BOOLEAN
  BY AccountsAre DEF M!GoogleCreate
<1>2. CASE M!Refused(t) /\ UNCHANGED place
  <2>1. UNCHANGED <<user, accounts>> /\ request' = [request EXCEPT ![t] = M!Idle]
    BY <1>2 DEF M!Refused, M!Done
  <2>2. place' = [place EXCEPT ![t] = place[t]] /\ Fits(place[t], user)
    BY <1>2, PlaceStays, PlacesOf
  <2> QED BY <1>1, <2>1, <2>2, UserStays, IdleFits, IdleIs, AccountsCalm
<1>3. ASSUME M!Create([named |-> request[t].name, profile |-> request[t].name,
                       password |-> FALSE, verified |-> TRUE]),
             place' = [place EXCEPT ![t] = M!Landed(user')], M!Done(t)
      PROVE  AccountsInv'
  <2>1. PICK name \in BOOLEAN : name = request[t].name
    BY AccountsAre DEF RequestType
  <2>2. PICK fields : fields = [named |-> name, profile |-> name, password |-> FALSE,
                                verified |-> TRUE]
    OBVIOUS
  <2>3. /\ fields \in [named : BOOLEAN, profile : BOOLEAN, password : BOOLEAN,
                       verified : BOOLEAN]
        /\ fields.profile => fields.named
        /\ M!Create(fields)
    BY <1>3, <2>1, <2>2
  <2>4. PICK u : u = user'
    OBVIOUS
  <2>5. /\ u \in UserType /\ u.is /\ Grows(user, u) /\ UserFits(u, accounts')
        /\ u.reset = user.reset /\ u.code = user.code /\ (user.verified => u.verified)
        /\ (u.profile => u.named) /\ (u.interests => u.picked)
    BY <2>3, <2>4, CreateIs
  <2>6. place' = [place EXCEPT ![t] = M!Landed(u)] /\ Fits(M!Landed(u), u)
    BY <1>3, <2>4, <2>5, LandedOf
  <2>7. request' = [request EXCEPT ![t] = M!Idle]
    BY <1>3 DEF M!Done
  <2> QED BY <1>1, <2>4, <2>5, <2>6, <2>7, IdleFits, IdleIs, AccountsCalm
<1> QED BY <1>2, <1>3 DEF M!GoogleCreate

LEMMA AccountsJoin ==
  ASSUME AccountsInv, NEW t \in Browsers, M!Join(t)  PROVE AccountsInv'
<1>1. /\ M!GoesOn(t, "join") /\ request' = [request EXCEPT ![t] = M!Idle]
      /\ UNCHANGED <<user, accounts, inbox, uses, mailed>>
      /\ invited' \in BOOLEAN
  BY AccountsAre DEF M!Join, M!Done
<1>2. user.is
  BY <1>1, AccountsGo DEF RequestOK, Reachable
<1>3. PICK p : place' = [place EXCEPT ![t] = p] /\ Fits(p, user)
  <2>1. CASE place' = place
    BY <2>1, PlaceStays, PlacesOf
  <2>2. CASE place[t].session /\ place' # place
    <3>1. PICK at : at = M!Gate(place[t].copy)
      OBVIOUS
    <3>2. place' = [place EXCEPT ![t] = [place[t] EXCEPT !.at = at]]
      BY <2>2, <3>1, AccountsAre DEF M!Join
    <3>3. at \in {"profile", "interests", "home"}
      BY <3>1, GateIs
    <3>4. Fits([place[t] EXCEPT !.at = at], user)
      BY <2>2, <3>1, <3>3, PlacesOf, OfMoved
    <3> QED BY <3>2, <3>4
  <2>3. CASE ~ place[t].session /\ place' # place
    <3>1. place' = [place EXCEPT ![t] = M!Landed(user)]
      BY <2>3, AccountsAre DEF M!Join
    <3> QED BY <1>2, <3>1, UserStays, LandedOf
  <2> QED BY <2>1, <2>2, <2>3
<1> QED BY <1>1, <1>3, UserStays, IdleFits, IdleIs, AccountsCalm

LEMMA AccountsIssueCode ==
  ASSUME AccountsInv, NEW t \in Browsers, M!IssueCode(t)  PROVE AccountsInv'
<1>1. /\ M!GoesOn(t, "code") /\ UNCHANGED <<accounts, invited, inbox, place, uses, mailed>>
      /\ user' = [user EXCEPT !.code = requests]
      /\ M!Waits(t, request[t].op, "mail", requests, FALSE)
  BY DEF M!IssueCode
<1>2. /\ request[t].pc = "code" /\ request[t] \in RequestType /\ RequestOK(t)
      /\ requests' = requests /\ alone' = alone
      /\ alone => Only(t) /\ TokensOK /\ HeldOK(t) /\ MailsOf(t)
  BY <1>1, AccountsGo
<1>3. user \in UserType /\ UserOK /\ requests \in 0..MaxRequests
  BY AccountsAre
<1>4. PICK u : u = [user EXCEPT !.code = requests]
  OBVIOUS
<1>5. /\ u \in UserType /\ u.code = requests /\ u.reset = user.reset
      /\ u.is = user.is /\ u.named = user.named /\ u.picked = user.picked
      /\ u.verified = user.verified /\ u.profile = user.profile /\ u.interests = user.interests
  BY <1>3, <1>4 DEF UserType
<1>6. Grows(user, u) /\ UserFits(u, accounts')
  BY <1>1, <1>3, <1>5 DEF Grows, UserFits, UserOK
<1>7. PICK r : r = [op |-> request[t].op, pc |-> "mail", token |-> requests, name |-> FALSE]
  OBVIOUS
<1>8. /\ r \in RequestType /\ r.pc = "mail" /\ r.token = requests /\ r.op = request[t].op
      /\ r.op # "forgot"
  BY <1>2, <1>3, <1>7 DEF RequestType, RequestOK
<1>9. RequestFits(r, u)
  BY <1>2, <1>5, <1>8 DEF RequestFits, RequestOK, Reachable
<1>10. request' = [request EXCEPT ![t] = r] /\ request'[t] = r
  BY <1>1, <1>7, <1>8, AccountsAre DEF M!Waits
<1>11. place' = [place EXCEPT ![t] = place[t]] /\ Fits(place[t], u)
  BY <1>1, <1>6, PlaceStays, PlacesOf, OfGrows
<1>12. Steps(t, u, place[t], r)
  BY <1>1, <1>2, <1>4, <1>5, <1>6, <1>9, <1>10, <1>11, AccountsAre DEF Steps
<1>13. ASSUME alone  PROVE TokensOK' /\ HeldOK(t)' /\ MailsOf(t)'
  <2>1. user' = u
    BY <1>1, <1>4
  <2>2. TokensOK'
    BY <1>1, <1>2, <1>5, <1>13, <2>1 DEF TokensOK
  <2>3. HeldOK(t)'
    BY <1>5, <1>8, <1>10, <2>1 DEF HeldOK
  <2>4. MailsOf(t)'
    BY <1>1, <1>2, <1>5, <1>8, <1>10, <1>13, <2>1
       DEF MailsOf, LinkGood, CodeGood, MailsLink, MailsCode
  <2> QED BY <2>2, <2>3, <2>4
<1> QED BY <1>2, <1>12, <1>13, AccountsSteps

LEMMA AccountsMail ==
  ASSUME AccountsInv, NEW t \in Browsers, M!Mail(t)  PROVE AccountsInv'
<1>1. /\ M!GoesOn(t, "mail") /\ UNCHANGED <<user, accounts, invited, uses>>
      /\ request' = [request EXCEPT ![t] = M!Idle]
  BY DEF M!Mail, M!Done
<1>2. /\ request[t].pc = "mail" /\ request[t] \in RequestType /\ RequestOK(t)
      /\ requests' = requests /\ alone' = alone
      /\ alone => Only(t) /\ TokensOK /\ HeldOK(t) /\ MailsOf(t)
  BY <1>1, AccountsGo
<1>3. request'[t] = M!Idle
  BY <1>1, AccountsAre
<1>4. user.is
  BY <1>2 DEF RequestOK, Reachable
<1>5. alone => TokensOK' /\ HeldOK(t)'
  BY <1>1, <1>2, <1>3, IdleIs DEF TokensOK, HeldOK
<1>6. CASE mailed' = FALSE /\ UNCHANGED <<inbox, place>>
  <2>1. place' = [place EXCEPT ![t] = place[t]] /\ Fits(place[t], user)
    BY <1>6, PlaceStays, PlacesOf
  <2>2. Steps(t, user, place[t], M!Idle)
    BY <1>1, <1>2, <1>6, <2>1, UserStays, IdleFits, AccountsAre DEF Steps
  <2>3. MailsOf(t)'
    BY <1>6 DEF MailsOf
  <2> QED BY <1>2, <1>5, <2>2, <2>3, AccountsSteps
<1>7. CASE /\ inbox' = IF request[t].op = "forgot" THEN [inbox EXCEPT !.reset = request[t].token]
                      ELSE [inbox EXCEPT !.code = request[t].token]
           /\ place' = IF request[t].op = "register"
                      THEN [place EXCEPT ![t] = M!SignedIn(user, "interests")] ELSE place
           /\ mailed' = mailed
  <2>1. inbox \in [code : 0..MaxRequests, reset : 0..MaxRequests] /\ request[t].token \in 0..MaxRequests
    BY <1>2, AccountsAre DEF RequestType
  <2>2. inbox' \in [code : 0..MaxRequests, reset : 0..MaxRequests]
    BY <1>7, <2>1
  <2>3. PICK p : place' = [place EXCEPT ![t] = p] /\ Fits(p, user)
    <3>1. CASE request[t].op = "register"
      BY <1>4, <1>7, <3>1, UserStays, SignedInOf
    <3>2. CASE request[t].op # "register"
      BY <1>7, <3>2, PlaceStays, PlacesOf
    <3> QED BY <3>1, <3>2
  <2>4. Steps(t, user, p, M!Idle)
    BY <1>1, <1>2, <1>7, <2>2, <2>3, UserStays, IdleFits, AccountsAre DEF Steps
  <2>5. ASSUME alone  PROVE MailsOf(t)'
    <3>1. CASE request[t].op = "forgot"
      <4>1. inbox'.reset = user.reset /\ inbox'.code = inbox.code
        BY <1>2, <1>7, <2>1, <2>5, <3>1 DEF HeldOK
      <4> QED BY <1>1, <1>2, <1>7, <2>5, <3>1, <4>1
              DEF MailsOf, LinkGood, CodeGood, MailsLink, MailsCode
    <3>2. CASE request[t].op # "forgot"
      <4>1. inbox'.code = user.code /\ inbox'.reset = inbox.reset
        BY <1>2, <1>7, <2>1, <2>5, <3>2 DEF HeldOK
      <4> QED BY <1>1, <1>2, <1>7, <2>5, <3>2, <4>1
              DEF MailsOf, LinkGood, CodeGood, MailsLink, MailsCode
    <3> QED BY <3>1, <3>2
  <2> QED BY <1>2, <1>5, <2>4, <2>5, AccountsSteps
<1> QED BY <1>6, <1>7 DEF M!Mail

LEMMA AccountsVerifySave ==
  ASSUME AccountsInv, NEW t \in Browsers, M!VerifySave(t)  PROVE AccountsInv'
<1>1. /\ M!GoesOn(t, "verify") /\ UNCHANGED <<accounts, invited, inbox, uses, mailed>>
      /\ request' = [request EXCEPT ![t] = M!Idle]
  BY DEF M!VerifySave, M!Done
<1>2. /\ request[t].pc = "verify" /\ request[t] \in RequestType /\ RequestOK(t)
      /\ requests' = requests /\ alone' = alone
      /\ alone => Only(t) /\ TokensOK /\ HeldOK(t) /\ MailsOf(t)
  BY <1>1, AccountsGo
<1>3. request'[t] = M!Idle
  BY <1>1, AccountsAre
<1>4. user.is /\ user \in UserType /\ UserOK
  BY <1>2, AccountsAre DEF RequestOK, Reachable
<1>5. PICK u : /\ user' = u /\ u \in UserType /\ u.reset = user.reset
               /\ u.is = user.is /\ u.named = user.named /\ u.picked = user.picked
               /\ u.profile = user.profile /\ u.interests = user.interests
               /\ (user.verified => u.verified) /\ (u.verified \/ u.code = user.code)
  <2>1. CASE request[t].token = 0
    BY <1>4, <2>1 DEF M!VerifySave
  <2>2. CASE request[t].token # 0
    <3>1. PICK n \in 0..MaxRequests : n = 0
      BY AccountConstants
    <3>2. user' = [user EXCEPT !.verified = TRUE, !.code = n]
      BY <2>2, <3>1 DEF M!VerifySave
    <3>3. PICK u : u = [user EXCEPT !.verified = TRUE, !.code = n]
      OBVIOUS
    <3>4. u \in UserType
      BY <1>4, <3>3 DEF UserType
    <3>5. /\ u.reset = user.reset /\ u.is = user.is /\ u.named = user.named
          /\ u.picked = user.picked /\ u.profile = user.profile
          /\ u.interests = user.interests /\ u.verified
      BY <1>4, <3>3 DEF UserType
    <3> QED BY <3>2, <3>3, <3>4, <3>5
  <2> QED BY <2>1, <2>2
<1>6. Grows(user, u) /\ UserFits(u, accounts')
  BY <1>1, <1>4, <1>5 DEF Grows, UserFits, UserOK
<1>7. PICK p : place' = [place EXCEPT ![t] = p] /\ Fits(p, user)
  <2>1. PICK at \in {"profile", "out"} : at = IF place[t].session THEN "profile" ELSE "out"
    OBVIOUS
  <2>2. place' = [place EXCEPT ![t] = [place[t] EXCEPT !.at = at]]
    BY <2>1, AccountsAre DEF M!VerifySave
  <2>3. Fits([place[t] EXCEPT !.at = at], user)
    BY <2>1, PlacesOf, OfMoved
  <2> QED BY <2>2, <2>3
<1>8. Steps(t, u, p, M!Idle)
  BY <1>1, <1>2, <1>5, <1>6, <1>7, OfGrows, IdleFits, AccountsAre DEF Steps
<1>9. ASSUME alone  PROVE TokensOK' /\ HeldOK(t)' /\ MailsOf(t)'
  <2>1. TokensOK'
    BY <1>1, <1>2, <1>5, <1>9 DEF TokensOK
  <2>2. HeldOK(t)'
    BY <1>3, IdleIs DEF HeldOK
  <2>3. MailsOf(t)'
    BY <1>1, <1>2, <1>5, <1>9 DEF MailsOf, LinkGood, CodeGood, MailsLink, MailsCode
  <2> QED BY <2>1, <2>2, <2>3
<1> QED BY <1>2, <1>8, <1>9, AccountsSteps

LEMMA AccountsForgot ==
  ASSUME AccountsInv, NEW t \in Browsers, M!Forgot(t)  PROVE AccountsInv'
<1>1. /\ M!Begins(t) /\ UNCHANGED <<accounts, invited, inbox, place, uses, mailed>>
      /\ user' = [user EXCEPT !.reset = requests'] /\ user.is
      /\ M!Waits(t, "forgot", "mail", requests', FALSE)
  BY DEF M!Forgot
<1>2. /\ requests' = requests + 1 /\ requests' \in 1..MaxRequests /\ alone' \in BOOLEAN
      /\ alone' => Only(t) /\ TokensOK /\ (mailed => LinkGood /\ CodeGood)
  BY <1>1, AccountsBegin
<1>3. PICK k \in 0..MaxRequests : k = requests'
  BY <1>2, AccountConstants
<1>4. user \in UserType /\ UserOK /\ requests \in Nat
  BY AccountsAre, AccountConstants
<1>5. PICK u : u = [user EXCEPT !.reset = k]
  OBVIOUS
<1>6. /\ u \in UserType /\ u.code = user.code /\ u.reset = k
      /\ u.is = user.is /\ u.named = user.named /\ u.picked = user.picked
      /\ u.verified = user.verified /\ u.profile = user.profile /\ u.interests = user.interests
  BY <1>4, <1>5 DEF UserType
<1>7. Grows(user, u) /\ UserFits(u, accounts')
  BY <1>1, <1>4, <1>6 DEF Grows, UserFits, UserOK
<1>8. PICK r : r = [op |-> "forgot", pc |-> "mail", token |-> k, name |-> FALSE]
  OBVIOUS
<1>9. RequestFits(r, u)
  BY <1>1, <1>6, <1>8, WaitsFits
<1>10. request' = [request EXCEPT ![t] = r]
  BY <1>1, <1>3, <1>8 DEF M!Waits
<1>11. request'[t] = r /\ r.pc = "mail" /\ r.op = "forgot" /\ r.token = k
  BY <1>8, <1>10, AccountsAre
<1>12. place' = [place EXCEPT ![t] = place[t]] /\ Fits(place[t], u)
  BY <1>1, <1>7, PlaceStays, PlacesOf, OfGrows
<1>13. user' = u
  BY <1>1, <1>3, <1>5
<1>14. Steps(t, u, place[t], r)
  BY <1>1, <1>2, <1>3, <1>6, <1>7, <1>9, <1>10, <1>12, <1>13, AccountsAre DEF Steps
<1>15. ASSUME alone'  PROVE TokensOK' /\ HeldOK(t)' /\ MailsOf(t)'
  <2>1. uses[k] = 0 /\ \A n \in 1..MaxRequests : n > k => n > requests
    BY <1>2, <1>3, <1>4, <1>15 DEF TokensOK
  <2>2. TokensOK'
    BY <1>1, <1>2, <1>3, <1>6, <1>13, <1>15, <2>1 DEF TokensOK
  <2>3. HeldOK(t)'
    BY <1>6, <1>11, <1>13 DEF HeldOK
  <2>4. MailsOf(t)'
    BY <1>1, <1>2, <1>6, <1>11, <1>13, <1>15
       DEF MailsOf, LinkGood, CodeGood, MailsLink, MailsCode
  <2> QED BY <2>2, <2>3, <2>4
<1> QED BY <1>2, <1>14, <1>15, AccountsSteps

LEMMA AccountsResetSave ==
  ASSUME AccountsInv, NEW t \in Browsers, M!ResetSave(t)  PROVE AccountsInv'
<1>1. /\ M!GoesOn(t, "hash") /\ UNCHANGED <<accounts, invited, inbox, place, mailed>>
      /\ request' = [request EXCEPT ![t] = M!Idle]
      /\ user' = [user EXCEPT !.password = TRUE, !.reset = 0]
      /\ uses' = [uses EXCEPT ![request[t].token] = @ + 1]
  BY DEF M!ResetSave, M!Done
<1>2. /\ request[t].pc = "hash" /\ request[t] \in RequestType /\ RequestOK(t)
      /\ requests' = requests /\ alone' = alone
      /\ alone => Only(t) /\ TokensOK /\ HeldOK(t) /\ MailsOf(t)
  BY <1>1, AccountsGo
<1>3. PICK k : k = request[t].token
  OBVIOUS
<1>4. k \in 1..MaxRequests
  BY <1>2, <1>3, AccountConstants DEF RequestOK, RequestType
<1>5. user \in UserType /\ UserOK /\ uses \in [1..MaxRequests -> Nat]
  BY AccountsAre
<1>6. /\ uses' \in [1..MaxRequests -> Nat] /\ uses'[k] = uses[k] + 1
      /\ \A n \in 1..MaxRequests : n # k => uses'[n] = uses[n]
  BY <1>1, <1>3, <1>4, <1>5
<1>7. PICK z \in 0..MaxRequests : z = 0
  BY AccountConstants
<1>8. PICK u : u = [user EXCEPT !.password = TRUE, !.reset = z]
  OBVIOUS
<1>9. /\ u \in UserType /\ u.code = user.code /\ u.reset = 0
      /\ u.is = user.is /\ u.named = user.named /\ u.picked = user.picked
      /\ u.verified = user.verified /\ u.profile = user.profile /\ u.interests = user.interests
  BY <1>5, <1>7, <1>8 DEF UserType
<1>10. user' = u
  BY <1>1, <1>7, <1>8
<1>11. Grows(user, u) /\ UserFits(u, accounts')
  BY <1>1, <1>5, <1>9 DEF Grows, UserFits, UserOK
<1>12. place' = [place EXCEPT ![t] = place[t]] /\ Fits(place[t], u)
  BY <1>1, <1>11, PlaceStays, PlacesOf, OfGrows
<1>13. Steps(t, u, place[t], M!Idle)
  BY <1>1, <1>2, <1>6, <1>9, <1>10, <1>11, <1>12, IdleFits, AccountsAre DEF Steps
<1>14. ASSUME alone  PROVE TokensOK' /\ HeldOK(t)' /\ MailsOf(t)'
  <2>1. k = user.reset /\ uses[k] = 0
    BY <1>2, <1>3, <1>4, <1>14, AccountConstants DEF HeldOK, TokensOK
  <2>2. k <= requests /\ requests \in Nat
    BY <1>2, <1>14, <2>1, AccountsAre, AccountConstants DEF TokensOK
  <2>3. TokensOK'
    BY <1>2, <1>4, <1>6, <1>9, <1>10, <1>14, <2>1, <2>2 DEF TokensOK
  <2>4. HeldOK(t)'
    <3>1. request'[t] = M!Idle
      BY <1>1, AccountsAre
    <3> QED BY <3>1, IdleIs DEF HeldOK
  <2>5. MailsOf(t)'
    <3> SUFFICES ASSUME mailed PROVE LinkGood' /\ CodeGood'
      BY <1>1 DEF MailsOf
    <3>1. LinkGood /\ CodeGood
      BY <1>2, <1>14 DEF MailsOf, MailsLink, MailsCode
    <3>2. inbox.reset \in 0..MaxRequests
      BY AccountsAre
    <3> QED BY <1>1, <1>4, <1>6, <1>9, <1>10, <2>1, <3>1, <3>2, AccountConstants
            DEF LinkGood, CodeGood
  <2> QED BY <2>3, <2>4, <2>5
<1> QED BY <1>2, <1>13, <1>14, AccountsSteps

LEMMA StampedIs ==
  ASSUME NEW v \in UserType
  PROVE  /\ M!Stamped(v) \in UserType
         /\ M!Stamped(v).is = v.is /\ M!Stamped(v).named = v.named
         /\ M!Stamped(v).picked = v.picked /\ M!Stamped(v).verified = v.verified
         /\ M!Stamped(v).code = v.code /\ M!Stamped(v).reset = v.reset
         /\ M!Stamped(v).profile => v.profile \/ v.named
         /\ M!Stamped(v).interests => v.interests \/ v.picked
<1>1. PICK b \in BOOLEAN, c \in BOOLEAN :
        (b <=> (v.profile \/ v.named)) /\ (c <=> (v.interests \/ v.picked))
  OBVIOUS
<1>2. (v.profile \/ v.named) = b
  BY <1>1 DEF UserType
<1>3. (v.interests \/ v.picked) = c
  BY <1>1 DEF UserType
<1>4. M!Stamped(v) = [v EXCEPT !.profile = v.profile \/ v.named,
                               !.interests = v.interests \/ v.picked]
  BY DEF M!Stamped
<1>5. M!Stamped(v) = [v EXCEPT !.profile = b, !.interests = c]
  BY <1>2, <1>3, <1>4
<1>6. PICK w : w = [v EXCEPT !.profile = b, !.interests = c]
  OBVIOUS
<1>7. w \in UserType
  BY <1>6 DEF UserType
<1>8. /\ w.is = v.is /\ w.named = v.named /\ w.picked = v.picked /\ w.verified = v.verified
      /\ w.code = v.code /\ w.reset = v.reset
      /\ w.profile = b /\ w.interests = c
  BY <1>6 DEF UserType
<1> QED BY <1>1, <1>5, <1>6, <1>7, <1>8

LEMMA AccountsProfile ==
  ASSUME AccountsInv, NEW t \in Browsers, M!ProfileSetup(t)  PROVE AccountsInv'
<1>1. PICK c : c = [place[t].copy EXCEPT !.named = TRUE]
  OBVIOUS
<1>2. /\ M!Begins(t) /\ place[t].at = "profile"
      /\ user' = M!Stamped([user EXCEPT !.named = TRUE])
      /\ place' = [place EXCEPT ![t].copy = c, ![t].at = "interests"]
      /\ UNCHANGED <<accounts, invited, inbox, request, uses, mailed>>
  BY <1>1 DEF M!ProfileSetup
<1>3. user \in UserType /\ UserOK /\ invited \in BOOLEAN
  BY AccountsAre
<1>4. user.is
  BY <1>2, AccountsAre DEF PlaceOK
<1>5. PICK v : v = [user EXCEPT !.named = TRUE]
  OBVIOUS
<1>6. /\ v \in UserType /\ v.is = user.is /\ v.named /\ v.picked = user.picked
      /\ v.verified = user.verified /\ v.code = user.code /\ v.reset = user.reset
      /\ v.profile = user.profile /\ v.interests = user.interests
  BY <1>3, <1>5 DEF UserType
<1>7. PICK u : u = M!Stamped(v)
  OBVIOUS
<1>8. /\ u \in UserType /\ u.is /\ u.named /\ u.picked = user.picked
      /\ u.verified = user.verified /\ u.code = user.code /\ u.reset = user.reset
      /\ u.interests => user.interests \/ user.picked
  BY <1>4, <1>6, <1>7, StampedIs
<1>9. Grows(user, u) /\ UserFits(u, accounts')
  BY <1>2, <1>3, <1>4, <1>8 DEF Grows, UserFits, UserOK
<1>10. place[t] \in PlaceType /\ Fits(place[t], user)
  BY PlacesOf, AccountsAre
<1>11. /\ c \in CopyType /\ c.named /\ c.picked = place[t].copy.picked
       /\ c.interests = place[t].copy.interests /\ c.profile = place[t].copy.profile
  BY <1>1, <1>10 DEF PlaceType, CopyType
<1>12. PICK p : p = [place[t] EXCEPT !.copy = c, !.at = "interests"]
  OBVIOUS
<1>13. p \in PlaceType /\ p.at = "interests" /\ p.copy = c /\ p.session = place[t].session
  BY <1>10, <1>11, <1>12 DEF PlaceType
<1>14. place' = [place EXCEPT ![t] = p]
  BY <1>2, <1>12, AccountsAre
<1>15. Fits(p, u)
  BY <1>8, <1>10, <1>11, <1>13 DEF Fits
<1>16. request[t] = M!Idle /\ request' = [request EXCEPT ![t] = M!Idle]
  BY <1>2, AccountsBegin, RequestStays
<1>17. user' = u
  BY <1>2, <1>5, <1>7
<1> QED BY <1>2, <1>3, <1>8, <1>9, <1>14, <1>15, <1>16, <1>17, IdleFits, IdleIs, AccountsCalm

LEMMA AccountsInterests ==
  ASSUME AccountsInv, NEW t \in Browsers, M!InterestsSelector(t)  PROVE AccountsInv'
<1>1. PICK c : c = [place[t].copy EXCEPT !.picked = TRUE]
  OBVIOUS
<1>2. /\ M!Begins(t) /\ place[t].at = "interests"
      /\ user' = M!Stamped([user EXCEPT !.picked = TRUE])
      /\ place' = [place EXCEPT ![t].copy = c, ![t].at = M!Gate(c)]
      /\ UNCHANGED <<accounts, invited, inbox, request, uses, mailed>>
  BY <1>1 DEF M!InterestsSelector
<1>3. user \in UserType /\ UserOK /\ invited \in BOOLEAN
  BY AccountsAre
<1>4. user.is
  BY <1>2, AccountsAre DEF PlaceOK
<1>5. PICK v : v = [user EXCEPT !.picked = TRUE]
  OBVIOUS
<1>6. /\ v \in UserType /\ v.is = user.is /\ v.picked /\ v.named = user.named
      /\ v.verified = user.verified /\ v.code = user.code /\ v.reset = user.reset
      /\ v.profile = user.profile /\ v.interests = user.interests
  BY <1>3, <1>5 DEF UserType
<1>7. PICK u : u = M!Stamped(v)
  OBVIOUS
<1>8. /\ u \in UserType /\ u.is /\ u.picked /\ u.named = user.named
      /\ u.verified = user.verified /\ u.code = user.code /\ u.reset = user.reset
      /\ u.profile => user.profile \/ user.named
  BY <1>4, <1>6, <1>7, StampedIs
<1>9. Grows(user, u) /\ UserFits(u, accounts')
  BY <1>2, <1>3, <1>4, <1>8 DEF Grows, UserFits, UserOK
<1>10. place[t] \in PlaceType /\ Fits(place[t], user)
  BY PlacesOf, AccountsAre
<1>11. /\ c \in CopyType /\ c.picked /\ c.named = place[t].copy.named
       /\ c.interests = place[t].copy.interests /\ c.profile = place[t].copy.profile
  BY <1>1, <1>10 DEF PlaceType, CopyType
<1>12. PICK at \in {"profile", "interests", "home"} : at = M!Gate(c)
  BY GateIs
<1>13. at = "home" => c.named \/ c.profile
  BY <1>12, GateIs
<1>14. PICK p : p = [place[t] EXCEPT !.copy = c, !.at = at]
  OBVIOUS
<1>15. p \in PlaceType /\ p.at = at /\ p.copy = c /\ p.session = place[t].session
  BY <1>10, <1>11, <1>14 DEF PlaceType
<1>16. place' = [place EXCEPT ![t] = p]
  BY <1>2, <1>12, <1>14, AccountsAre
<1>17. Fits(p, u)
  BY <1>8, <1>10, <1>11, <1>13, <1>15 DEF Fits
<1>18. request[t] = M!Idle /\ request' = [request EXCEPT ![t] = M!Idle]
  BY <1>2, AccountsBegin, RequestStays
<1>19. user' = u
  BY <1>2, <1>5, <1>7
<1> QED BY <1>2, <1>3, <1>8, <1>9, <1>16, <1>17, <1>18, <1>19, IdleFits, IdleIs, AccountsCalm

LEMMA AccountsInit == M!Init => AccountsInv
<1> SUFFICES ASSUME M!Init PROVE AccountsInv
  OBVIOUS
<1>1. PICK z \in 0..MaxRequests : z = 0
  BY AccountConstants
<1>2. /\ user = M!Absent /\ accounts = 0 /\ invited \in BOOLEAN
      /\ inbox = [code |-> z, reset |-> z]
      /\ place = [t \in Browsers |-> M!SignedOut] /\ request = [t \in Browsers |-> M!Idle]
      /\ requests = z /\ uses = [n \in 1..MaxRequests |-> 0]
      /\ alone = TRUE /\ mailed = TRUE
  BY <1>1 DEF M!Init
<1>3. M!SignedOut \in PlaceType /\ Fits(M!SignedOut, user)
  BY SignedOutOf DEF Fits
<1>4. uses \in [1..MaxRequests -> Nat]
  BY <1>2
<1>5. AccountTypes
  BY <1>1, <1>2, <1>3, <1>4, AbsentIs, IdleIs DEF AccountTypes
<1>6. UserOK
  BY <1>2, AbsentIs DEF UserOK
<1>7. \A t \in Browsers : PlaceOK(t) /\ RequestOK(t)
  BY <1>2, <1>3, IdleIs DEF PlaceOK, RequestOK, Fits, Reachable
<1>8. InTurnOK
  <2>1. TokensOK
    BY <1>1, <1>2, AbsentIs DEF TokensOK
  <2>2. MailsOK
    BY <1>1, <1>2 DEF MailsOK, LinkGood, CodeGood
  <2> QED BY <1>2, <2>1, <2>2, IdleIs DEF InTurnOK, M!Quiet, HeldOK
<1> QED BY <1>5, <1>6, <1>7, <1>8 DEF AccountsInv

LEMMA AccountsNext == AccountsInv /\ M!Next => AccountsInv'
<1> SUFFICES ASSUME AccountsInv, NEW t \in Browsers,
                    \/ M!Visit(t) \/ M!Splash(t) \/ M!SignOut(t)
                    \/ M!Register(t) \/ M!RegisterCreate(t) \/ M!IssueCode(t) \/ M!Mail(t)
                    \/ (\E name \in BOOLEAN : M!Google(t, name)) \/ M!GoogleCreate(t)
                    \/ M!Accept(t) \/ M!AcceptCreate(t) \/ M!Join(t) \/ M!Login(t)
                    \/ M!Resend(t) \/ M!Verify(t) \/ M!VerifySave(t) \/ M!Forgot(t)
                    \/ M!Reset(t) \/ M!ResetSave(t)
                    \/ M!ProfileSetup(t) \/ M!InterestsSelector(t)
             PROVE  AccountsInv'
  BY DEF M!Next
<1>1. CASE M!Visit(t) \/ M!Splash(t) \/ M!SignOut(t)
  BY <1>1, AccountsMoves
<1>2. CASE M!Register(t) \/ M!Accept(t) \/ M!Resend(t) \/ M!Verify(t) \/ M!Reset(t)
  BY <1>2, AccountsRegister
<1>3. CASE M!RegisterCreate(t) \/ M!AcceptCreate(t)
  BY <1>3, AccountsCreate
<1>4. CASE \E name \in BOOLEAN : M!Google(t, name)
  BY <1>4, AccountsGoogle
<1>5. CASE M!GoogleCreate(t) \/ M!Join(t) \/ M!Login(t)
  BY <1>5, AccountsGoogleCreate, AccountsJoin, AccountsLogin
<1>6. CASE M!IssueCode(t) \/ M!Mail(t) \/ M!VerifySave(t) \/ M!Forgot(t) \/ M!ResetSave(t)
  BY <1>6, AccountsIssueCode, AccountsMail, AccountsVerifySave, AccountsForgot, AccountsResetSave
<1>7. CASE M!ProfileSetup(t) \/ M!InterestsSelector(t)
  BY <1>7, AccountsProfile, AccountsInterests
<1> QED BY <1>1, <1>2, <1>3, <1>4, <1>5, <1>6, <1>7

LEMMA AccountsStutter == AccountsInv /\ UNCHANGED accountVars => AccountsInv'
<1> SUFFICES ASSUME AccountsInv, UNCHANGED accountVars PROVE AccountsInv'
  OBVIOUS
<1>0. /\ user' = user /\ accounts' = accounts /\ invited' = invited /\ inbox' = inbox
      /\ place' = place /\ request' = request /\ requests' = requests /\ uses' = uses
      /\ alone' = alone /\ mailed' = mailed
  BY DEF accountVars
<1>1. AccountTypes' /\ UserOK'
  BY <1>0 DEF AccountsInv, AccountTypes, UserType, PlaceType, CopyType, RequestType, UserOK
<1>2. ASSUME NEW o \in Browsers  PROVE PlaceOK(o)' /\ RequestOK(o)'
  <2>1. PlaceOK(o) /\ RequestOK(o)
    BY AccountsAre
  <2> QED BY <1>0, <2>1 DEF PlaceOK, RequestOK, Reachable
<1>3. InTurnOK'
  BY <1>0, AccountsAre DEF InTurnOK, M!Quiet, TokensOK, MailsOK, LinkGood, CodeGood, MailsLink,
                           MailsCode, HeldOK
<1> QED BY <1>1, <1>2, <1>3 DEF AccountsInv

LEMMA AccountsImply == AccountsInv => M!TypeOK /\ M!AccountsWork
<1> SUFFICES ASSUME AccountsInv PROVE M!TypeOK /\ M!AccountsWork
  OBVIOUS
<1>1. M!TypeOK
  <2>1. DOMAIN user = DOMAIN M!Absent
    BY AccountsAre, AbsentIs DEF UserType
  <2>2. user.code \in 0..MaxRequests /\ user.reset \in 0..MaxRequests
    BY AccountsAre DEF UserType
  <2>3. \A t \in Browsers : place[t].at \in {"out", "profile", "interests", "home"}
    BY AccountsAre DEF PlaceType
  <2> QED BY <2>1, <2>2, <2>3, AccountsAre DEF M!TypeOK
<1>2. M!OneAccount
  BY AccountsAre DEF M!OneAccount, UserOK
<1>3. M!LetInFinished
  BY AccountsAre DEF M!LetInFinished, PlaceOK
<1>4. M!LinksWork
  <2> SUFFICES ASSUME alone
               PROVE  /\ \A n \in DOMAIN uses : uses[n] <= 1
                      /\ mailed /\ (\A t \in Browsers : M!Quiet(t)) =>
                           /\ inbox.reset # 0 => uses[inbox.reset] = 1 \/ user.reset = inbox.reset
                           /\ inbox.code # 0 => user.verified \/ user.code = inbox.code
    BY DEF M!LinksWork
  <2>1. DOMAIN uses = 1..MaxRequests
    BY AccountsAre
  <2>2. TokensOK /\ MailsOK
    BY AccountsAre DEF InTurnOK
  <2>3. (\A t \in Browsers : M!Quiet(t)) => \A t \in Browsers : request[t].pc = "idle"
    BY IdleIs DEF M!Quiet
  <2> QED BY <2>1, <2>2, <2>3 DEF TokensOK, MailsOK, LinkGood, CodeGood, MailsLink, MailsCode
<1> QED BY <1>1, <1>2, <1>3, <1>4 DEF M!AccountsWork

\* However registrations, Google, invitations, mails and links interleave in any
\* number of tabs: the address has one account, whoever is past the gate has a name
\* and interests, and what the last mails hold works once (auth.service.ts,
\* google-oauth.service.ts, routes.tsx).
THEOREM AccountsRight == M!Init /\ [][M!Next]_accountVars => [](M!TypeOK /\ M!AccountsWork)
<1>1. AccountsInv /\ [M!Next]_accountVars => AccountsInv'
  BY AccountsNext, AccountsStutter
<1> QED BY <1>1, AccountsInit, AccountsImply, PTL

-----------------------------------------------------------------------------
(* What the screens show: the inductive invariant of QueryCache            *)

\* But for the pairs left out, a hook that does not write the query's data in
\* place refreshes it.
Refreshed ==
    \/ C!InPlace \/ pair.query.key \in pair.hook.refreshes
    \/ <<pair.hook.name, pair.query.key>> \in C!Missed

\* A change that overlaps with no other has found the settings as they are.
CallOK(c) ==
    C!InPlace /\ call[c].alone =>
        /\ C!InFlight(c) => \A o \in Calls : C!InFlight(o) => o = c
        /\ call[c].pc = "loaded" => call[c].loaded = server
        /\ call[c].pc = "saved" => server = call[c].loaded \cup {c}

EntryOK ==
    <<pair.hook.name, pair.query.key>> \notin C!Missed =>
        /\ tab.get = "read" /\ ~ tab.late => C!Confirmed \subseteq tab.got
        /\ tab.state \in {"fresh", "aged"} /\ ~ tab.overtaken => C!Confirmed \subseteq tab.data

CacheInv ==
    /\ C!TypeOK
    /\ Refreshed
    /\ \A c \in Calls : CallOK(c)
    /\ EntryOK

-----------------------------------------------------------------------------
(* QueryCache: which hook refreshes what                                   *)

\* A hook is known by its name.
LEMMA HooksByName ==
  ASSUME NEW h \in C!Hooks
  PROVE 
        /\ h.name \in {"useJoinCommunity", "useRequestJoin"}
              => h \in C!JoinHooks
        /\ h.name \in {"useRsvp", "useCancelRsvp"}
              => h \in C!RsvpHooks
        /\ h.name \in {"useCreateEvent", "useUpdateEvent", "useCancelEvent", "useAssignManager",
                      "usePublishRecap", "useRemoveManager"}
              => h \in C!EventHooks
        /\ h.name \in {"useUploadMaterial", "useUploadRecapPhoto"}
              => h \in C!MaterialHooks
        /\ h.name \in {"useAskQuestion", "useUpvoteQA", "useAnswerQA", "usePinQA", "useResolveQA"}
              => h \in C!QuestionHooks
        /\ h.name \in {"useCreatePost", "useCommentOnPost"}
              => h \in C!PostHooks
        /\ h.name \in {"useCreateInitiative", "useSupportInitiative", "useCommentOnInitiative"}
              => h \in C!InitiativeHooks
        /\ h.name \in {"useMarkNotificationRead", "useMarkAllNotificationsRead",
                      "useUpdateNotificationPrefs"}
              => h \in C!NoticeHooks
        /\ h.name \in {"useCheckInRsvp", "useCheckInAll"}
              => h \in C!CheckInHooks
        /\ h.name \in {"useChangeMemberRole", "useRemoveMember"}
              => h \in C!MemberHooks
        /\ h.name \in {"useApproveMember", "useRejectMember", "useModeratePost", "useApproveInitiative",
                      "useRejectInitiative"}
              => h \in C!ReviewHooks
        /\ h.name \in {"useCancelMySubscription", "useRefundPayment"}
              => h \in C!MoneyHooks
        /\ h.name \in {"useUpdateCommunity", "useOnboardCommunity"}
              => h \in C!CommunityHooks
        /\ h.name \in {"useSuperCreateCommunity", "useSuperUpdateCommunity", "useSuperDeleteCommunity"}
              => h \in C!SuperCommunityHooks
        /\ h.name \in {"useSuperDisableUser", "useSuperEnableUser", "useSuperPromoteUser"}
              => h \in C!SuperUserHooks
        /\ h.name \in {"useSuperSuspendCommunity", "useSuperRestoreCommunity"}
              => h \in C!SuspendHooks
        /\ h.name = "useUpdatePrivacy" => h = C!UpdatePrivacy
<1>1. CASE h \in C!JoinHooks
  <2>1. h.name \in {"useJoinCommunity", "useRequestJoin"}
    BY <1>1 DEF C!JoinHooks, C!Hook
  <2> QED BY <1>1, <2>1
<1>2. CASE h \in C!RsvpHooks
  <2>1. h.name \in {"useRsvp", "useCancelRsvp"}
    BY <1>2 DEF C!RsvpHooks, C!Hook, C!RsvpKeys
  <2> QED BY <1>2, <2>1
<1>3. CASE h \in C!EventHooks
  <2>1. h.name \in {"useCreateEvent", "useUpdateEvent", "useCancelEvent", "useAssignManager",
                    "usePublishRecap", "useRemoveManager"}
    BY <1>3 DEF C!EventHooks, C!Hook
  <2> QED BY <1>3, <2>1
<1>4. CASE h \in C!MaterialHooks
  <2>1. h.name \in {"useUploadMaterial", "useUploadRecapPhoto"}
    BY <1>4 DEF C!MaterialHooks, C!Hook
  <2> QED BY <1>4, <2>1
<1>5. CASE h \in C!QuestionHooks
  <2>1. h.name \in {"useAskQuestion", "useUpvoteQA", "useAnswerQA", "usePinQA", "useResolveQA"}
    BY <1>5 DEF C!QuestionHooks, C!Hook
  <2> QED BY <1>5, <2>1
<1>6. CASE h \in C!PostHooks
  <2>1. h.name \in {"useCreatePost", "useCommentOnPost"}
    BY <1>6 DEF C!PostHooks, C!Hook
  <2> QED BY <1>6, <2>1
<1>7. CASE h \in C!InitiativeHooks
  <2>1. h.name \in {"useCreateInitiative", "useSupportInitiative", "useCommentOnInitiative"}
    BY <1>7 DEF C!InitiativeHooks, C!Hook
  <2> QED BY <1>7, <2>1
<1>8. CASE h \in C!NoticeHooks
  <2>1. h.name \in {"useMarkNotificationRead", "useMarkAllNotificationsRead",
                    "useUpdateNotificationPrefs"}
    BY <1>8 DEF C!NoticeHooks, C!Hook
  <2> QED BY <1>8, <2>1
<1>9. CASE h \in C!CheckInHooks
  <2>1. h.name \in {"useCheckInRsvp", "useCheckInAll"}
    BY <1>9 DEF C!CheckInHooks, C!Hook
  <2> QED BY <1>9, <2>1
<1>10. CASE h \in C!MemberHooks
  <2>1. h.name \in {"useChangeMemberRole", "useRemoveMember"}
    BY <1>10 DEF C!MemberHooks, C!Hook
  <2> QED BY <1>10, <2>1
<1>11. CASE h \in C!ReviewHooks
  <2>1. h.name \in {"useApproveMember", "useRejectMember", "useModeratePost",
                    "useApproveInitiative", "useRejectInitiative"}
    BY <1>11 DEF C!ReviewHooks, C!Hook
  <2> QED BY <1>11, <2>1
<1>12. CASE h \in C!MoneyHooks
  <2>1. h.name \in {"useCancelMySubscription", "useRefundPayment"}
    BY <1>12 DEF C!MoneyHooks, C!Hook
  <2> QED BY <1>12, <2>1
<1>13. CASE h \in C!CommunityHooks
  <2>1. h.name \in {"useUpdateCommunity", "useOnboardCommunity"}
    BY <1>13 DEF C!CommunityHooks, C!Hook
  <2> QED BY <1>13, <2>1
<1>14. CASE h \in C!SuperCommunityHooks
  <2>1. h.name \in {"useSuperCreateCommunity", "useSuperUpdateCommunity",
                    "useSuperDeleteCommunity"}
    BY <1>14 DEF C!SuperCommunityHooks, C!Hook
  <2> QED BY <1>14, <2>1
<1>15. CASE h \in C!SuperUserHooks
  <2>1. h.name \in {"useSuperDisableUser", "useSuperEnableUser", "useSuperPromoteUser"}
    BY <1>15 DEF C!SuperUserHooks, C!Hook
  <2> QED BY <1>15, <2>1
<1>16. CASE h \in C!SuspendHooks
  <2>1. h.name \in {"useSuperSuspendCommunity", "useSuperRestoreCommunity"}
    BY <1>16 DEF C!SuspendHooks, C!Hook
  <2> QED BY <1>16, <2>1
<1>17. CASE h = C!UpdatePrivacy
  <2>1. h.name = "useUpdatePrivacy"
    BY <1>17 DEF C!UpdatePrivacy, C!Hook
  <2> QED BY <1>17, <2>1
<1> QED BY <1>1, <1>2, <1>3, <1>4, <1>5, <1>6, <1>7, <1>8, <1>9, <1>10, <1>11, <1>12, <1>13,
           <1>14, <1>15, <1>16, <1>17 DEF C!Hooks

\* A query is known by its key.
LEMMA QueriesByKey ==
  ASSUME NEW q \in C!Queries
  PROVE 
        /\ q.key \in {"discovery", "my-communities", "my-rsvps"}
              => q \in C!DiscoveryQueries
        /\ q.key \in {"community", "community-events", "event"}
              => q \in C!CommunityQueries
        /\ q.key \in {"event-materials", "event-qa"}
              => q \in C!EventQueries
        /\ q.key \in {"community-posts", "post", "post-comments"}
              => q \in C!PostQueries
        /\ q.key \in {"community-initiatives", "initiative", "initiative-comments"}
              => q \in C!InitiativeQueries
        /\ q.key \in {"notifications", "notif-prefs"}
              => q \in C!NoticeQueries
        /\ q.key \in {"my-managed-events", "event-attendees"}
              => q \in C!ManagerQueries
        /\ q.key \in {"me-privacy"}
              => q \in C!PrivacyQuery
        /\ q.key \in {"members", "admin-overview", "pending-members", "moderation-queue"}
              => q \in C!AdminQueries
        /\ q.key \in {"my-subscriptions"}
              => q \in C!SubscriptionQueries
        /\ q.key \in {"payment", "finances"}
              => q \in C!PaymentQueries
        /\ q.key \in {"super-communities", "super-users"}
              => q \in C!SuperQueries
        /\ q.key \in {"super-community-detail", "super-user-detail"}
              => q \in C!SuperDetailQueries
<1>1. CASE q \in C!DiscoveryQueries
  <2>1. q.key \in {"discovery", "my-communities", "my-rsvps"}
    BY <1>1 DEF C!DiscoveryQueries, C!Query
  <2> QED BY <1>1, <2>1
<1>2. CASE q \in C!CommunityQueries
  <2>1. q.key \in {"community", "community-events", "event"}
    BY <1>2 DEF C!CommunityQueries, C!Query
  <2> QED BY <1>2, <2>1
<1>3. CASE q \in C!EventQueries
  <2>1. q.key \in {"event-materials", "event-qa"}
    BY <1>3 DEF C!EventQueries, C!Query
  <2> QED BY <1>3, <2>1
<1>4. CASE q \in C!PostQueries
  <2>1. q.key \in {"community-posts", "post", "post-comments"}
    BY <1>4 DEF C!PostQueries, C!Query
  <2> QED BY <1>4, <2>1
<1>5. CASE q \in C!InitiativeQueries
  <2>1. q.key \in {"community-initiatives", "initiative", "initiative-comments"}
    BY <1>5 DEF C!InitiativeQueries, C!Query
  <2> QED BY <1>5, <2>1
<1>6. CASE q \in C!NoticeQueries
  <2>1. q.key \in {"notifications", "notif-prefs"}
    BY <1>6 DEF C!NoticeQueries, C!Query
  <2> QED BY <1>6, <2>1
<1>7. CASE q \in C!ManagerQueries
  <2>1. q.key \in {"my-managed-events", "event-attendees"}
    BY <1>7 DEF C!ManagerQueries, C!Query
  <2> QED BY <1>7, <2>1
<1>8. CASE q \in C!PrivacyQuery
  <2>1. q.key \in {"me-privacy"}
    BY <1>8 DEF C!PrivacyQuery, C!Query
  <2> QED BY <1>8, <2>1
<1>9. CASE q \in C!AdminQueries
  <2>1. q.key \in {"members", "admin-overview", "pending-members", "moderation-queue"}
    BY <1>9 DEF C!AdminQueries, C!Query
  <2> QED BY <1>9, <2>1
<1>10. CASE q \in C!SubscriptionQueries
  <2>1. q.key \in {"my-subscriptions"}
    BY <1>10 DEF C!SubscriptionQueries, C!Query
  <2> QED BY <1>10, <2>1
<1>11. CASE q \in C!PaymentQueries
  <2>1. q.key \in {"payment", "finances"}
    BY <1>11 DEF C!PaymentQueries, C!Query
  <2> QED BY <1>11, <2>1
<1>12. CASE q \in C!SuperQueries
  <2>1. q.key \in {"super-communities", "super-users"}
    BY <1>12 DEF C!SuperQueries, C!Query
  <2> QED BY <1>12, <2>1
<1>13. CASE q \in C!SuperDetailQueries
  <2>1. q.key \in {"super-community-detail", "super-user-detail"}
    BY <1>13 DEF C!SuperDetailQueries, C!Query
  <2> QED BY <1>13, <2>1
<1> QED BY <1>1, <1>2, <1>3, <1>4, <1>5, <1>6, <1>7, <1>8, <1>9, <1>10, <1>11, <1>12, <1>13 DEF C!Queries

\* What a hook changes of a query's answer, it refreshes, or is known to miss.
Sees(h, q) ==
    h.writes \cap q.reads # {} =>
        \/ h = C!UpdatePrivacy \/ q.key \in h.refreshes
        \/ <<h.name, q.key>> \in C!Missed

\* One screen, its hooks and its queries
BesideOK(s) ==
    \A h \in C!Hooks, q \in C!Queries : h.name \in s.uses /\ q.key \in s.shows => Sees(h, q)

LEMMA CommunityDetailOK == BesideOK(C!CommunityDetail)
<1> SUFFICES ASSUME NEW h \in C!Hooks, NEW q \in C!Queries,
                    h.name \in C!CommunityDetail.uses, q.key \in C!CommunityDetail.shows
             PROVE  Sees(h, q)
  BY DEF BesideOK
<1>1. h.name \in {"useJoinCommunity"}
  BY DEF C!CommunityDetail, C!On
<1>2. q.key \in {"community", "community-events", "my-communities"}
  BY DEF C!CommunityDetail, C!On
<1>3. h \in C!JoinHooks
  BY <1>1, HooksByName
<1>4. q \in C!DiscoveryQueries \/ q \in C!CommunityQueries
  BY <1>2, QueriesByKey
<1> QED BY <1>1, <1>2, <1>3, <1>4
       DEF Sees, C!Missed, C!JoinHooks, C!Hook, C!DiscoveryQueries, C!CommunityQueries, C!Query,
           C!CommunityShown, C!EventShown

LEMMA DiscoverOK == BesideOK(C!Discover)
<1> SUFFICES ASSUME NEW h \in C!Hooks, NEW q \in C!Queries,
                    h.name \in C!Discover.uses, q.key \in C!Discover.shows
             PROVE  Sees(h, q)
  BY DEF BesideOK
<1>1. h.name \in {"useJoinCommunity", "useRequestJoin"}
  BY DEF C!Discover, C!On
<1>2. q.key \in {"discovery"}
  BY DEF C!Discover, C!On
<1>3. h \in C!JoinHooks
  BY <1>1, HooksByName
<1>4. q \in C!DiscoveryQueries
  BY <1>2, QueriesByKey
<1> QED BY <1>1, <1>2, <1>3, <1>4
       DEF Sees, C!Missed, C!JoinHooks, C!Hook, C!DiscoveryQueries, C!Query, C!CommunityShown,
           C!EventShown

LEMMA EventDetailOK == BesideOK(C!EventDetail)
<1> SUFFICES ASSUME NEW h \in C!Hooks, NEW q \in C!Queries,
                    h.name \in C!EventDetail.uses, q.key \in C!EventDetail.shows
             PROVE  Sees(h, q)
  BY DEF BesideOK
<1>1. h.name \in {"useRsvp", "useCancelRsvp"}
  BY DEF C!EventDetail, C!On
<1>2. q.key \in {"event", "my-subscriptions"}
  BY DEF C!EventDetail, C!On
<1>3. h \in C!RsvpHooks
  BY <1>1, HooksByName
<1>4. q \in C!CommunityQueries \/ q \in C!SubscriptionQueries
  BY <1>2, QueriesByKey
<1> QED BY <1>1, <1>2, <1>3, <1>4
       DEF Sees, C!Missed, C!RsvpHooks, C!Hook, C!RsvpKeys, C!CommunityQueries,
           C!SubscriptionQueries, C!Query, C!CommunityShown, C!EventShown

LEMMA MaterialsOK == BesideOK(C!Materials)
<1> SUFFICES ASSUME NEW h \in C!Hooks, NEW q \in C!Queries,
                    h.name \in C!Materials.uses, q.key \in C!Materials.shows
             PROVE  Sees(h, q)
  BY DEF BesideOK
<1>1. h.name \in {"useRsvp"}
  BY DEF C!Materials, C!On
<1>2. q.key \in {"event", "event-materials"}
  BY DEF C!Materials, C!On
<1>3. h \in C!RsvpHooks
  BY <1>1, HooksByName
<1>4. q \in C!CommunityQueries \/ q \in C!EventQueries
  BY <1>2, QueriesByKey
<1> QED BY <1>1, <1>2, <1>3, <1>4
       DEF Sees, C!Missed, C!RsvpHooks, C!Hook, C!RsvpKeys, C!CommunityQueries, C!EventQueries,
           C!Query, C!CommunityShown, C!EventShown

LEMMA EventQAOK == BesideOK(C!EventQA)
<1> SUFFICES ASSUME NEW h \in C!Hooks, NEW q \in C!Queries,
                    h.name \in C!EventQA.uses, q.key \in C!EventQA.shows
             PROVE  Sees(h, q)
  BY DEF BesideOK
<1>1. h.name \in {"useAskQuestion", "useUpvoteQA", "useAnswerQA", "usePinQA", "useResolveQA"}
  BY DEF C!EventQA, C!On, C!QuestionHooks, C!Hook
<1>2. q.key \in {"event", "event-qa"}
  BY DEF C!EventQA, C!On
<1>3. h \in C!QuestionHooks
  BY <1>1, HooksByName
<1>4. q \in C!CommunityQueries \/ q \in C!EventQueries
  BY <1>2, QueriesByKey
<1> QED BY <1>1, <1>2, <1>3, <1>4
       DEF Sees, C!Missed, C!QuestionHooks, C!Hook, C!CommunityQueries, C!EventQueries, C!Query,
           C!CommunityShown, C!EventShown

LEMMA AttendeeListOK == BesideOK(C!AttendeeList)
<1> SUFFICES ASSUME NEW h \in C!Hooks, NEW q \in C!Queries,
                    h.name \in C!AttendeeList.uses, q.key \in C!AttendeeList.shows
             PROVE  Sees(h, q)
  BY DEF BesideOK
<1>1. h.name \in {"useCheckInRsvp", "useCheckInAll"}
  BY DEF C!AttendeeList, C!On
<1>2. q.key \in {"event", "event-attendees"}
  BY DEF C!AttendeeList, C!On
<1>3. h \in C!CheckInHooks
  BY <1>1, HooksByName
<1>4. q \in C!CommunityQueries \/ q \in C!ManagerQueries
  BY <1>2, QueriesByKey
<1> QED BY <1>1, <1>2, <1>3, <1>4
       DEF Sees, C!Missed, C!CheckInHooks, C!Hook, C!CommunityQueries, C!ManagerQueries, C!Query,
           C!CommunityShown, C!EventShown

LEMMA PostDetailOK == BesideOK(C!PostDetail)
<1> SUFFICES ASSUME NEW h \in C!Hooks, NEW q \in C!Queries,
                    h.name \in C!PostDetail.uses, q.key \in C!PostDetail.shows
             PROVE  Sees(h, q)
  BY DEF BesideOK
<1>1. h.name \in {"useCommentOnPost"}
  BY DEF C!PostDetail, C!On
<1>2. q.key \in {"post", "post-comments"}
  BY DEF C!PostDetail, C!On
<1>3. h \in C!PostHooks
  BY <1>1, HooksByName
<1>4. q \in C!PostQueries
  BY <1>2, QueriesByKey
<1> QED BY <1>1, <1>2, <1>3, <1>4
       DEF Sees, C!Missed, C!PostHooks, C!Hook, C!PostQueries, C!Query, C!PostShown

LEMMA InitiativeDetailOK == BesideOK(C!InitiativeDetail)
<1> SUFFICES ASSUME NEW h \in C!Hooks, NEW q \in C!Queries,
                    h.name \in C!InitiativeDetail.uses, q.key \in C!InitiativeDetail.shows
             PROVE  Sees(h, q)
  BY DEF BesideOK
<1>1. h.name \in {"useSupportInitiative", "useCommentOnInitiative"}
  BY DEF C!InitiativeDetail, C!On
<1>2. q.key \in {"initiative", "initiative-comments"}
  BY DEF C!InitiativeDetail, C!On
<1>3. h \in C!InitiativeHooks
  BY <1>1, HooksByName
<1>4. q \in C!InitiativeQueries
  BY <1>2, QueriesByKey
<1> QED BY <1>1, <1>2, <1>3, <1>4
       DEF Sees, C!Missed, C!InitiativeHooks, C!Hook, C!InitiativeQueries, C!Query,
           C!InitiativeShown

LEMMA InboxOK == BesideOK(C!Inbox)
<1> SUFFICES ASSUME NEW h \in C!Hooks, NEW q \in C!Queries,
                    h.name \in C!Inbox.uses, q.key \in C!Inbox.shows
             PROVE  Sees(h, q)
  BY DEF BesideOK
<1>1. h.name \in {"useMarkNotificationRead", "useMarkAllNotificationsRead"}
  BY DEF C!Inbox, C!On
<1>2. q.key \in {"notifications"}
  BY DEF C!Inbox, C!On
<1>3. h \in C!NoticeHooks
  BY <1>1, HooksByName
<1>4. q \in C!NoticeQueries
  BY <1>2, QueriesByKey
<1> QED BY <1>1, <1>2, <1>3, <1>4
       DEF Sees, C!Missed, C!NoticeHooks, C!Hook, C!NoticeQueries, C!Query

LEMMA NotificationPrefsOK == BesideOK(C!NotificationPrefs)
<1> SUFFICES ASSUME NEW h \in C!Hooks, NEW q \in C!Queries,
                    h.name \in C!NotificationPrefs.uses, q.key \in C!NotificationPrefs.shows
             PROVE  Sees(h, q)
  BY DEF BesideOK
<1>1. h.name \in {"useUpdateNotificationPrefs"}
  BY DEF C!NotificationPrefs, C!On
<1>2. q.key \in {"notif-prefs"}
  BY DEF C!NotificationPrefs, C!On
<1>3. h \in C!NoticeHooks
  BY <1>1, HooksByName
<1>4. q \in C!NoticeQueries
  BY <1>2, QueriesByKey
<1> QED BY <1>1, <1>2, <1>3, <1>4
       DEF Sees, C!Missed, C!NoticeHooks, C!Hook, C!NoticeQueries, C!Query

LEMMA PrivacySettingsOK == BesideOK(C!PrivacySettings)
<1> SUFFICES ASSUME NEW h \in C!Hooks, NEW q \in C!Queries,
                    h.name \in C!PrivacySettings.uses, q.key \in C!PrivacySettings.shows
             PROVE  Sees(h, q)
  BY DEF BesideOK
<1>1. h.name \in {"useUpdatePrivacy"}
  BY DEF C!PrivacySettings, C!On
<1>2. q.key \in {"me-privacy"}
  BY DEF C!PrivacySettings, C!On
<1>3. h = C!UpdatePrivacy
  BY <1>1, HooksByName
<1>4. q \in C!PrivacyQuery
  BY <1>2, QueriesByKey
<1> QED BY <1>1, <1>2, <1>3, <1>4
       DEF Sees, C!Missed, C!UpdatePrivacy, C!Hook, C!PrivacyQuery, C!Query

LEMMA ApprovalQueueOK == BesideOK(C!ApprovalQueue)
<1> SUFFICES ASSUME NEW h \in C!Hooks, NEW q \in C!Queries,
                    h.name \in C!ApprovalQueue.uses, q.key \in C!ApprovalQueue.shows
             PROVE  Sees(h, q)
  BY DEF BesideOK
<1>1. h.name \in {"useApproveMember", "useRejectMember"}
  BY DEF C!ApprovalQueue, C!On
<1>2. q.key \in {"my-communities", "pending-members"}
  BY DEF C!ApprovalQueue, C!On
<1>3. h \in C!ReviewHooks
  BY <1>1, HooksByName
<1>4. q \in C!DiscoveryQueries \/ q \in C!AdminQueries
  BY <1>2, QueriesByKey
<1> QED BY <1>1, <1>2, <1>3, <1>4
       DEF Sees, C!Missed, C!ReviewHooks, C!Hook, C!DiscoveryQueries, C!AdminQueries, C!Query,
           C!CommunityShown, C!EventShown

LEMMA MemberDetailOK == BesideOK(C!MemberDetail)
<1> SUFFICES ASSUME NEW h \in C!Hooks, NEW q \in C!Queries,
                    h.name \in C!MemberDetail.uses, q.key \in C!MemberDetail.shows
             PROVE  Sees(h, q)
  BY DEF BesideOK
<1>1. h.name \in {"useChangeMemberRole", "useRemoveMember"}
  BY DEF C!MemberDetail, C!On
<1>2. q.key \in {"my-communities", "members"}
  BY DEF C!MemberDetail, C!On
<1>3. h \in C!MemberHooks
  BY <1>1, HooksByName
<1>4. q \in C!DiscoveryQueries \/ q \in C!AdminQueries
  BY <1>2, QueriesByKey
<1> QED BY <1>1, <1>2, <1>3, <1>4
       DEF Sees, C!Missed, C!MemberHooks, C!Hook, C!DiscoveryQueries, C!AdminQueries, C!Query,
           C!CommunityShown, C!EventShown

LEMMA ContentModerationOK == BesideOK(C!ContentModeration)
<1> SUFFICES ASSUME NEW h \in C!Hooks, NEW q \in C!Queries,
                    h.name \in C!ContentModeration.uses, q.key \in C!ContentModeration.shows
             PROVE  Sees(h, q)
  BY DEF BesideOK
<1>1. h.name \in {"useModeratePost"}
  BY DEF C!ContentModeration, C!On
<1>2. q.key \in {"my-communities", "moderation-queue"}
  BY DEF C!ContentModeration, C!On
<1>3. h \in C!ReviewHooks
  BY <1>1, HooksByName
<1>4. q \in C!DiscoveryQueries \/ q \in C!AdminQueries
  BY <1>2, QueriesByKey
<1> QED BY <1>1, <1>2, <1>3, <1>4
       DEF Sees, C!Missed, C!ReviewHooks, C!Hook, C!DiscoveryQueries, C!AdminQueries, C!Query,
           C!CommunityShown, C!EventShown

LEMMA InitiativeModerationOK == BesideOK(C!InitiativeModeration)
<1> SUFFICES ASSUME NEW h \in C!Hooks, NEW q \in C!Queries,
                    h.name \in C!InitiativeModeration.uses, q.key \in C!InitiativeModeration.shows
             PROVE  Sees(h, q)
  BY DEF BesideOK
<1>1. h.name \in {"useApproveInitiative", "useRejectInitiative"}
  BY DEF C!InitiativeModeration, C!On
<1>2. q.key \in {"my-communities", "community-initiatives"}
  BY DEF C!InitiativeModeration, C!On
<1>3. h \in C!ReviewHooks
  BY <1>1, HooksByName
<1>4. q \in C!DiscoveryQueries \/ q \in C!InitiativeQueries
  BY <1>2, QueriesByKey
<1> QED BY <1>1, <1>2, <1>3, <1>4
       DEF Sees, C!Missed, C!ReviewHooks, C!Hook, C!DiscoveryQueries, C!InitiativeQueries,
           C!Query, C!CommunityShown, C!EventShown, C!InitiativeShown

LEMMA CommunitySettingsOK == BesideOK(C!CommunitySettings)
<1> SUFFICES ASSUME NEW h \in C!Hooks, NEW q \in C!Queries,
                    h.name \in C!CommunitySettings.uses, q.key \in C!CommunitySettings.shows
             PROVE  Sees(h, q)
  BY DEF BesideOK
<1>1. h.name \in {"useUpdateCommunity"}
  BY DEF C!CommunitySettings, C!On
<1>2. q.key \in {"my-communities"}
  BY DEF C!CommunitySettings, C!On
<1>3. h \in C!CommunityHooks
  BY <1>1, HooksByName
<1>4. q \in C!DiscoveryQueries
  BY <1>2, QueriesByKey
<1> QED BY <1>1, <1>2, <1>3, <1>4
       DEF Sees, C!Missed, C!CommunityHooks, C!Hook, C!DiscoveryQueries, C!Query,
           C!CommunityShown, C!EventShown

LEMMA AdminWizardOK == BesideOK(C!AdminWizard)
<1> SUFFICES ASSUME NEW h \in C!Hooks, NEW q \in C!Queries,
                    h.name \in C!AdminWizard.uses, q.key \in C!AdminWizard.shows
             PROVE  Sees(h, q)
  BY DEF BesideOK
<1>1. h.name \in {"useOnboardCommunity", "useUpdateCommunity"}
  BY DEF C!AdminWizard, C!On
<1>2. q.key \in {"my-communities"}
  BY DEF C!AdminWizard, C!On
<1>3. h \in C!CommunityHooks
  BY <1>1, HooksByName
<1>4. q \in C!DiscoveryQueries
  BY <1>2, QueriesByKey
<1> QED BY <1>1, <1>2, <1>3, <1>4
       DEF Sees, C!Missed, C!CommunityHooks, C!Hook, C!DiscoveryQueries, C!Query,
           C!CommunityShown, C!EventShown

LEMMA CancelSubscriptionOK == BesideOK(C!CancelSubscription)
<1> SUFFICES ASSUME NEW h \in C!Hooks, NEW q \in C!Queries,
                    h.name \in C!CancelSubscription.uses, q.key \in C!CancelSubscription.shows
             PROVE  Sees(h, q)
  BY DEF BesideOK
<1>1. h.name \in {"useCancelMySubscription"}
  BY DEF C!CancelSubscription, C!On
<1>2. q.key \in {"my-subscriptions", "my-communities"}
  BY DEF C!CancelSubscription, C!On
<1>3. h \in C!MoneyHooks
  BY <1>1, HooksByName
<1>4. q \in C!DiscoveryQueries \/ q \in C!SubscriptionQueries
  BY <1>2, QueriesByKey
<1> QED BY <1>1, <1>2, <1>3, <1>4
       DEF Sees, C!Missed, C!MoneyHooks, C!Hook, C!DiscoveryQueries, C!SubscriptionQueries,
           C!Query, C!CommunityShown, C!EventShown

LEMMA IssueRefundOK == BesideOK(C!IssueRefund)
<1> SUFFICES ASSUME NEW h \in C!Hooks, NEW q \in C!Queries,
                    h.name \in C!IssueRefund.uses, q.key \in C!IssueRefund.shows
             PROVE  Sees(h, q)
  BY DEF BesideOK
<1>1. h.name \in {"useRefundPayment"}
  BY DEF C!IssueRefund, C!On
<1>2. q.key \in {"payment"}
  BY DEF C!IssueRefund, C!On
<1>3. h \in C!MoneyHooks
  BY <1>1, HooksByName
<1>4. q \in C!PaymentQueries
  BY <1>2, QueriesByKey
<1> QED BY <1>1, <1>2, <1>3, <1>4
       DEF Sees, C!Missed, C!MoneyHooks, C!Hook, C!PaymentQueries, C!Query

LEMMA SuperUserDetailOK == BesideOK(C!SuperUserDetail)
<1> SUFFICES ASSUME NEW h \in C!Hooks, NEW q \in C!Queries,
                    h.name \in C!SuperUserDetail.uses, q.key \in C!SuperUserDetail.shows
             PROVE  Sees(h, q)
  BY DEF BesideOK
<1>1. h.name \in {"useSuperDisableUser", "useSuperEnableUser", "useSuperPromoteUser"}
  BY DEF C!SuperUserDetail, C!On, C!SuperUserHooks, C!Hook
<1>2. q.key \in {"super-user-detail"}
  BY DEF C!SuperUserDetail, C!On
<1>3. h \in C!SuperUserHooks
  BY <1>1, HooksByName
<1>4. q \in C!SuperDetailQueries
  BY <1>2, QueriesByKey
<1> QED BY <1>1, <1>2, <1>3, <1>4
       DEF Sees, C!Missed, C!SuperUserHooks, C!Hook, C!SuperDetailQueries, C!Query,
           C!CommunityShown

LEMMA SuperCommunityDetailOK == BesideOK(C!SuperCommunityDetail)
<1> SUFFICES ASSUME NEW h \in C!Hooks, NEW q \in C!Queries,
                    h.name \in C!SuperCommunityDetail.uses, q.key \in C!SuperCommunityDetail.shows
             PROVE  Sees(h, q)
  BY DEF BesideOK
<1>1. h.name \in {"useSuperSuspendCommunity", "useSuperRestoreCommunity", "useSuperDeleteCommunity"}
  BY DEF C!SuperCommunityDetail, C!On
<1>2. q.key \in {"super-community-detail"}
  BY DEF C!SuperCommunityDetail, C!On
<1>3. h \in C!SuperCommunityHooks \/ h \in C!SuspendHooks
  BY <1>1, HooksByName
<1>4. q \in C!SuperDetailQueries
  BY <1>2, QueriesByKey
<1> QED BY <1>1, <1>2, <1>3, <1>4
       DEF Sees, C!Missed, C!SuperCommunityHooks, C!SuspendHooks, C!Hook, C!SuperDetailQueries,
           C!Query, C!CommunityShown

LEMMA PairsRefresh == ASSUME NEW p \in C!Pairs  PROVE Sees(p.hook, p.query)
<1>1. p \in [hook : C!Hooks, query : C!Queries]
  BY DEF C!Pairs
<1>2. p.hook \in C!Hooks /\ p.query \in C!Queries
  BY <1>1
<1>3. CASE p.query.key \in p.hook.refreshes
  BY <1>3 DEF Sees
<1>4. CASE C!OneScreen(p.hook, p.query)
  <2>1. PICK s \in C!Screens : p.hook.name \in s.uses /\ p.query.key \in s.shows
    BY <1>4 DEF C!OneScreen
  <2>2. BesideOK(s)
    BY CommunityDetailOK, DiscoverOK, EventDetailOK, MaterialsOK, EventQAOK, AttendeeListOK,
       PostDetailOK, InitiativeDetailOK, InboxOK, NotificationPrefsOK, PrivacySettingsOK,
       ApprovalQueueOK, MemberDetailOK, ContentModerationOK, InitiativeModerationOK,
       CommunitySettingsOK, AdminWizardOK, CancelSubscriptionOK, IssueRefundOK,
       SuperUserDetailOK, SuperCommunityDetailOK
       DEF C!Screens
  <2> QED BY <1>2, <2>1, <2>2 DEF BesideOK
<1> QED BY <1>3, <1>4 DEF C!Pairs

LEMMA CacheRefreshed == C!TypeOK => Refreshed
<1>1. ASSUME pair \in C!Pairs  PROVE pair.hook.writes \cap pair.query.reads # {}
  BY <1>1 DEF C!Pairs
<1> QED BY <1>1, PairsRefresh DEF C!TypeOK, Refreshed, Sees, C!InPlace
-----------------------------------------------------------------------------
(* QueryCache: the invariant                                               *)

CallType == [pc : {"idle", "sent", "loaded", "saved", "answered", "lost", "refused"},
             loaded : SUBSET Calls, alone : BOOLEAN]

LEMMA CacheIs ==
  CacheInv <=>
    /\ pair \in C!Pairs /\ server \in SUBSET Calls /\ tab \in C!Entry
    /\ call \in [Calls -> CallType]
    /\ Refreshed /\ (\A c \in Calls : CallOK(c)) /\ EntryOK
BY DEF CacheInv, C!TypeOK, CallType, C!Call

\* The condition EntryOK puts on an entry e, where d are the changes confirmed.
EntryFits(e, d) ==
    <<pair.hook.name, pair.query.key>> \notin C!Missed =>
        /\ e.get = "read" /\ ~ e.late => d \subseteq e.got
        /\ e.state \in {"fresh", "aged"} /\ ~ e.overtaken => d \subseteq e.data

\* A step that leaves the calls and the server alone
LEMMA CacheQuery ==
  ASSUME CacheInv, NEW e \in C!Entry, EntryFits(e, C!Confirmed),
         tab' = e, UNCHANGED <<pair, server, call>>
  PROVE  CacheInv'
<1>1. pair' = pair /\ server' = server /\ call' = call
  OBVIOUS
<1>2. Refreshed' /\ \A c \in Calls : CallOK(c)'
  BY <1>1, CacheIs DEF Refreshed, CallOK, C!InPlace, C!InFlight
<1>3. EntryOK'
  BY <1>1 DEF EntryFits, EntryOK, C!Confirmed
<1> QED BY <1>1, <1>2, <1>3, CacheIs DEF CacheInv, C!TypeOK

LEMMA AskingIs ==
  ASSUME NEW e \in C!Entry
  PROVE  /\ C!Asking(e) \in C!Entry /\ C!Asking(e).get = "asked"
         /\ C!Asking(e).state = e.state /\ C!Asking(e).data = e.data
         /\ C!Asking(e).overtaken = e.overtaken
<1>1. PICK f : f = C!Asking(e)
  OBVIOUS
<1>2. /\ f \in C!Entry /\ f.get = "asked" /\ f.state = e.state /\ f.data = e.data
      /\ f.overtaken = e.overtaken
  BY <1>1 DEF C!Asking, C!Entry
<1> QED BY <1>1, <1>2

LEMMA CacheMount == ASSUME CacheInv, C!Mount  PROVE CacheInv'
<1>1. tab \in C!Entry /\ EntryFits(tab, C!Confirmed)
  BY CacheIs DEF EntryFits, EntryOK
<1>2. PICK e : e = [tab EXCEPT !.mounted = TRUE]
  OBVIOUS
<1>3. /\ e \in C!Entry /\ e.get = tab.get /\ e.state = tab.state /\ e.data = tab.data
      /\ e.got = tab.got /\ e.late = tab.late /\ e.overtaken = tab.overtaken
  BY <1>1, <1>2 DEF C!Entry
<1>4. EntryFits(e, C!Confirmed) /\ EntryFits(C!Asking(e), C!Confirmed)
  BY <1>1, <1>3, AskingIs DEF EntryFits
<1>5. tab' = e \/ tab' = C!Asking(e)
  BY <1>2 DEF C!Mount, C!Ask
<1>6. UNCHANGED <<pair, server, call>>
  BY DEF C!Mount
<1> QED BY <1>3, <1>4, <1>5, <1>6, AskingIs, CacheQuery

LEMMA CacheEntry ==
  ASSUME CacheInv, C!Unmount \/ C!Age \/ C!Collect \/ C!Read \/ C!Arrive
  PROVE  CacheInv'
<1>1. tab \in C!Entry /\ EntryFits(tab, C!Confirmed) /\ server \in SUBSET Calls
  BY CacheIs DEF EntryFits, EntryOK
<1>2. UNCHANGED <<pair, server, call>>
  BY DEF C!Unmount, C!Age, C!Collect, C!Read, C!Arrive
<1>3. PICK e : e = tab'
  OBVIOUS
<1>4. CASE C!Unmount
  <2>1. /\ e \in C!Entry /\ e.get = tab.get /\ e.state = tab.state /\ e.data = tab.data
        /\ e.got = tab.got /\ e.late = tab.late /\ e.overtaken = tab.overtaken
    BY <1>1, <1>3, <1>4 DEF C!Unmount, C!Entry
  <2>2. EntryFits(e, C!Confirmed)
    BY <1>1, <2>1 DEF EntryFits
  <2> QED BY <1>2, <1>3, <2>1, <2>2, CacheQuery
<1>5. CASE C!Age
  <2>1. /\ e \in C!Entry /\ e.get = tab.get /\ tab.state = "fresh" /\ e.data = tab.data
        /\ e.got = tab.got /\ e.late = tab.late /\ e.overtaken = tab.overtaken
    BY <1>1, <1>3, <1>5 DEF C!Age, C!Entry
  <2>2. EntryFits(e, C!Confirmed)
    BY <1>1, <2>1 DEF EntryFits
  <2> QED BY <1>2, <1>3, <2>1, <2>2, CacheQuery
<1>6. CASE C!Collect
  <2>1. e \in C!Entry /\ e.get = "none" /\ e.state = "empty"
    BY <1>3, <1>6 DEF C!Collect, C!NoEntry, C!Entry
  <2>2. EntryFits(e, C!Confirmed)
    BY <2>1 DEF EntryFits
  <2> QED BY <1>2, <1>3, <2>1, <2>2, CacheQuery
<1>7. CASE C!Read
  <2>1. /\ e \in C!Entry /\ e.got = server /\ e.state = tab.state /\ e.data = tab.data
        /\ e.overtaken = tab.overtaken
    BY <1>1, <1>3, <1>7 DEF C!Read, C!Entry
  <2>2. EntryFits(e, C!Confirmed)
    BY <1>1, <2>1 DEF EntryFits, C!Confirmed
  <2> QED BY <1>2, <1>3, <2>1, <2>2, CacheQuery
<1>8. CASE C!Arrive
  <2>1. /\ e \in C!Entry /\ e.get = "none" /\ e.data = tab.got /\ e.overtaken = tab.late
        /\ tab.get = "read"
    BY <1>1, <1>3, <1>8 DEF C!Arrive, C!Entry
  <2>2. EntryFits(e, C!Confirmed)
    BY <1>1, <2>1 DEF EntryFits, C!Entry
  <2> QED BY <1>2, <1>3, <2>1, <2>2, CacheQuery
<1> QED BY <1>4, <1>5, <1>6, <1>7, <1>8

LEMMA CacheFail == ASSUME CacheInv, C!Fail  PROVE CacheInv'
<1>1. tab \in C!Entry /\ EntryFits(tab, C!Confirmed)
  BY CacheIs DEF EntryFits, EntryOK
<1>2. UNCHANGED <<pair, server, call>>
  BY DEF C!Fail
<1>3. PICK e : e = tab'
  OBVIOUS
<1>4. CASE tab.again
  <2>1. PICK s \in {"empty", "invalid"} :
            s = IF tab.state = "empty" THEN tab.state ELSE "invalid"
    OBVIOUS
  <2>2. e = [tab EXCEPT !.get = "none", !.got = {}, !.late = FALSE, !.state = s]
    BY <1>1, <1>3, <1>4, <2>1 DEF C!Fail, C!Entry
  <2>3. e \in C!Entry /\ e.get = "none" /\ e.state = s
    BY <1>1, <2>1, <2>2 DEF C!Entry
  <2>4. EntryFits(e, C!Confirmed)
    BY <2>1, <2>3 DEF EntryFits
  <2> QED BY <1>2, <1>3, <2>3, <2>4, CacheQuery
<1>5. CASE ~ tab.again
  <2>1. /\ e \in C!Entry /\ e.get = "asked" /\ e.state = tab.state /\ e.data = tab.data
        /\ e.overtaken = tab.overtaken
    BY <1>1, <1>3, <1>5 DEF C!Fail, C!Entry
  <2>2. EntryFits(e, C!Confirmed)
    BY <1>1, <2>1 DEF EntryFits
  <2> QED BY <1>2, <1>3, <2>1, <2>2, CacheQuery
<1> QED BY <1>4, <1>5

\* A step of a call under way, c, that leaves the records of the others alone
LEMMA CacheCall ==
  ASSUME CacheInv, NEW c \in Calls, C!InFlight(c), NEW k \in CallType,
         call' = [call EXCEPT ![c] = k], k.alone = call[c].alone,
         pair' = pair, server' \in SUBSET Calls, tab' \in C!Entry,
         C!InPlace /\ k.alone => /\ k.pc = "loaded" => k.loaded = server'
                                 /\ k.pc = "saved" => server' = k.loaded \cup {c},
         EntryOK'
  PROVE  CacheInv'
<1>1. /\ call \in [Calls -> CallType] /\ pair \in C!Pairs /\ Refreshed
      /\ \A d \in Calls : CallOK(d)
  BY CacheIs
<1>2. /\ call' \in [Calls -> CallType] /\ call'[c] = k
      /\ \A d \in Calls : d # c => call'[d] = call[d]
  BY <1>1
<1>3. Refreshed' /\ C!InPlace' = C!InPlace
  BY <1>1 DEF Refreshed, C!InPlace
<1>4. ASSUME NEW d \in Calls, C!InFlight(d)'  PROVE C!InFlight(d)
  BY <1>2, <1>4 DEF C!InFlight
<1>5. ASSUME NEW d \in Calls  PROVE CallOK(d)'
  <2> SUFFICES ASSUME C!InPlace, call'[d].alone
               PROVE  /\ C!InFlight(d)' => \A o \in Calls : C!InFlight(o)' => o = d
                      /\ call'[d].pc = "loaded" => call'[d].loaded = server'
                      /\ call'[d].pc = "saved" => server' = call'[d].loaded \cup {d}
    BY <1>3 DEF CallOK
  <2>1. CASE d = c
    BY <1>1, <1>2, <1>4, <2>1 DEF CallOK
  <2>2. CASE d # c
    <3>1. CallOK(d) /\ call[d].alone /\ call'[d] = call[d]
      BY <1>1, <1>2, <2>2
    <3>2. ~ C!InFlight(d)
      BY <2>2, <3>1 DEF CallOK
    <3> QED BY <1>4, <3>1, <3>2 DEF C!InFlight
  <2> QED BY <2>1, <2>2
<1> QED BY <1>1, <1>2, <1>3, <1>5, CacheIs DEF CacheInv, C!TypeOK, CallType, C!Call

LEMMA CacheSend == ASSUME CacheInv, NEW c \in Calls, C!Send(c)  PROVE CacheInv'
<1>1. /\ call \in [Calls -> CallType] /\ \A d \in Calls : CallOK(d)
      /\ pair \in C!Pairs /\ server \in SUBSET Calls /\ tab \in C!Entry /\ EntryOK /\ Refreshed
  BY CacheIs
<1>2. pair' = pair /\ server' = server /\ tab' = tab /\ call[c].pc = "idle"
  BY DEF C!Send
<1>3. PICK v \in BOOLEAN : v <=> (C!InPlace => ~ \E o \in Calls : C!InFlight(o))
  OBVIOUS
<1>4. PICK w \in [Calls -> BOOLEAN] :
          \A d \in Calls : w[d] <=> call[d].alone /\ (C!InPlace => ~ C!InFlight(d))
  <2>1. PICK w : w = [d \in Calls |-> IF call[d].alone /\ (C!InPlace => ~ C!InFlight(d))
                                      THEN TRUE ELSE FALSE]
    OBVIOUS
  <2>2. w \in [Calls -> BOOLEAN]
    BY <2>1
  <2>3. \A d \in Calls : w[d] <=> call[d].alone /\ (C!InPlace => ~ C!InFlight(d))
    BY <2>1
  <2> QED BY <2>2, <2>3
<1>5. (C!InPlace => ~ \E o \in Calls : C!InFlight(o)) = v
  BY <1>3
<1>6. \A d \in Calls : (call[d].alone /\ (C!InPlace => ~ C!InFlight(d))) = w[d]
  BY <1>4
<1>7. call' = [d \in Calls |-> IF d = c THEN [call[c] EXCEPT !.pc = "sent", !.alone = v]
                               ELSE [call[d] EXCEPT !.alone = w[d]]]
  BY <1>5, <1>6 DEF C!Send
<1>8. ASSUME NEW d \in Calls
      PROVE  /\ call'[d] \in CallType
             /\ call'[d].pc = IF d = c THEN "sent" ELSE call[d].pc
             /\ call'[d].alone = IF d = c THEN v ELSE w[d]
             /\ call'[d].loaded = call[d].loaded
  BY <1>1, <1>3, <1>4, <1>7 DEF CallType
<1>9. call' \in [Calls -> CallType]
  <2>1. call' = [d \in Calls |-> call'[d]]
    BY <1>7
  <2> QED BY <1>8, <2>1
<1>10. Refreshed' /\ C!InPlace' = C!InPlace
  BY <1>1, <1>2 DEF Refreshed, C!InPlace
<1>11. \A d \in Calls : C!InFlight(d)' <=> d = c \/ C!InFlight(d)
  BY <1>8 DEF C!InFlight
<1>12. ASSUME NEW d \in Calls  PROVE CallOK(d)'
  <2> SUFFICES ASSUME C!InPlace, call'[d].alone
               PROVE  /\ C!InFlight(d)' => \A o \in Calls : C!InFlight(o)' => o = d
                      /\ call'[d].pc = "loaded" => call'[d].loaded = server'
                      /\ call'[d].pc = "saved" => server' = call'[d].loaded \cup {d}
    BY <1>10 DEF CallOK
  <2>1. CASE d = c
    BY <1>3, <1>8, <1>11, <2>1
  <2>2. CASE d # c
    <3>1. ~ C!InFlight(d)
      BY <1>4, <1>8, <2>2
    <3> QED BY <1>8, <1>11, <2>2, <3>1 DEF C!InFlight
  <2> QED BY <2>1, <2>2
<1>13. C!Confirmed' = C!Confirmed
  <2>1. \A d \in server : call'[d].pc = "answered" <=> call[d].pc = "answered"
    BY <1>1, <1>2, <1>8
  <2> QED BY <1>2, <2>1 DEF C!Confirmed
<1>14. EntryOK'
  BY <1>1, <1>2, <1>13 DEF EntryOK
<1> QED BY <1>1, <1>2, <1>9, <1>10, <1>12, <1>14 DEF CacheInv, C!TypeOK, CallType, C!Call

LEMMA CacheLoad == ASSUME CacheInv, NEW c \in Calls, C!Load(c)  PROVE CacheInv'
<1>1. /\ call \in [Calls -> CallType] /\ server \in SUBSET Calls /\ tab \in C!Entry /\ EntryOK
  BY CacheIs
<1>2. /\ pair' = pair /\ server' = server /\ tab' = tab /\ call[c].pc = "sent"
      /\ call' = [call EXCEPT ![c].pc = "loaded", ![c].loaded = server]
  BY DEF C!Load
<1>3. PICK k : k = [call[c] EXCEPT !.pc = "loaded", !.loaded = server]
  OBVIOUS
<1>4. /\ k \in CallType /\ k.pc = "loaded" /\ k.loaded = server /\ k.alone = call[c].alone
  BY <1>1, <1>3 DEF CallType
<1>5. call' = [call EXCEPT ![c] = k]
  BY <1>1, <1>2, <1>3
<1>6. C!Confirmed' = C!Confirmed
  BY <1>1, <1>2, <1>4, <1>5 DEF C!Confirmed
<1>7. EntryOK' /\ C!InFlight(c)
  BY <1>1, <1>2, <1>6 DEF EntryOK, C!InFlight
<1> QED BY <1>1, <1>2, <1>4, <1>5, <1>7, CacheCall

LEMMA CacheSave == ASSUME CacheInv, NEW c \in Calls, C!Save(c)  PROVE CacheInv'
<1>1. /\ call \in [Calls -> CallType] /\ server \in SUBSET Calls /\ tab \in C!Entry /\ EntryOK
  BY CacheIs
<1>2. /\ pair' = pair /\ C!InFlight(c)
      /\ server' = IF C!InPlace THEN call[c].loaded \cup {c} ELSE server \cup {c}
      /\ call' = [call EXCEPT ![c].pc = "saved"]
  BY DEF C!Save, C!InFlight
<1>3. PICK k : k = [call[c] EXCEPT !.pc = "saved"]
  OBVIOUS
<1>4. k \in CallType /\ k.pc = "saved" /\ k.loaded = call[c].loaded /\ k.alone = call[c].alone
  BY <1>1, <1>3 DEF CallType
<1>5. call' = [call EXCEPT ![c] = k]
  BY <1>1, <1>2, <1>3
<1>6. server' \in SUBSET Calls
  BY <1>1, <1>2, <1>4 DEF CallType
<1>7. ASSUME ~ C!BringsBack(c)  PROVE C!Confirmed' \subseteq C!Confirmed
  BY <1>1, <1>2, <1>4, <1>5, <1>7 DEF C!Confirmed, C!BringsBack
<1>8. tab' \in C!Entry /\ EntryOK'
  <2>1. CASE C!BringsBack(c)
    <3>1. PICK v \in BOOLEAN : v <=> tab.late \/ tab.get = "read"
      OBVIOUS
    <3>2. (tab.late \/ tab.get = "read") = v
      BY <3>1
    <3>3. tab' = [tab EXCEPT !.late = v, !.overtaken = TRUE]
      BY <1>1, <2>1, <3>2 DEF C!Save, C!Entry
    <3>4. tab' \in C!Entry /\ tab'.get = tab.get /\ (tab'.late <=> v) /\ tab'.overtaken
      BY <1>1, <3>1, <3>3 DEF C!Entry
    <3> QED BY <3>1, <3>4 DEF EntryOK
  <2>2. CASE ~ C!BringsBack(c)
    <3>1. tab' = tab
      BY <2>2 DEF C!Save
    <3> QED BY <1>1, <1>2, <1>7, <2>2, <3>1 DEF EntryOK
  <2> QED BY <2>1, <2>2
<1>9. C!InPlace => server' = k.loaded \cup {c}
  BY <1>2, <1>4
<1> QED BY <1>2, <1>4, <1>5, <1>6, <1>8, <1>9, CacheCall

LEMMA CacheUnseen ==
  ASSUME CacheInv, NEW c \in Calls, C!Refuse(c) \/ C!Lose(c)  PROVE CacheInv'
<1>1. /\ call \in [Calls -> CallType] /\ server \in SUBSET Calls /\ tab \in C!Entry /\ EntryOK
  BY CacheIs
<1>2. PICK pc \in {"refused", "lost"} : call' = [call EXCEPT ![c].pc = pc]
  BY DEF C!Refuse, C!Lose
<1>3. pair' = pair /\ server' = server /\ tab' = tab /\ C!InFlight(c)
  BY DEF C!Refuse, C!Lose, C!InFlight
<1>4. PICK k : k = [call[c] EXCEPT !.pc = pc]
  OBVIOUS
<1>5. k \in CallType /\ k.pc = pc /\ k.alone = call[c].alone
  BY <1>1, <1>2, <1>4 DEF CallType
<1>6. call' = [call EXCEPT ![c] = k]
  BY <1>1, <1>2, <1>4
<1>7. C!Confirmed' \subseteq C!Confirmed
  BY <1>1, <1>2, <1>3, <1>5, <1>6 DEF C!Confirmed
<1>8. EntryOK'
  BY <1>1, <1>3, <1>7 DEF EntryOK
<1> QED BY <1>1, <1>2, <1>3, <1>5, <1>6, <1>8, CacheCall

LEMMA InvalidatedIs ==
  ASSUME NEW e \in C!Entry
  PROVE  /\ C!Invalidated(e) \in C!Entry
         /\ C!Invalidated(e).state \in {"empty", "invalid"}
         /\ C!Invalidated(e).get = "read" => C!Invalidated(e).late
<1>1. PICK s \in {"empty", "invalid"} : s = IF e.state = "empty" THEN e.state ELSE "invalid"
  OBVIOUS
<1>2. PICK v \in BOOLEAN : v <=> e.get # "none"
  OBVIOUS
<1>3. (e.get # "none") = v
  BY <1>2
<1>4. PICK f : f = [e EXCEPT !.state = s, !.late = v]
  OBVIOUS
<1>5. f \in C!Entry /\ f.state = s /\ f.get = e.get /\ (f.late <=> v)
  BY <1>1, <1>2, <1>4 DEF C!Entry
<1>6. [e EXCEPT !.state = IF @ = "empty" THEN @ ELSE "invalid", !.late = e.get # "none"] = f
  BY <1>1, <1>3, <1>4 DEF C!Entry
<1>7. C!Invalidated(e) = f \/ C!Invalidated(e) = C!Asking(f)
  BY <1>6 DEF C!Invalidated
<1> QED BY <1>1, <1>2, <1>5, <1>7, AskingIs

LEMMA CacheAnswer == ASSUME CacheInv, NEW c \in Calls, C!Answer(c)  PROVE CacheInv'
<1>1. /\ call \in [Calls -> CallType] /\ server \in SUBSET Calls /\ tab \in C!Entry
      /\ EntryOK /\ Refreshed /\ CallOK(c)
  BY CacheIs
<1>2. /\ pair' = pair /\ server' = server /\ call[c].pc = "saved" /\ C!InFlight(c)
      /\ call' = [call EXCEPT ![c].pc = "answered"]
  BY DEF C!Answer, C!InFlight
<1>3. PICK k : k = [call[c] EXCEPT !.pc = "answered"]
  OBVIOUS
<1>4. k \in CallType /\ k.pc = "answered" /\ k.alone = call[c].alone
  BY <1>1, <1>3 DEF CallType
<1>5. call' = [call EXCEPT ![c] = k]
  BY <1>1, <1>2, <1>3
<1>6. C!Confirmed' \subseteq server
  BY <1>2 DEF C!Confirmed
<1>7. tab' \in C!Entry /\ EntryOK'
  <2>1. CASE C!InPlace
    <3>1. call[c] \in CallType
      BY <1>1
    <3>2. PICK late \in BOOLEAN : late <=> tab.get # "none"
      OBVIOUS
    <3>3. PICK others \in BOOLEAN : others <=> ~ call[c].alone
      BY <3>1 DEF CallType
    <3>4. PICK d : d = call[c].loaded \cup {c}
      OBVIOUS
    <3>5. d \in SUBSET Calls
      BY <3>1, <3>4 DEF CallType
    <3>6. (tab.get # "none") = late /\ (~ call[c].alone) = others
      BY <3>2, <3>3
    <3>7. tab' = [tab EXCEPT !.state = "fresh", !.data = d, !.late = late, !.overtaken = others]
      BY <2>1, <3>4, <3>6 DEF C!Answer, C!Replaced
    <3>8. /\ tab' \in C!Entry /\ tab'.data = d /\ (tab'.late <=> late) /\ tab'.get = tab.get
          /\ (tab'.overtaken <=> others)
      BY <1>1, <3>2, <3>3, <3>5, <3>7 DEF C!Entry
    <3>9. ~ others => d = server
      BY <1>1, <1>2, <2>1, <3>3, <3>4 DEF CallOK
    <3> QED BY <1>6, <3>2, <3>8, <3>9 DEF EntryOK
  <2>2. CASE ~ C!InPlace /\ pair.query.key \in pair.hook.refreshes
    <3>1. tab' = C!Invalidated(tab)
      BY <2>2 DEF C!Answer
    <3> QED BY <1>1, <3>1, InvalidatedIs DEF EntryOK
  <2>3. CASE ~ C!InPlace /\ pair.query.key \notin pair.hook.refreshes
    <3>1. tab' = tab
      BY <2>3 DEF C!Answer
    <3> QED BY <1>1, <1>2, <2>3, <3>1 DEF EntryOK, Refreshed
  <2> QED BY <2>1, <2>2, <2>3
<1> QED BY <1>1, <1>2, <1>4, <1>5, <1>7, CacheCall

LEMMA CacheInit == C!Init => CacheInv
<1> SUFFICES ASSUME C!Init PROVE CacheInv
  OBVIOUS
<1>1. C!TypeOK
  <2>1. C!NoEntry \in C!Entry /\ C!NoCall \in C!Call
    BY DEF C!NoEntry, C!Entry, C!NoCall, C!Call
  <2> QED BY <2>1 DEF C!Init, C!TypeOK
<1>2. \A c \in Calls : call[c].pc = "idle"
  BY DEF C!Init, C!NoCall
<1>3. \A c \in Calls : CallOK(c)
  BY <1>2 DEF CallOK, C!InFlight
<1>4. EntryOK
  BY DEF C!Init, C!NoEntry, EntryOK
<1> QED BY <1>1, <1>3, <1>4, CacheRefreshed DEF CacheInv

LEMMA CacheNext == CacheInv /\ C!Next => CacheInv'
<1> SUFFICES ASSUME CacheInv, C!Next PROVE CacheInv'
  OBVIOUS
<1>1. CASE C!Mount
  BY <1>1, CacheMount
<1>2. CASE C!Unmount \/ C!Age \/ C!Collect \/ C!Read \/ C!Arrive
  BY <1>2, CacheEntry
<1>3. CASE C!Fail
  BY <1>3, CacheFail
<1>4. CASE \E c \in Calls : \/ C!Send(c) \/ C!Load(c) \/ C!Save(c) \/ C!Refuse(c)
                            \/ C!Answer(c) \/ C!Lose(c)
  BY <1>4, CacheSend, CacheLoad, CacheSave, CacheUnseen, CacheAnswer
<1> QED BY <1>1, <1>2, <1>3, <1>4 DEF C!Next

LEMMA CacheStutter == CacheInv /\ UNCHANGED cacheVars => CacheInv'
BY DEF CacheInv, C!TypeOK, Refreshed, CallOK, EntryOK, C!InPlace, C!InFlight, C!Confirmed,
       cacheVars

LEMMA CacheImplies == CacheInv => C!TypeOK /\ C!OwnWritesSeen
BY DEF CacheInv, EntryOK, C!OwnWritesSeen, C!Shows

\* Every hook and every query, in any order of mounting, fetching, failing and
\* answering, for any number of uses of the hook: a user sees on his screen
\* what he has been told is saved (lib/queries.ts).
THEOREM CacheRight == C!Spec => [](C!TypeOK /\ C!OwnWritesSeen)
<1>1. C!Init => CacheInv
  BY CacheInit
<1>2. CacheInv /\ [C!Next]_C!vars => CacheInv'
  BY CacheNext, CacheStutter DEF C!vars, cacheVars
<1>3. CacheInv => C!TypeOK /\ C!OwnWritesSeen
  BY CacheImplies
<1> QED BY <1>1, <1>2, <1>3, PTL DEF C!Spec

-----------------------------------------------------------------------------
(* What the screens admit: the inductive invariant of Access               *)

ClientType == [user : A!GlobalRoles, mine : Seq(A!Row), ctx : Communities \cup {NoCommunity}]

\* The account has one Membership of a community.
Distinct(mine) == \A i, j \in DOMAIN mine : mine[i].of = mine[j].of => i = j

AccessInv ==
    /\ standing \in [Communities -> {"active", "suspended", "deleted"}]
    /\ rows \in Seq(A!Row) /\ Distinct(rows)
    /\ global \in A!GlobalRoles
    /\ manages \in SUBSET Communities
    /\ client \in ClientType

LEMMA CommunityKnown == NoCommunity \notin Communities
BY PartsAssumption DEF A!AccessAssumption

LEMMA RowIs ==
  ASSUME NEW s \in Seq(A!Row), NEW i \in DOMAIN s
  PROVE  /\ Len(s) \in Nat /\ DOMAIN s = 1..Len(s) /\ i \in 1..Len(s)
         /\ s[i] \in A!Row /\ s[i].of \in Communities /\ s[i].role \in A!Roles
<1>1. Len(s) \in Nat /\ DOMAIN s = 1..Len(s)
  OBVIOUS
<1>2. s[i] \in A!Row
  BY <1>1, ElementOfSeq
<1> QED BY <1>1, <1>2 DEF A!Row

\* As many Memberships as communities
LEMMA DistinctCounts ==
  ASSUME NEW s \in Seq(A!Row), Distinct(s)
  PROVE  Len(s) = A!Cardinality(A!Of(s))
<1>1. PICK n \in Nat : n = Len(s) /\ DOMAIN s = 1..n
  OBVIOUS
<1>2. PICK f : f = [i \in 1..n |-> s[i].of]
  OBVIOUS
<1>3. f \in Bijection(1..n, A!Of(s))
  BY <1>1, <1>2 DEF A!Of, Distinct, Bijection, Injection, Surjection, IsInjective
<1>4. ExistsBijection(1..n, A!Of(s))
  BY <1>3 DEF ExistsBijection
<1>5. 1 \in Int /\ n \in Int /\ IsFiniteSet(1..n) /\ Cardinality(1..n) = n
  BY FS_Interval
<1>6. Cardinality(A!Of(s)) = n
  BY <1>4, <1>5, FS_Bijection
<1>7. \A S : A!Cardinality(S) = Cardinality(S)
  BY DEF A!Cardinality, Cardinality
<1> QED BY <1>1, <1>6, <1>7

LEMMA AccessTypes == AccessInv => A!TypeOK
BY DistinctCounts DEF AccessInv, A!TypeOK, ClientType

\* A community the account has no Membership of gets one.
LEMMA RowsAppend ==
  ASSUME NEW s \in Seq(A!Row), Distinct(s), NEW e \in A!Row, e.of \notin A!Of(s)
  PROVE  Append(s, e) \in Seq(A!Row) /\ Distinct(Append(s, e))
<1>1. PICK n \in Nat : n = Len(s) /\ DOMAIN s = 1..n
  OBVIOUS
<1>2. PICK t : t = Append(s, e)
  OBVIOUS
<1>3. /\ t \in Seq(A!Row) /\ Len(t) = n + 1
      /\ \A i \in 1..n : t[i] = s[i]
      /\ t[n + 1] = e
  BY <1>1, <1>2, AppendProperties
<1>4. DOMAIN t = 1..(n + 1)
  BY <1>3
<1>5. \A i \in 1..n : s[i].of # e.of
  BY <1>1 DEF A!Of
<1>6. ASSUME NEW i \in 1..(n + 1), NEW j \in 1..(n + 1), t[i].of = t[j].of
      PROVE  i = j
  <2>1. i \in 1..n \/ i = n + 1
    OBVIOUS
  <2>2. j \in 1..n \/ j = n + 1
    OBVIOUS
  <2> QED BY <1>1, <1>3, <1>5, <1>6, <2>1, <2>2 DEF Distinct
<1>7. Distinct(t)
  BY <1>4, <1>6 DEF Distinct
<1> QED BY <1>2, <1>3, <1>7

LEMMA RowsRole ==
  ASSUME NEW s \in Seq(A!Row), Distinct(s), NEW c \in Communities, NEW role \in A!Roles,
         NEW t, t = [i \in DOMAIN s |-> IF s[i].of = c THEN [of |-> c, role |-> role] ELSE s[i]]
  PROVE  t \in Seq(A!Row) /\ Distinct(t)
<1>1. PICK n \in Nat : n = Len(s) /\ DOMAIN s = 1..n
  OBVIOUS
<1>2. PICK e : e = [of |-> c, role |-> role]
  OBVIOUS
<1>3. e \in A!Row /\ e.of = c
  BY <1>2 DEF A!Row
<1>4. t = [i \in 1..n |-> IF s[i].of = c THEN e ELSE s[i]]
  BY <1>1, <1>2
<1>5. \A i \in 1..n : t[i] \in A!Row /\ t[i].of = s[i].of
  BY <1>1, <1>3, <1>4, RowIs
<1>6. t \in [1..n -> A!Row]
  BY <1>4, <1>5
<1>7. t \in Seq(A!Row)
  BY <1>6, SeqDef
<1>8. Distinct(t)
  BY <1>1, <1>4, <1>5 DEF Distinct
<1> QED BY <1>7, <1>8

LEMMA RowsRemove ==
  ASSUME NEW s \in Seq(A!Row), Distinct(s), NEW k \in DOMAIN s
  PROVE  /\ SubSeq(s, 1, k - 1) \o SubSeq(s, k + 1, Len(s)) \in Seq(A!Row)
         /\ Distinct(SubSeq(s, 1, k - 1) \o SubSeq(s, k + 1, Len(s)))
<1>1. PICK n \in Nat : n = Len(s) /\ DOMAIN s = 1..n
  OBVIOUS
<1>2. k \in 1..n /\ \A i \in 1..n : s[i] \in A!Row
  BY <1>1, RowIs
<1>3. PICK b : b = SubSeq(s, 1, k - 1)
  OBVIOUS
<1>4. /\ b \in Seq(A!Row) /\ Len(b) = k - 1
      /\ \A i \in 1..(k - 1) : b[i] = s[i]
  <2>1. 1 \in Int /\ k - 1 \in Int /\ \A i \in 1..(k - 1) : s[i] \in A!Row
    BY <1>2
  <2>2. /\ SubSeq(s, 1, k - 1) \in Seq(A!Row)
        /\ Len(SubSeq(s, 1, k - 1)) = IF 1 <= k - 1 THEN (k - 1) - 1 + 1 ELSE 0
        /\ \A i \in 1..((k - 1) - 1 + 1) : SubSeq(s, 1, k - 1)[i] = s[1 + i - 1]
    BY <2>1, SubSeqProperties
  <2> QED BY <1>2, <1>3, <2>2
<1>5. PICK a : a = SubSeq(s, k + 1, n)
  OBVIOUS
<1>6. /\ a \in Seq(A!Row) /\ Len(a) = n - k
      /\ \A i \in 1..(n - k) : a[i] = s[k + i]
  <2>1. k + 1 \in Int /\ n \in Int /\ \A i \in (k + 1)..n : s[i] \in A!Row
    BY <1>2
  <2>2. /\ SubSeq(s, k + 1, n) \in Seq(A!Row)
        /\ Len(SubSeq(s, k + 1, n)) = IF k + 1 <= n THEN n - (k + 1) + 1 ELSE 0
        /\ \A i \in 1..(n - (k + 1) + 1) : SubSeq(s, k + 1, n)[i] = s[(k + 1) + i - 1]
    BY <2>1, SubSeqProperties
  <2>3. Len(a) = n - k
    BY <1>2, <1>5, <2>2
  <2>4. n - (k + 1) + 1 = n - k
    BY <1>2
  <2>5. ASSUME NEW i \in 1..(n - k)  PROVE a[i] = s[k + i]
    <3>1. (k + 1) + i - 1 = k + i
      BY <1>2
    <3> QED BY <1>5, <2>2, <2>4, <3>1
  <2> QED BY <1>5, <2>2, <2>3, <2>5
<1>7. PICK t : t = b \o a
  OBVIOUS
<1>8. /\ t \in Seq(A!Row) /\ Len(t) = Len(b) + Len(a)
      /\ \A i \in 1..(Len(b) + Len(a)) : t[i] = IF i <= Len(b) THEN b[i] ELSE a[i - Len(b)]
  BY <1>4, <1>6, <1>7, ConcatProperties
<1>9. Len(t) = n - 1 /\ DOMAIN t = 1..(n - 1)
  BY <1>2, <1>4, <1>6, <1>8
<1>10. ASSUME NEW i \in 1..(n - 1)  PROVE t[i] = s[IF i < k THEN i ELSE i + 1]
  <2>1. CASE i < k
    BY <1>2, <1>4, <1>6, <1>8, <2>1
  <2>2. CASE ~ (i < k)
    <3>1. t[i] = a[i - (k - 1)]
      BY <1>2, <1>4, <1>6, <1>8, <2>2
    <3>2. i - (k - 1) \in 1..(n - k) /\ k + (i - (k - 1)) = i + 1
      BY <1>2, <2>2
    <3> QED BY <1>6, <2>2, <3>1, <3>2
  <2> QED BY <2>1, <2>2
<1>11. ASSUME NEW i \in 1..(n - 1), NEW j \in 1..(n - 1), t[i].of = t[j].of
       PROVE  i = j
  <2>1. PICK x \in 1..n : x = IF i < k THEN i ELSE i + 1
    BY <1>2
  <2>2. PICK y \in 1..n : y = IF j < k THEN j ELSE j + 1
    BY <1>2
  <2>3. t[i] = s[x] /\ t[j] = s[y]
    BY <1>10, <2>1, <2>2
  <2>4. x = y
    BY <1>1, <1>11, <2>3 DEF Distinct
  <2> QED BY <1>2, <2>1, <2>2, <2>4
<1>12. Distinct(t)
  BY <1>9, <1>11 DEF Distinct
<1> QED BY <1>1, <1>3, <1>5, <1>7, <1>8, <1>12

\* A step that leaves the tab alone, or changes only it
LEMMA AccessRows ==
  ASSUME AccessInv, rows' \in Seq(A!Row), Distinct(rows'),
         UNCHANGED <<standing, global, manages>>,
         client' = client \/ \E c \in Communities : client' = [client EXCEPT !.ctx = c]
  PROVE  AccessInv'
<1>1. client \in ClientType
  BY DEF AccessInv
<1>2. client' \in ClientType
  BY <1>1 DEF ClientType
<1> QED BY <1>2 DEF AccessInv

LEMMA AccessAccount ==
  ASSUME AccessInv, NEW c \in Communities, NEW role \in A!Roles,
         \/ A!Enter(c, role) \/ A!ChangeRole(c, role) \/ A!Remove(c)
         \/ A!Join(c) \/ A!AcceptRules(c)
  PROVE  AccessInv'
<1>1. rows \in Seq(A!Row) /\ Distinct(rows) /\ client \in ClientType
  BY DEF AccessInv
<1>2. "member" \in A!Roles /\ "admin" \in A!Roles
  BY DEF A!Roles
<1>3. ASSUME NEW r \in A!Roles, c \notin A!Of(rows)
      PROVE  /\ Append(rows, [of |-> c, role |-> r]) \in Seq(A!Row)
             /\ Distinct(Append(rows, [of |-> c, role |-> r]))
  <2>1. PICK e : e = [of |-> c, role |-> r]
    OBVIOUS
  <2>2. e \in A!Row /\ e.of = c
    BY <2>1 DEF A!Row
  <2> QED BY <1>1, <1>3, <2>1, <2>2, RowsAppend
<1>4. CASE A!Enter(c, role)
  <2>1. /\ c \notin A!Of(rows) /\ rows' = Append(rows, [of |-> c, role |-> role])
        /\ UNCHANGED <<standing, global, manages, client>>
    BY <1>4 DEF A!Enter
  <2> QED BY <1>3, <2>1, AccessRows
<1>5. CASE A!ChangeRole(c, role)
  <2>1. /\ rows' = [i \in DOMAIN rows |-> IF rows[i].of = c THEN [of |-> c, role |-> role]
                                          ELSE rows[i]]
        /\ UNCHANGED <<standing, global, manages, client>>
    BY <1>5 DEF A!ChangeRole
  <2>2. rows' \in Seq(A!Row) /\ Distinct(rows')
    BY <1>1, <2>1, RowsRole
  <2> QED BY <2>1, <2>2, AccessRows
<1>6. CASE A!Remove(c)
  <2>1. PICK i \in DOMAIN rows :
            rows' = SubSeq(rows, 1, i - 1) \o SubSeq(rows, i + 1, Len(rows))
    BY <1>6 DEF A!Remove
  <2>2. rows' \in Seq(A!Row) /\ Distinct(rows')
    BY <1>1, <2>1, RowsRemove
  <2>3. UNCHANGED <<standing, global, manages, client>>
    BY <1>6 DEF A!Remove
  <2> QED BY <2>2, <2>3, AccessRows
<1>7. CASE A!Join(c)
  <2>1. /\ UNCHANGED <<standing, global, manages>> /\ client' = [client EXCEPT !.ctx = c]
        /\ \/ rows' = rows
           \/ c \notin A!Of(rows) /\ rows' = Append(rows, [of |-> c, role |-> "member"])
    BY <1>7 DEF A!Join, A!setCurrent
  <2>2. rows' \in Seq(A!Row) /\ Distinct(rows')
    BY <1>1, <1>2, <1>3, <2>1
  <2> QED BY <2>1, <2>2, AccessRows
<1>8. CASE A!AcceptRules(c)
  <2>1. /\ UNCHANGED <<standing, global, manages>> /\ client' = [client EXCEPT !.ctx = c]
        /\ \/ rows' = rows
           \/ c \notin A!Of(rows) /\ rows' = Append(rows, [of |-> c, role |-> "admin"])
    BY <1>8 DEF A!AcceptRules, A!setCurrent
  <2>2. rows' \in Seq(A!Row) /\ Distinct(rows')
    BY <1>1, <1>2, <1>3, <2>1
  <2> QED BY <2>1, <2>2, AccessRows
<1> QED BY <1>4, <1>5, <1>6, <1>7, <1>8

LEMMA AccessPlatform ==
  ASSUME AccessInv, NEW c \in Communities,
         \/ A!AssignManager(c) \/ A!RemoveManager(c)
         \/ A!Suspend(c) \/ A!Restore(c) \/ A!Delete(c)
  PROVE  AccessInv'
BY DEF AccessInv, A!AssignManager, A!RemoveManager, A!Suspend, A!Restore, A!Delete

LEMMA AccessTab ==
  ASSUME AccessInv,
         A!FetchMine \/ A!Splash \/ A!HomeFeed \/ \E c \in Communities : A!Pick(c)
  PROVE  AccessInv'
<1>1. rows \in Seq(A!Row) /\ global \in A!GlobalRoles /\ client \in ClientType
  BY DEF AccessInv
<1>2. UNCHANGED <<standing, rows, global, manages>>
  BY DEF A!FetchMine, A!Splash, A!HomeFeed, A!Pick
<1>3. CASE A!FetchMine
  BY <1>1, <1>2, <1>3 DEF A!FetchMine, AccessInv, ClientType
<1>4. CASE A!Splash
  BY <1>1, <1>2, <1>4 DEF A!Splash, AccessInv, ClientType
<1>5. CASE A!HomeFeed
  <2>1. PICK s \in Seq(A!Row) : s = client.mine
    BY <1>1 DEF ClientType
  <2>2. s # <<>>
    BY <1>5, <2>1 DEF A!HomeFeed
  <2>3. 1 \in DOMAIN s
    BY <2>2
  <2>4. PICK c \in Communities : c = s[1].of
    BY <2>3, RowIs
  <2>5. client' = [client EXCEPT !.ctx = c]
    BY <1>5, <2>1, <2>4 DEF A!HomeFeed, A!setCurrent
  <2> QED BY <1>2, <2>5, AccessRows DEF AccessInv
<1>6. CASE \E c \in Communities : A!Pick(c)
  <2>1. PICK c \in Communities : client' = [client EXCEPT !.ctx = c]
    BY <1>6 DEF A!Pick, A!setCurrent
  <2> QED BY <1>2, <2>1, AccessRows DEF AccessInv
<1> QED BY <1>3, <1>4, <1>5, <1>6

LEMMA AccessInit == A!Init => AccessInv
<1> SUFFICES ASSUME A!Init PROVE AccessInv
  OBVIOUS
<1>1. PICK e : e = <<>>
  OBVIOUS
<1>2. e \in Seq(A!Row) /\ Distinct(e)
  BY <1>1 DEF Distinct
<1>3. PICK c \in Communities \cup {NoCommunity} : client = [user |-> "user", mine |-> e, ctx |-> c]
  BY <1>1 DEF A!Init
<1>4. client \in ClientType
  BY <1>2, <1>3 DEF ClientType, A!GlobalRoles
<1> QED BY <1>1, <1>2, <1>4 DEF A!Init, AccessInv, A!GlobalRoles

LEMMA AccessNext == AccessInv /\ A!Next => AccessInv'
<1> SUFFICES ASSUME AccessInv, A!Next PROVE AccessInv'
  OBVIOUS
<1>1. "member" \in A!Roles
  BY DEF A!Roles
<1>2. ASSUME NEW c \in Communities, NEW role \in A!Roles, A!Enter(c, role) \/ A!ChangeRole(c, role)
      PROVE  AccessInv'
  BY <1>2, AccessAccount
<1>3. ASSUME NEW c \in Communities, A!Remove(c) \/ A!Join(c) \/ A!AcceptRules(c)
      PROVE  AccessInv'
  BY <1>1, <1>3, AccessAccount
<1>4. ASSUME NEW c \in Communities,
             A!AssignManager(c) \/ A!RemoveManager(c) \/ A!Suspend(c) \/ A!Restore(c) \/ A!Delete(c)
      PROVE  AccessInv'
  BY <1>4, AccessPlatform
<1>5. ASSUME A!Promote  PROVE AccessInv'
  BY <1>5 DEF AccessInv, A!Promote, A!GlobalRoles
<1>6. ASSUME A!FetchMine \/ A!Splash \/ A!HomeFeed \/ \E c \in Communities : A!Pick(c)
      PROVE  AccessInv'
  BY <1>6, AccessTab
<1> QED BY <1>2, <1>3, <1>4, <1>5, <1>6 DEF A!Next

LEMMA AccessStutter == AccessInv /\ UNCHANGED accessVars => AccessInv'
BY DEF AccessInv, accessVars

-----------------------------------------------------------------------------
(* Access: what each page asks for                                         *)

\* Served whoever of the staff asks, and whoever of them is no sub-admin
StaffRoute(r) ==
    r.by \in {"community", "event", "handler"} /\ A!Staff \subseteq r.roles /\ ~ r.limited
AdminRoute(r) == r.by \in {"community", "event", "handler"} /\ "admin" \in r.roles

\* Served to whoever manages the event
ManagerRoute(r) ==
    /\ (r.by = "event" /\ r.roles = A!Roles /\ ~ r.changes) \/ r.by \in {"manager", "broadcast"}
    /\ ~ r.limited

SuperRoute(r) == r.by = "platform" /\ ~ r.limited

StaffPage(p) ==
    /\ p.gate = "staff"
    /\ \A r \in p.asks : StaffRoute(r) \/ (p = A!EditEvent /\ r = A!eventRoutes.updatePriced)
    /\ \A r \in p.full : AdminRoute(r)
AdminPage(p) == p.gate = "admin" /\ p.full = {} /\ \A r \in p.asks : AdminRoute(r)
ManagerPage(p) == p.gate = "manager" /\ p.full = {} /\ \A r \in p.asks : ManagerRoute(r)
SuperPage(p) == p.gate = "super" /\ p.full = {} /\ \A r \in p.asks : SuperRoute(r)

LEMMA StaffPages ==
  ASSUME NEW p \in {A!AdminDashboard, A!MemberList, A!InviteMember, A!MemberDetail,
                    A!ApprovalQueue, A!AdminEventList, A!CreateEvent, A!EditEvent,
                    A!AssignManagers, A!ContentModeration, A!InitiativeModeration,
                    A!SubAdminAnalytics}
  PROVE  StaffPage(p)
<1>1. StaffPage(A!AdminDashboard)
  BY DEF StaffPage, StaffRoute, AdminRoute, A!AdminDashboard, A!ForStaff, A!Page,
         A!communityRoutes, A!adminRoutes, A!eventRoutes, A!paymentRoutes, A!Read, A!Write,
         A!Route, A!Roles, A!Staff
<1>2. StaffPage(A!MemberList)
  BY DEF StaffPage, StaffRoute, AdminRoute, A!MemberList, A!ForStaff, A!Page, A!communityRoutes,
         A!Read, A!Write, A!Route, A!Roles, A!Staff
<1>3. StaffPage(A!InviteMember)
  BY DEF StaffPage, StaffRoute, AdminRoute, A!InviteMember, A!ForStaff, A!Page,
         A!communityRoutes, A!Read, A!Write, A!Route, A!Roles, A!Staff
<1>4. StaffPage(A!MemberDetail)
  BY DEF StaffPage, StaffRoute, AdminRoute, A!MemberDetail, A!ForStaff, A!Page,
         A!communityRoutes, A!adminRoutes, A!Read, A!Write, A!Route, A!Roles, A!Staff
<1>5. StaffPage(A!ApprovalQueue)
  BY DEF StaffPage, StaffRoute, AdminRoute, A!ApprovalQueue, A!ForStaff, A!Page, A!adminRoutes,
         A!Read, A!Write, A!Route, A!Roles, A!Staff
<1>6. StaffPage(A!AdminEventList)
  BY DEF StaffPage, StaffRoute, AdminRoute, A!AdminEventList, A!ForStaff, A!Page, A!eventRoutes,
         A!Read, A!Write, A!Route, A!Roles, A!Staff
<1>7. StaffPage(A!CreateEvent)
  BY DEF StaffPage, StaffRoute, AdminRoute, A!CreateEvent, A!ForStaff, A!Page, A!eventRoutes,
         A!Read, A!Write, A!Route, A!Roles, A!Staff
<1>8. StaffPage(A!EditEvent)
  <2>1. /\ A!EditEvent.gate = "staff" /\ A!EditEvent.full = {}
        /\ A!EditEvent.asks = {A!eventRoutes.detail, A!eventRoutes.update,
                               A!eventRoutes.updatePriced, A!eventRoutes.cancel}
    BY DEF A!EditEvent, A!ForStaff, A!Page
  <2>2. /\ StaffRoute(A!eventRoutes.detail) /\ StaffRoute(A!eventRoutes.update)
        /\ StaffRoute(A!eventRoutes.cancel)
    BY DEF StaffRoute, A!eventRoutes, A!Read, A!Write, A!Route, A!Roles, A!Staff
  <2> QED BY <2>1, <2>2 DEF StaffPage
<1>9. StaffPage(A!AssignManagers)
  BY DEF StaffPage, StaffRoute, AdminRoute, A!AssignManagers, A!ForStaff, A!Page,
         A!communityRoutes, A!eventRoutes, A!Read, A!Write, A!Route, A!Roles, A!Staff
<1>10. StaffPage(A!ContentModeration)
  BY DEF StaffPage, StaffRoute, AdminRoute, A!ContentModeration, A!ForStaff, A!Page,
         A!adminRoutes, A!postRoutes, A!Read, A!Write, A!Route, A!Roles, A!Staff
<1>11. StaffPage(A!InitiativeModeration)
  BY DEF StaffPage, StaffRoute, AdminRoute, A!InitiativeModeration, A!ForStaff, A!Page,
         A!initiativeRoutes, A!Read, A!Write, A!Route, A!Roles, A!Staff
<1>12. StaffPage(A!SubAdminAnalytics)
  BY DEF StaffPage, StaffRoute, AdminRoute, A!SubAdminAnalytics, A!ForStaff, A!Page,
         A!adminRoutes, A!paymentRoutes, A!Read, A!Write, A!Route, A!Roles, A!Staff
<1> QED BY <1>1, <1>2, <1>3, <1>4, <1>5, <1>6, <1>7, <1>8, <1>9, <1>10, <1>11, <1>12

LEMMA AdminPages ==
  ASSUME NEW p \in {A!EditPricing, A!FinancialDashboard, A!SubscriptionManagement, A!IssueRefund,
                    A!RoleManagement, A!CommunitySettings, A!BrandingCustomizer, A!AdminWizard}
  PROVE  AdminPage(p)
<1>1. AdminPage(A!EditPricing)
  BY DEF AdminPage, AdminRoute, A!EditPricing, A!ForAdmins, A!Page, A!eventRoutes, A!Read,
         A!Write, A!Route, A!Roles, A!Staff
<1>2. AdminPage(A!FinancialDashboard)
  BY DEF AdminPage, AdminRoute, A!FinancialDashboard, A!ForAdmins, A!Page, A!paymentRoutes,
         A!Read, A!Write, A!Route, A!Roles, A!Staff
<1>3. AdminPage(A!SubscriptionManagement)
  BY DEF AdminPage, AdminRoute, A!SubscriptionManagement, A!ForAdmins, A!Page, A!adminRoutes,
         A!Read, A!Write, A!Route, A!Roles, A!Staff
<1>4. AdminPage(A!IssueRefund)
  BY DEF AdminPage, AdminRoute, A!IssueRefund, A!ForAdmins, A!Page, A!paymentRoutes, A!Read,
         A!Write, A!Route, A!Roles, A!Staff
<1>5. AdminPage(A!RoleManagement)
  BY DEF AdminPage, AdminRoute, A!RoleManagement, A!ForAdmins, A!Page, A!communityRoutes, A!Read,
         A!Write, A!Route, A!Roles, A!Staff
<1>6. AdminPage(A!CommunitySettings)
  BY DEF AdminPage, AdminRoute, A!CommunitySettings, A!ForAdmins, A!Page, A!communityRoutes,
         A!Read, A!Write, A!Route, A!Roles, A!Staff
<1>7. AdminPage(A!BrandingCustomizer)
  BY DEF AdminPage, AdminRoute, A!BrandingCustomizer, A!ForAdmins, A!Page, A!communityRoutes,
         A!Read, A!Write, A!Route, A!Roles, A!Staff
<1>8. AdminPage(A!AdminWizard)
  BY DEF AdminPage, AdminRoute, A!AdminWizard, A!ForAdmins, A!Page, A!communityRoutes, A!Read,
         A!Write, A!Route, A!Roles, A!Staff
<1> QED BY <1>1, <1>2, <1>3, <1>4, <1>5, <1>6, <1>7, <1>8

LEMMA ManagerPages ==
  ASSUME NEW p \in {A!EventCommandCenter, A!AttendeeList, A!Broadcast, A!MaterialsUpload,
                    A!PublishRecap}
  PROVE  ManagerPage(p)
<1>1. ManagerPage(A!EventCommandCenter)
  BY DEF ManagerPage, ManagerRoute, A!EventCommandCenter, A!ForManagers, A!Page, A!eventRoutes,
         A!Read, A!Write, A!Route, A!Roles, A!Staff
<1>2. ManagerPage(A!AttendeeList)
  BY DEF ManagerPage, ManagerRoute, A!AttendeeList, A!ForManagers, A!Page, A!eventRoutes, A!Read,
         A!Write, A!Route, A!Roles, A!Staff
<1>3. ManagerPage(A!Broadcast)
  BY DEF ManagerPage, ManagerRoute, A!Broadcast, A!ForManagers, A!Page, A!eventRoutes, A!Read,
         A!Write, A!Route, A!Roles, A!Staff
<1>4. ManagerPage(A!MaterialsUpload)
  BY DEF ManagerPage, ManagerRoute, A!MaterialsUpload, A!ForManagers, A!Page, A!eventRoutes,
         A!Read, A!Write, A!Route, A!Roles, A!Staff
<1>5. ManagerPage(A!PublishRecap)
  BY DEF ManagerPage, ManagerRoute, A!PublishRecap, A!ForManagers, A!Page, A!eventRoutes, A!Read,
         A!Write, A!Route, A!Roles, A!Staff
<1> QED BY <1>1, <1>2, <1>3, <1>4, <1>5

LEMMA SuperPages ==
  ASSUME NEW p \in {A!SuperDashboard, A!SuperCommunitiesList, A!SuperUsersList, A!SuperAudit,
                    A!PlatformSettings, A!CreateCommunity, A!SuperCommunityDetail,
                    A!SuperUserDetail}
  PROVE  SuperPage(p)
<1>1. SuperPage(A!SuperDashboard)
  BY DEF SuperPage, SuperRoute, A!SuperDashboard, A!ForSupers, A!Page, A!superRoutes, A!Read,
         A!Write, A!Route
<1>2. SuperPage(A!SuperCommunitiesList)
  BY DEF SuperPage, SuperRoute, A!SuperCommunitiesList, A!ForSupers, A!Page, A!superRoutes,
         A!Read, A!Write, A!Route
<1>3. SuperPage(A!SuperUsersList)
  BY DEF SuperPage, SuperRoute, A!SuperUsersList, A!ForSupers, A!Page, A!superRoutes, A!Read,
         A!Write, A!Route
<1>4. SuperPage(A!SuperAudit)
  BY DEF SuperPage, SuperRoute, A!SuperAudit, A!ForSupers, A!Page, A!superRoutes, A!Read,
         A!Write, A!Route
<1>5. SuperPage(A!PlatformSettings)
  BY DEF SuperPage, SuperRoute, A!PlatformSettings, A!ForSupers, A!Page, A!superRoutes, A!Read,
         A!Write, A!Route
<1>6. SuperPage(A!CreateCommunity)
  BY DEF SuperPage, SuperRoute, A!CreateCommunity, A!ForSupers, A!Page, A!superRoutes, A!Read,
         A!Write, A!Route
<1>7. SuperPage(A!SuperCommunityDetail)
  BY DEF SuperPage, SuperRoute, A!SuperCommunityDetail, A!ForSupers, A!Page, A!superRoutes,
         A!Read, A!Write, A!Route
<1>8. SuperPage(A!SuperUserDetail)
  BY DEF SuperPage, SuperRoute, A!SuperUserDetail, A!ForSupers, A!Page, A!superRoutes, A!Read,
         A!Write, A!Route
<1> QED BY <1>1, <1>2, <1>3, <1>4, <1>5, <1>6, <1>7, <1>8

LEMMA PageKinds ==
  ASSUME NEW p \in A!Pages
  PROVE  StaffPage(p) \/ AdminPage(p) \/ ManagerPage(p) \/ SuperPage(p)
BY StaffPages, AdminPages, ManagerPages, SuperPages DEF A!Pages
-----------------------------------------------------------------------------
(* Access: the client and the server agree                                 *)

\* The one Membership of a community is what looking for it finds.
LEMMA RowOfIs ==
  ASSUME NEW s \in Seq(A!Row), Distinct(s), NEW i \in DOMAIN s
  PROVE  s[i].of \in A!Of(s) /\ A!RowOf(s, s[i].of) = s[i]
<1>1. PICK c : c = s[i].of
  OBVIOUS
<1>2. PICK k : k = CHOOSE j \in DOMAIN s : s[j].of = c
  OBVIOUS
<1>3. k \in DOMAIN s /\ s[k].of = c
  BY <1>1, <1>2
<1>4. k = i
  BY <1>1, <1>3 DEF Distinct
<1> QED BY <1>1, <1>2, <1>4 DEF A!RowOf, A!Of

\* Which row a choice of community stands for
LEMMA PickedIs ==
  ASSUME NEW s \in Seq(A!Row), Distinct(s), s # <<>>, NEW ctx
  PROVE  \E i \in DOMAIN s :
            /\ A!pickActiveMembership(s, ctx) = s[i]
            /\ ctx \in A!Of(s) => s[i].of = ctx
            /\ ctx \notin A!Of(s) => i = 1
<1>1. 1 \in DOMAIN s
  OBVIOUS
<1>2. CASE ctx \in A!Of(s)
  <2>1. PICK i \in DOMAIN s : s[i].of = ctx
    BY <1>2 DEF A!Of
  <2> QED BY <1>2, <2>1, RowOfIs DEF A!pickActiveMembership
<1>3. CASE ctx \notin A!Of(s)
  BY <1>1, <1>3 DEF A!pickActiveMembership
<1> QED BY <1>2, <1>3

\* What the gates judge by, while the tab is up to date
LEMMA JudgedIs ==
  ASSUME AccessInv, A!UpToDate, rows # <<>>
  PROVE  \E i \in DOMAIN rows :
            /\ A!Judged = rows[i] /\ rows[i] \in A!Row
            /\ client.ctx \in A!Of(rows) => rows[i].of = client.ctx
            /\ client.ctx \notin A!Of(rows) => i = 1
<1>1. rows \in Seq(A!Row) /\ Distinct(rows) /\ client.mine = rows
  BY DEF AccessInv, A!UpToDate
<1>2. A!Judged = A!pickActiveMembership(rows, client.ctx)
  BY <1>1 DEF A!Judged, A!pickActiveMembership
<1> QED BY <1>1, <1>2, PickedIs, RowIs

\* The role the client shows the navigation and the landing page for
LEMMA ResolvedIs ==
  ASSUME AccessInv, A!UpToDate, NEW ctx
  PROVE  \/ A!resolveRole(ctx) = "super" /\ A!IsSuper /\ client.user = "superadmin"
         \/ A!resolveRole(ctx) = "none"
         \/ /\ rows # <<>>
            /\ \E i \in DOMAIN rows :
                  /\ A!resolveRole(ctx) = rows[i].role /\ rows[i] \in A!Row
                  /\ ctx \in A!Of(rows) => rows[i].of = ctx
                  /\ ctx \notin A!Of(rows) => i = 1
<1>1. /\ rows \in Seq(A!Row) /\ Distinct(rows)
      /\ client.mine = rows /\ client.user = global
  BY DEF AccessInv, A!UpToDate
<1>2. CASE client.user = "superadmin"
  BY <1>1, <1>2 DEF A!resolveRole, A!IsSuper
<1>3. CASE client.user # "superadmin" /\ rows = <<>>
  BY <1>1, <1>3 DEF A!resolveRole
<1>4. CASE client.user # "superadmin" /\ rows # <<>>
  <2>1. A!resolveRole(ctx) = A!pickActiveMembership(rows, ctx).role
    BY <1>1, <1>4 DEF A!resolveRole
  <2>2. PICK i \in DOMAIN rows :
            /\ A!pickActiveMembership(rows, ctx) = rows[i]
            /\ ctx \in A!Of(rows) => rows[i].of = ctx
            /\ ctx \notin A!Of(rows) => i = 1
    BY <1>1, <1>4, PickedIs
  <2>3. A!resolveRole(ctx) = rows[i].role /\ rows[i] \in A!Row
    BY <1>1, <2>1, <2>2, RowIs
  <2> QED BY <1>4, <2>2, <2>3
<1> QED BY <1>2, <1>3, <1>4

\* The pages the navigation shows let the user in.
LEMMA NavOpens ==
  ASSUME AccessInv, A!UpToDate, NEW p \in A!NavTabs(A!resolveRole(client.ctx))
  PROVE  A!Admits(p, NoCommunity)
<1>1. PICK role : role = A!resolveRole(client.ctx)
  OBVIOUS
<1>2. A!Staff \subseteq A!Roles /\ "super" \notin A!Roles /\ "none" \notin A!Roles
  BY DEF A!Staff, A!Roles
<1>3. CASE role = "super" /\ p \in {A!SuperDashboard, A!SuperCommunitiesList, A!SuperUsersList,
                                    A!PlatformSettings}
  <2>1. p.gate = "super"
    BY <1>3, SuperPages DEF SuperPage
  <2>2. client.user = "superadmin"
    <3>1. ASSUME NEW i \in DOMAIN rows, rows[i] \in A!Row  PROVE rows[i].role # "super"
      BY <1>2, <3>1 DEF A!Row
    <3> QED BY <1>1, <1>3, <3>1, ResolvedIs
  <2> QED BY <2>1, <2>2 DEF A!Admits, A!SuperGate
<1>4. CASE role \in A!Staff /\ p \in {A!AdminDashboard, A!MemberList, A!AdminEventList,
                                      A!SubAdminAnalytics}
  <2>1. p.gate = "staff"
    BY <1>4, StaffPages DEF StaffPage
  <2>2. PICK i \in DOMAIN rows :
            /\ role = rows[i].role /\ rows # <<>>
            /\ client.ctx \in A!Of(rows) => rows[i].of = client.ctx
            /\ client.ctx \notin A!Of(rows) => i = 1
    BY <1>1, <1>2, <1>4, ResolvedIs
  <2>3. PICK j \in DOMAIN rows :
            /\ A!Judged = rows[j]
            /\ client.ctx \in A!Of(rows) => rows[j].of = client.ctx
            /\ client.ctx \notin A!Of(rows) => j = 1
    BY <2>2, JudgedIs
  <2>4. i = j
    BY <2>2, <2>3 DEF AccessInv, Distinct
  <2>5. A!CommunityRoleGate(A!Staff)
    BY <1>4, <2>2, <2>3, <2>4 DEF A!CommunityRoleGate, A!UpToDate
  <2> QED BY <2>1, <2>5 DEF A!Admits
<1> QED BY <1>1, <1>3, <1>4 DEF A!NavTabs

\* So do those the login leads to.
LEMMA LandingOpens ==
  ASSUME AccessInv, A!UpToDate, NEW p \in A!LandingPages(A!resolveRole(NoCommunity)),
         client.ctx = NoCommunity \/ (rows # <<>> /\ client.ctx = rows[1].of)
  PROVE  A!Admits(p, NoCommunity)
<1>1. PICK role : role = A!resolveRole(NoCommunity)
  OBVIOUS
<1>2. /\ A!Staff \subseteq A!Roles /\ "super" \notin A!Roles /\ "none" \notin A!Roles
      /\ "admin" \in A!Staff
  BY DEF A!Staff, A!Roles
<1>3. rows \in Seq(A!Row) /\ Distinct(rows) /\ client.mine = rows
  BY DEF AccessInv, A!UpToDate
<1>4. NoCommunity \notin A!Of(rows)
  BY <1>3, RowIs, CommunityKnown DEF A!Of
<1>5. CASE role = "super" /\ p = A!SuperDashboard
  <2>1. p.gate = "super"
    BY <1>5, SuperPages DEF SuperPage
  <2>2. client.user = "superadmin"
    <3>1. ASSUME NEW i \in DOMAIN rows, rows[i] \in A!Row  PROVE rows[i].role # "super"
      BY <1>2, <3>1 DEF A!Row
    <3> QED BY <1>1, <1>5, <3>1, ResolvedIs
  <2> QED BY <2>1, <2>2 DEF A!Admits, A!SuperGate
<1>6. CASE /\ role \in A!Staff
           /\ p = A!AdminDashboard \/ (role = "admin" /\ p = A!AdminWizard)
  <2>1. rows # <<>> /\ role = rows[1].role
    BY <1>1, <1>2, <1>4, <1>6, ResolvedIs
  <2>2. PICK j \in DOMAIN rows :
            /\ A!Judged = rows[j]
            /\ client.ctx \in A!Of(rows) => rows[j].of = client.ctx
            /\ client.ctx \notin A!Of(rows) => j = 1
    BY <2>1, JudgedIs
  <2>3. 1 \in DOMAIN rows
    BY <1>3, <2>1
  <2>4. j = 1
    <3>1. CASE client.ctx = NoCommunity
      BY <1>4, <2>2, <3>1
    <3>2. CASE client.ctx = rows[1].of
      <4>1. client.ctx \in A!Of(rows)
        BY <2>3, <3>2 DEF A!Of
      <4> QED BY <1>3, <2>2, <2>3, <3>2, <4>1 DEF Distinct
    <3> QED BY <3>1, <3>2
  <2>5. /\ A!CommunityRoleGate(A!Staff)
        /\ role = "admin" => A!CommunityRoleGate({"admin"})
    BY <1>3, <1>6, <2>1, <2>2, <2>4 DEF A!CommunityRoleGate
  <2>6. A!AdminDashboard.gate = "staff" /\ A!AdminWizard.gate = "admin"
    BY StaffPages, AdminPages DEF StaffPage, AdminPage
  <2> QED BY <1>6, <2>5, <2>6 DEF A!Admits
<1> QED BY <1>1, <1>2, <1>5, <1>6 DEF A!LandingPages

\* So does the command center of each event listed for the user to manage.
LEMMA ManagedOpens ==
  ASSUME AccessInv, A!UpToDate, NEW c \in A!listMyManagedEvents, A!IsSuper \/ c \in A!Of(rows)
  PROVE  A!Admits(A!EventCommandCenter, c)
<1>1. A!EventCommandCenter.gate = "manager"
  BY ManagerPages DEF ManagerPage
<1>2. CASE A!IsSuper
  BY <1>1, <1>2 DEF A!IsSuper, A!UpToDate, A!Admits, A!EventManagerGate
<1>3. CASE ~ A!IsSuper
  <2>1. PICK i \in DOMAIN rows : rows[i].of = c
    BY <1>3 DEF A!Of
  <2>2. A!Has(c, A!Roles)
    BY <2>1, RowIs DEF AccessInv, A!Has
  <2>3. PICK r : r = A!eventRoutes.detail
    OBVIOUS
  <2>4. r.by = "event" /\ ~ r.changes /\ r.roles = A!Roles /\ ~ r.limited
    BY <2>3 DEF A!eventRoutes, A!Read, A!Route
  <2>5. A!Served(r, c)
    BY <2>2, <2>4 DEF A!Served, A!LoadEventScope, A!RequireCommunityRole, A!RefuseSubAdmins
  <2>6. A!Has(c, A!Staff) \/ c \in manages
    BY <1>3 DEF A!listMyManagedEvents
  <2> QED BY <1>1, <2>3, <2>5, <2>6 DEF A!Admits, A!EventManagerGate
<1> QED BY <1>2, <1>3

-----------------------------------------------------------------------------
(* Access: what is asked is served                                         *)

\* Requests of the staff of a community
LEMMA StaffServed ==
  ASSUME AccessInv, NEW i \in DOMAIN rows, NEW r, NEW c \in Communities,
         rows[i].of = c, rows[i].role \in A!Staff,
         StaffRoute(r) \/ (rows[i].role = "admin" /\ AdminRoute(r)),
         standing[c] # "deleted", r.changes => standing[c] = "active"
  PROVE  A!Served(r, c)
<1>1. rows \in Seq(A!Row) /\ Distinct(rows)
  BY DEF AccessInv
<1>2. A!Has(c, r.roles)
  BY DEF A!Has, StaffRoute, AdminRoute
<1>3. A!Has(c, A!Roles)
  BY <1>1, RowIs DEF A!Has
<1>4. r.limited => ~ A!Has(c, {"subadmin"})
  <2>1. r.limited => rows[i].role # "subadmin"
    BY DEF StaffRoute
  <2> QED BY <1>1, <2>1 DEF A!Has, Distinct
<1> QED BY <1>2, <1>3, <1>4
        DEF StaffRoute, AdminRoute, A!Served, A!LoadMembership, A!LoadEventScope,
            A!RequireCommunityRole, A!CheckInHandler, A!RefuseSubAdmins

LEMMA StaffPageServed ==
  ASSUME AccessInv, A!UpToDate, NEW p, StaffPage(p) \/ AdminPage(p), NEW c \in Communities,
         A!Admits(p, c), c = A!Judged.of, NEW r \in A!Asked(p, c)
  PROVE  A!Served(r, c) \/ A!InVain(p, r, c)
<1>1. rows \in Seq(A!Row) /\ Distinct(rows) /\ client.mine = rows
  BY DEF AccessInv, A!UpToDate
<1>2. rows # <<>> /\ A!Judged.role \in A!Staff /\ (AdminPage(p) => A!Judged.role = "admin")
  BY <1>1 DEF A!Admits, A!CommunityRoleGate, StaffPage, AdminPage, A!Staff
<1>3. PICK i \in DOMAIN rows : A!Judged = rows[i] /\ rows[i] \in A!Row
  BY <1>2, JudgedIs
<1>4. /\ rows[i].of = c /\ rows[i].role \in A!Staff
      /\ AdminPage(p) => rows[i].role = "admin"
  BY <1>2, <1>3
<1>5. c \in A!Of(client.mine) /\ A!RowOf(client.mine, c) = rows[i]
  BY <1>1, <1>4, RowOfIs
<1>6. p.gate \in {"staff", "admin"}
  BY DEF StaffPage, AdminPage
<1>7. CASE \/ standing[c] = "deleted" \/ (r.changes /\ standing[c] # "active")
           \/ p = A!EditEvent /\ r = A!eventRoutes.updatePriced /\ A!Has(c, {"subadmin"})
  BY <1>6, <1>7 DEF A!InVain
<1>8. CASE /\ standing[c] # "deleted" /\ (r.changes => standing[c] = "active")
           /\ ~ (p = A!EditEvent /\ r = A!eventRoutes.updatePriced /\ A!Has(c, {"subadmin"}))
  <2>1. CASE StaffRoute(r)
    BY <1>4, <1>8, <2>1, StaffServed
  <2>2. CASE AdminRoute(r) /\ rows[i].role # "subadmin"
    <3>1. rows[i].role = "admin"
      BY <1>4, <2>2 DEF A!Staff
    <3> QED BY <1>4, <1>8, <2>2, <3>1, StaffServed
  <2>3. CASE p = A!EditEvent /\ r = A!eventRoutes.updatePriced
    <3>1. AdminRoute(r)
      BY <2>3 DEF AdminRoute, A!eventRoutes, A!Route, A!Staff
    <3>2. rows[i].role # "subadmin"
      BY <1>4, <1>8, <2>3 DEF A!Has
    <3> QED BY <2>2, <3>1, <3>2
  <2>4. r \in p.asks \/ (r \in p.full /\ rows[i].role # "subadmin")
    BY <1>5 DEF A!Asked
  <2>5. CASE StaffPage(p)
    BY <2>1, <2>2, <2>3, <2>4, <2>5 DEF StaffPage
  <2>6. CASE AdminPage(p)
    BY <1>4, <2>2, <2>4, <2>6 DEF AdminPage
  <2> QED BY <2>5, <2>6
<1> QED BY <1>7, <1>8

LEMMA ManagerPageServed ==
  ASSUME AccessInv, A!UpToDate, NEW p, ManagerPage(p), NEW c \in Communities,
         A!Admits(p, c), NEW r \in A!Asked(p, c)
  PROVE  A!Served(r, c) \/ A!InVain(p, r, c)
<1>1. p.gate = "manager" /\ ManagerRoute(r)
  BY DEF ManagerPage, A!Asked
<1>2. A!EventManagerGate(c)
  BY <1>1 DEF A!Admits
<1>3. PICK d : d = A!eventRoutes.detail
  OBVIOUS
<1>4. d.by = "event"
  BY <1>3 DEF A!eventRoutes, A!Read, A!Route
<1>5. \/ A!IsSuper
      \/ A!Has(c, A!Roles) /\ (A!Has(c, A!Staff) \/ c \in manages)
  BY <1>2, <1>3, <1>4
     DEF A!EventManagerGate, A!UpToDate, A!IsSuper, A!Served, A!LoadEventScope
<1>6. CASE r.changes /\ (standing[c] # "active" \/ (A!IsSuper /\ ~ A!Has(c, A!Staff)))
  BY <1>1, <1>6 DEF A!InVain
<1>7. CASE r.changes => standing[c] = "active" /\ (A!IsSuper => A!Has(c, A!Staff))
  <2>1. A!LoadEventScope(r, c)
    BY <1>5, <1>7 DEF A!LoadEventScope
  <2>2. A!RequireEventManager(r, c)
    BY <1>5, <1>7 DEF A!RequireEventManager
  <2>3. r.roles = A!Roles => A!RequireCommunityRole(r, c)
    BY DEF A!RequireCommunityRole
  <2> QED BY <1>1, <2>1, <2>2, <2>3 DEF ManagerRoute, A!Served, A!RefuseSubAdmins
<1> QED BY <1>6, <1>7

LEMMA SuperPageServed ==
  ASSUME A!UpToDate, NEW p, SuperPage(p), NEW c \in Communities,
         A!Admits(p, c), NEW r \in A!Asked(p, c)
  PROVE  A!Served(r, c)
<1>1. A!IsSuper
  BY DEF SuperPage, A!Admits, A!SuperGate, A!UpToDate, A!IsSuper
<1>2. SuperRoute(r)
  BY DEF SuperPage, A!Asked
<1> QED BY <1>1, <1>2 DEF SuperRoute, A!Served, A!RefuseSubAdmins

LEMMA AccessImplies == AccessInv => A!TypeOK /\ A!PagesWork
<1> SUFFICES ASSUME AccessInv, A!UpToDate PROVE A!PagesWork
  BY AccessTypes DEF A!PagesWork
<1>1. ASSUME NEW p \in A!Offered  PROVE A!Admits(p, NoCommunity)
  BY <1>1, NavOpens, LandingOpens DEF A!Offered
<1>2. ASSUME NEW c \in A!listMyManagedEvents, A!IsSuper \/ c \in A!Of(rows)
      PROVE  A!Admits(A!EventCommandCenter, c)
  BY <1>2, ManagedOpens
<1>3. ASSUME NEW p \in A!Pages, NEW c \in Communities, A!Admits(p, c),
             p.gate \in {"staff", "admin"} => c = A!Judged.of, NEW r \in A!Asked(p, c)
      PROVE  A!Served(r, c) \/ A!InVain(p, r, c)
  <2>1. CASE StaffPage(p) \/ AdminPage(p)
    <3>1. c = A!Judged.of
      BY <1>3, <2>1 DEF StaffPage, AdminPage
    <3> QED BY <1>3, <2>1, <3>1, StaffPageServed
  <2>2. CASE ManagerPage(p)
    BY <1>3, <2>2, ManagerPageServed
  <2>3. CASE SuperPage(p)
    BY <1>3, <2>3, SuperPageServed
  <2> QED BY <2>1, <2>2, <2>3, PageKinds
<1> QED BY <1>1, <1>2, <1>3 DEF A!PagesWork

\* For any number of communities, whatever the order in which Memberships,
\* roles and standings change: who may open a page in the client may do on it
\* what it asks of the server (routes.tsx, lib/role.ts; backend middleware).
THEOREM AccessRight == A!Spec => [](A!TypeOK /\ A!PagesWork)
<1>1. A!Init => AccessInv
  BY AccessInit
<1>2. AccessInv /\ [A!Next]_A!vars => AccessInv'
  BY AccessNext, AccessStutter DEF A!vars, accessVars
<1>3. AccessInv => A!TypeOK /\ A!PagesWork
  BY AccessImplies
<1> QED BY <1>1, <1>2, <1>3, PTL DEF A!Spec

-----------------------------------------------------------------------------
(* What the forms save: the inductive invariant of Edits                   *)

Kinds == {"event", "community", "user", "platform"}
Words == E!Values \cup E!Pricings \cup E!Places \cup E!Statuses

Fields(kind) ==
    CASE kind = "event" -> E!EventFields \cup {"status"}
      [] kind = "community" -> E!CommunityFields
      [] kind = "user" -> E!UserFields
      [] kind = "platform" -> E!PlatformFields
Copies == {"name", "interests"}
Everything == E!Tiers \cup UNION {Fields(kind) : kind \in Kinds}

ScreenNames == {"EditEvent", "EditPricing", "CommunitySettings", "Branding", "AdminWizard",
                "EditProfile", "ProfileSetup", "InterestsSelector", "PrivacySettings",
                "NotificationPrefs", "PlatformSettings"}

\* What is entered on a screen, and the photo that is uploaded on one
Entered(screen) ==
    CASE screen = "EditEvent" -> E!EventFields
      [] screen = "EditPricing" -> {"pricing", "price"} \cup E!Tiers
      [] screen = "CommunitySettings" -> E!SettingsInputs
      [] screen = "Branding" -> E!BrandingInputs
      [] screen = "AdminWizard" -> E!CommunityFields
      [] screen = "EditProfile" -> E!ProfileInputs \cup {"photo"}
      [] screen = "ProfileSetup" -> {"name"}
      [] screen = "InterestsSelector" -> {"interests"}
      [] screen = "PrivacySettings" -> E!PrivacyInputs
      [] screen = "NotificationPrefs" -> E!NotificationInputs
      [] screen = "PlatformSettings" -> E!PlatformFields

\* Functions from some fields to words
Patches == UNION {[S -> Words] : S \in SUBSET Everything}
FormType == [screen : ScreenNames \cup {"none"}, pc : {"closed", "loading", "open"},
             loaded : Patches, edits : Patches, since : 0..(MaxSaves + 1), step : 1..4,
             limited : BOOLEAN]
StoreType == [Copies -> [is : Words, at : 0..MaxSaves]]

\* What a screen may not have, and sends only if it has it.
Unseen(g) ==
    {f \in Everything : \/ g.pc = "loading" /\ f \notin Copies
                        \/ g.screen = "AdminWizard" /\ f = "logo"}

\* A screen that is not outdated shows the document d.
Shows(g, d) ==
    /\ \A f \in DOMAIN d :
          \/ g.loaded[f] = d[f]
          \/ g.loaded[f] = "none" /\ f \in Unseen(g)
          \/ f = "photo" /\ g.screen = "EditProfile" /\ f \in DOMAIN g.edits
    /\ g.screen = "EditProfile" /\ "photo" \in DOMAIN g.edits => g.edits["photo"] = d["photo"]

\* A screen in use
InUse(kind, g) ==
    /\ g.screen \in E!ScreensOf(kind)
    /\ g.pc = "loading" => g.screen = "EditProfile"
    /\ g.limited => g.screen = "EditEvent"
    /\ DOMAIN g.loaded = Fields(kind) /\ DOMAIN g.edits \subseteq Entered(g.screen)
    /\ "name" \in DOMAIN g.edits => g.edits["name"] # "none"

FormFits(kind, g, d, n) ==
    /\ DOMAIN g.edits \subseteq Fields(kind) \cup E!Tiers
    /\ g.since \in 0..n \cup {E!Outdated}
    /\ g.pc = "closed" => g.screen = "none"
    /\ g.pc # "closed" => InUse(kind, g) /\ (g.since = n => Shows(g, d))

\* A copy of the user that is not outdated is as the document d.
CopyFits(copy, d, n) ==
    \A f \in Copies : copy[f].at <= n /\ (copy[f].at = n => copy[f].is = d[f])

EditsInv ==
    /\ about \in Kinds
    /\ doc \in [Fields(about) -> Words] /\ wanted \in [Fields(about) -> Words]
    /\ version \in 0..MaxSaves /\ entries \in 0..MaxEntries /\ inTurn \in BOOLEAN
    /\ inTurn => doc = wanted
    /\ page \in [Browsers -> FormType]
    /\ \A p \in Browsers : FormFits(about, page[p], doc, version)
    /\ about = "user" => /\ store \in [Browsers -> StoreType]
                         /\ \A p \in Browsers : CopyFits(store[p], doc, version)

LEMMA EditBounds == MaxSaves \in Nat /\ MaxEntries \in Nat
BY PartsAssumption DEF E!EditsAssumption

LEMMA KnownWords ==
  ASSUME NEW kind \in Kinds
  PROVE  /\ Fields(kind) \subseteq Everything /\ E!Tiers \subseteq Everything
         /\ {"none", "old", "new", "other", "free", "draft", "published"} \subseteq Words
BY DEF Everything, Words, E!Values, E!Pricings, E!Statuses

LEMMA FieldsAre ==
  /\ Fields("event") = E!EventFields \cup {"status"}
  /\ Fields("community") = E!CommunityFields
  /\ Fields("user") = E!UserFields
  /\ Fields("platform") = E!PlatformFields
BY DEF Fields

-----------------------------------------------------------------------------
(* Functions from fields                                                   *)

LEMMA PatchIs ==
  ASSUME NEW f \in Patches
  PROVE  /\ DOMAIN f \subseteq Everything /\ f \in [DOMAIN f -> Words]
         /\ \A x \in DOMAIN f : f[x] \in Words
BY DEF Patches

LEMMA PatchMade ==
  ASSUME NEW S, S \subseteq Everything, NEW f, f = [x \in S |-> f[x]], \A x \in S : f[x] \in Words
  PROVE  f \in Patches /\ DOMAIN f = S
<1>1. f \in [S -> Words]
  OBVIOUS
<1> QED BY <1>1 DEF Patches

LEMMA OverIs ==
  ASSUME NEW f \in Patches, NEW g \in Patches
  PROVE  /\ E!Over(f, g) \in Patches /\ DOMAIN E!Over(f, g) = DOMAIN f \cup DOMAIN g
         /\ \A x \in DOMAIN f : E!Over(f, g)[x] = f[x]
         /\ \A x \in DOMAIN g \ DOMAIN f : E!Over(f, g)[x] = g[x]
<1>1. PICK h : h = E!Over(f, g)
  OBVIOUS
<1>2. PICK S : S = DOMAIN f \cup DOMAIN g
  OBVIOUS
<1>3. /\ h = [x \in S |-> h[x]]
      /\ \A x \in DOMAIN f : h[x] = f[x]
      /\ \A x \in DOMAIN g \ DOMAIN f : h[x] = g[x]
  BY <1>1, <1>2 DEF E!Over
<1>4. S \subseteq Everything /\ \A x \in S : h[x] \in Words
  BY <1>2, <1>3, PatchIs
<1>5. h \in Patches /\ DOMAIN h = S
  BY <1>3, <1>4, PatchMade
<1> QED BY <1>1, <1>2, <1>3, <1>5

LEMMA OnlyIs ==
  ASSUME NEW v \in Patches, NEW S, S \subseteq DOMAIN v
  PROVE  /\ E!Only(S, v) \in Patches /\ DOMAIN E!Only(S, v) = S
         /\ \A x \in S : E!Only(S, v)[x] = v[x]
<1>1. PICK h : h = E!Only(S, v)
  OBVIOUS
<1>2. h = [x \in S |-> h[x]] /\ \A x \in S : h[x] = v[x]
  BY <1>1 DEF E!Only
<1>3. S \subseteq Everything /\ \A x \in S : h[x] \in Words
  BY <1>2, PatchIs
<1> QED BY <1>1, <1>2, <1>3, PatchMade

LEMMA FilledIs ==
  ASSUME NEW v \in Patches, NEW S, S \subseteq DOMAIN v
  PROVE  /\ E!Filled(S, v) \in Patches
         /\ DOMAIN E!Filled(S, v) = {x \in S : v[x] # "none"}
         /\ \A x \in DOMAIN E!Filled(S, v) : E!Filled(S, v)[x] = v[x]
<1>1. PICK h : h = E!Filled(S, v)
  OBVIOUS
<1>2. PICK T : T = {x \in S : v[x] # "none"}
  OBVIOUS
<1>3. h = [x \in T |-> h[x]] /\ \A x \in T : h[x] = v[x]
  BY <1>1, <1>2 DEF E!Filled
<1>4. T \subseteq Everything /\ \A x \in T : h[x] \in Words
  BY <1>2, <1>3, PatchIs
<1>5. h \in Patches /\ DOMAIN h = T
  BY <1>3, <1>4, PatchMade
<1> QED BY <1>1, <1>2, <1>3, <1>5

\* One field
LEMMA OneField ==
  ASSUME NEW x \in Everything, NEW w \in Words, NEW f, f = [y \in {x} |-> w]
  PROVE  f \in Patches /\ DOMAIN f = {x} /\ f[x] = w
<1>1. f = [y \in {x} |-> f[y]] /\ \A y \in {x} : f[y] \in Words
  OBVIOUS
<1>2. {x} \subseteq Everything
  OBVIOUS
<1> QED BY <1>1, <1>2, PatchMade

LEMMA NothingIs == E!Nothing \in Patches /\ DOMAIN E!Nothing = {}
<1>1. PICK f, S : f = E!Nothing /\ S = {}
  OBVIOUS
<1>2. f = [x \in S |-> f[x]] /\ \A x \in S : f[x] \in Words
  BY <1>1 DEF E!Nothing, E!Blank
<1>3. S \subseteq Everything
  BY <1>1
<1>4. f \in Patches /\ DOMAIN f = S
  BY <1>2, <1>3, PatchMade
<1> QED BY <1>1, <1>4

\* A patch without fields is none at all.
LEMMA NothingOnly == ASSUME NEW f \in Patches, DOMAIN f = {}  PROVE f = E!Nothing
<1>1. f = [x \in {} |-> f[x]]
  BY PatchIs
<1> QED BY <1>1 DEF E!Nothing, E!Blank

\* What the server makes of a document d
LEMMA TakeIs ==
  ASSUME NEW d \in Patches, NEW s \in Patches, NEW T
  PROVE  /\ E!Take(T, d, s) \in [DOMAIN d -> Words]
         /\ \A x \in DOMAIN d : E!Take(T, d, s)[x] = IF x \in T \cap DOMAIN s THEN s[x] ELSE d[x]
<1>1. PICK h : h = E!Take(T, d, s)
  OBVIOUS
<1>2. /\ h = [x \in DOMAIN d |-> h[x]]
      /\ \A x \in DOMAIN d : h[x] = IF x \in T \cap DOMAIN s THEN s[x] ELSE d[x]
  BY <1>1 DEF E!Take
<1>3. \A x \in DOMAIN d : h[x] \in Words
  BY <1>2, PatchIs
<1>4. h \in [DOMAIN d -> Words]
  BY <1>2, <1>3
<1> QED BY <1>1, <1>2, <1>4

-----------------------------------------------------------------------------
(* Edits: the screens                                                      *)

LEMMA EditsAre ==
  EditsInv =>
    /\ about \in Kinds /\ doc \in Patches /\ wanted \in Patches
    /\ DOMAIN doc = Fields(about) /\ DOMAIN wanted = Fields(about)
    /\ doc \in [Fields(about) -> Words]
    /\ Fields(about) \subseteq Everything
    /\ version \in Nat /\ version <= MaxSaves /\ E!Outdated \in Nat /\ E!Outdated > version
<1> SUFFICES ASSUME EditsInv
             PROVE  /\ about \in Kinds /\ doc \in Patches /\ wanted \in Patches
                    /\ DOMAIN doc = Fields(about) /\ DOMAIN wanted = Fields(about)
                    /\ doc \in [Fields(about) -> Words]
                    /\ Fields(about) \subseteq Everything
                    /\ version \in Nat /\ version <= MaxSaves
                    /\ E!Outdated \in Nat /\ E!Outdated > version
  OBVIOUS
<1>1. /\ about \in Kinds /\ doc \in [Fields(about) -> Words]
      /\ wanted \in [Fields(about) -> Words] /\ version \in 0..MaxSaves
  BY DEF EditsInv
<1>2. Fields(about) \subseteq Everything
  BY <1>1, KnownWords
<1>3. doc \in Patches /\ wanted \in Patches
  BY <1>1, <1>2 DEF Patches
<1> QED BY <1>1, <1>2, <1>3, EditBounds DEF E!Outdated

\* What a screen in use is made of
LEMMA FormIs ==
  ASSUME EditsInv, NEW p \in Browsers
  PROVE  /\ page[p] \in FormType /\ FormFits(about, page[p], doc, version)
         /\ page[p].edits \in Patches /\ page[p].loaded \in Patches
BY DEF EditsInv, FormType

LEMMA InputsKnown ==
  ASSUME NEW kind \in Kinds, NEW screen \in E!ScreensOf(kind)
  PROVE  screen \in ScreenNames /\ Entered(screen) \subseteq Fields(kind) \cup E!Tiers
<1>1. CASE kind = "event"
  BY <1>1, FieldsAre DEF E!ScreensOf, ScreenNames, Entered, E!EventFields, E!Tiers
<1>2. CASE kind = "community"
  BY <1>2, FieldsAre DEF E!ScreensOf, ScreenNames, Entered, E!CommunityFields, E!SettingsInputs,
       E!BrandingInputs
<1>3. CASE kind = "user"
  BY <1>3, FieldsAre DEF E!ScreensOf, ScreenNames, Entered, E!UserFields, E!ProfileInputs,
       E!PrivacyInputs, E!NotificationInputs
<1>4. CASE kind = "platform"
  BY <1>4, FieldsAre DEF E!ScreensOf, ScreenNames, Entered, E!PlatformFields
<1> QED BY <1>1, <1>2, <1>3, <1>4 DEF Kinds

\* A step of one screen that saves nothing
LEMMA EditsForm ==
  ASSUME EditsInv, NEW p \in Browsers, NEW g \in FormType, FormFits(about, g, doc, version),
         page' = [page EXCEPT ![p] = g], entries' \in 0..MaxEntries,
         UNCHANGED <<about, doc, version, store, wanted, inTurn>>
  PROVE  EditsInv'
<1>1. /\ page \in [Browsers -> FormType]
      /\ \A b \in Browsers : FormFits(about, page[b], doc, version)
  BY DEF EditsInv
<1>2. page' \in [Browsers -> FormType] /\ \A b \in Browsers : FormFits(about, page'[b], doc, version)
  BY <1>1
<1>3. /\ about' = about /\ doc' = doc /\ version' = version /\ store' = store
      /\ wanted' = wanted /\ inTurn' = inTurn
  OBVIOUS
<1> QED BY <1>2, <1>3 DEF EditsInv

LEMMA ClosedFits ==
  ASSUME NEW kind \in Kinds, NEW d, NEW n \in Nat
  PROVE  E!Closed \in FormType /\ FormFits(kind, E!Closed, d, n)
<1>1. PICK none : none = E!Nothing
  OBVIOUS
<1>2. none \in Patches /\ DOMAIN none = {}
  BY <1>1, NothingIs
<1>3. PICK zero \in 0..(MaxSaves + 1) : zero = 0
  BY EditBounds
<1>4. PICK one \in 1..4 : one = 1
  OBVIOUS
<1>5. PICK g : g = [screen |-> "none", pc |-> "closed", loaded |-> none, edits |-> none,
                    since |-> zero, step |-> one, limited |-> FALSE]
  OBVIOUS
<1>6. g \in FormType /\ g.pc = "closed" /\ g.screen = "none" /\ DOMAIN g.edits = {} /\ g.since = 0
  BY <1>2, <1>3, <1>5 DEF FormType
<1>7. 0 \in 0..n
  OBVIOUS
<1>8. FormFits(kind, g, d, n)
  BY <1>6, <1>7 DEF FormFits
<1>9. E!Closed = g
  BY <1>1, <1>3, <1>4, <1>5 DEF E!Closed
<1> QED BY <1>6, <1>8, <1>9

LEMMA EditsLeave == ASSUME EditsInv, NEW p \in Browsers, E!Leave(p)  PROVE EditsInv'
<1>1. /\ page' = [page EXCEPT ![p] = E!Closed]
      /\ UNCHANGED <<about, doc, version, store, entries, wanted, inTurn>>
  BY DEF E!Leave
<1>2. E!Closed \in FormType /\ FormFits(about, E!Closed, doc, version)
  BY EditsAre, ClosedFits
<1>3. entries' \in 0..MaxEntries
  BY <1>1 DEF EditsInv
<1> QED BY <1>1, <1>2, <1>3, EditsForm

LEMMA EditsBack == ASSUME EditsInv, NEW p \in Browsers, E!BackStep(p)  PROVE EditsInv'
<1>1. PICK g : g = page[p]
  OBVIOUS
<1>2. /\ g \in FormType /\ g.step > 1 /\ FormFits(about, g, doc, version)
      /\ UNCHANGED <<about, doc, version, store, entries, wanted, inTurn>>
  BY <1>1, FormIs DEF E!BackStep
<1>3. PICK step \in 1..4 : step = g.step - 1
  BY <1>2 DEF FormType
<1>4. PICK h : h = [g EXCEPT !.step = step]
  OBVIOUS
<1>5. /\ h \in FormType /\ h.screen = g.screen /\ h.pc = g.pc /\ h.loaded = g.loaded
      /\ h.edits = g.edits /\ h.since = g.since /\ h.limited = g.limited
  BY <1>2, <1>4 DEF FormType
<1>6. FormFits(about, h, doc, version)
  BY <1>2, <1>5 DEF FormFits, InUse, Shows, Unseen
<1>7. page' = [page EXCEPT ![p] = h]
  <2>1. page' = [page EXCEPT ![p] = [page[p] EXCEPT !.step = page[p].step - 1]]
    BY DEF E!BackStep, EditsInv
  <2> QED BY <1>1, <1>3, <1>4, <2>1
<1>8. entries' \in 0..MaxEntries
  BY <1>2 DEF EditsInv
<1> QED BY <1>2, <1>5, <1>6, <1>7, <1>8, EditsForm

LEMMA CopiedIs ==
  ASSUME NEW kind \in Kinds, NEW screen \in E!ScreensOf(kind)
  PROVE  /\ E!Copied(screen) \subseteq Copies
         /\ screen = "EditProfile" => E!Copied(screen) = Copies
         /\ kind # "user" => E!Copied(screen) = {} /\ screen # "EditProfile"
         /\ kind # "community" => screen \notin {"Branding", "AdminWizard"}
<1>1. CASE kind = "user"
  BY <1>1 DEF E!ScreensOf, E!Copied, Copies
<1>2. CASE kind # "user"
  BY <1>2 DEF E!ScreensOf, E!Copied, Kinds
<1> QED BY <1>1, <1>2

LEMMA BegunIs ==
  ASSUME EditsInv, NEW screen \in E!ScreensOf(about)
  PROVE  /\ E!Begun(screen) \in Patches
         /\ DOMAIN E!Begun(screen) \subseteq {"colours"}
         /\ DOMAIN E!Begun(screen) \subseteq Entered(screen)
<1>1. CASE screen \in {"Branding", "AdminWizard"} /\ doc.colours = "none"
  <2>1. PICK f : f = [colours |-> "other"]
    OBVIOUS
  <2>2. f = [x \in {"colours"} |-> f[x]] /\ f["colours"] = "other"
    BY <2>1
  <2>3. {"colours"} \subseteq Everything /\ "other" \in Words
    BY KnownWords, FieldsAre DEF Kinds, E!CommunityFields
  <2>4. f \in Patches /\ DOMAIN f = {"colours"}
    BY <2>2, <2>3, PatchMade
  <2>5. "colours" \in Entered(screen)
    BY <1>1 DEF Entered, E!BrandingInputs, E!CommunityFields
  <2> QED BY <1>1, <2>1, <2>4, <2>5 DEF E!Begun
<1>2. CASE ~ (screen \in {"Branding", "AdminWizard"} /\ doc.colours = "none")
  BY <1>2, NothingIs DEF E!Begun
<1> QED BY <1>1, <1>2

LEMMA EditsOpen ==
  ASSUME EditsInv, NEW p \in Browsers, NEW screen \in E!ScreensOf(about), NEW limited \in BOOLEAN,
         E!Open(p, screen, limited)
  PROVE  EditsInv'
<1>1. /\ about \in Kinds /\ doc \in Patches /\ DOMAIN doc = Fields(about)
      /\ Fields(about) \subseteq Everything /\ version \in Nat /\ version <= MaxSaves
      /\ E!Outdated \in Nat /\ E!Outdated > version
  BY EditsAre
<1>2. /\ E!Copied(screen) \subseteq Copies
      /\ screen = "EditProfile" => E!Copied(screen) = Copies
      /\ about # "user" => E!Copied(screen) = {} /\ screen # "EditProfile"
      /\ screen \in ScreenNames
  BY <1>1, CopiedIs, InputsKnown
<1>3. \A f \in E!Copied(screen) :
          /\ store[p][f].is \in Words
          /\ store[p][f].at = version => store[p][f].is = doc[f]
  BY <1>2 DEF EditsInv, StoreType, CopyFits
<1>4. PICK loaded : loaded = [f \in DOMAIN doc |->
                                IF f \in E!Copied(screen) THEN store[p][f].is
                                ELSE IF screen = "EditProfile" THEN "none" ELSE doc[f]]
  OBVIOUS
<1>5. loaded \in Patches /\ DOMAIN loaded = Fields(about)
  <2>1. loaded = [f \in Fields(about) |-> loaded[f]]
    BY <1>1, <1>4
  <2>2. \A f \in Fields(about) : loaded[f] \in Words
    BY <1>1, <1>3, <1>4, PatchIs, KnownWords
  <2> QED BY <1>1, <2>1, <2>2, PatchMade
<1>6. PICK edits : edits = E!Begun(screen)
  OBVIOUS
<1>7. /\ edits \in Patches /\ DOMAIN edits \subseteq {"colours"}
      /\ DOMAIN edits \subseteq Entered(screen)
      /\ DOMAIN edits \subseteq Fields(about) \cup E!Tiers
  BY <1>1, <1>6, BegunIs, InputsKnown
<1>8. PICK since \in 0..(MaxSaves + 1) :
          since = IF \E f \in E!Copied(screen) : store[p][f].at # version
                  THEN E!Outdated ELSE version
  BY <1>1, EditBounds DEF E!Outdated
<1>9. since \in 0..version \cup {E!Outdated}
  BY <1>1, <1>8
<1>10. PICK pc \in {"loading", "open"} : pc = IF screen = "EditProfile" THEN "loading" ELSE "open"
  OBVIOUS
<1>11. PICK one \in 1..4 : one = 1
  OBVIOUS
<1>12. PICK g : g = [screen |-> screen, pc |-> pc, loaded |-> loaded, edits |-> edits,
                     step |-> one, limited |-> limited, since |-> since]
  OBVIOUS
<1>13. /\ g \in FormType /\ g.screen = screen /\ g.pc = pc /\ g.loaded = loaded /\ g.edits = edits
       /\ g.limited = limited /\ g.since = since
  BY <1>2, <1>5, <1>7, <1>8, <1>10, <1>11, <1>12 DEF FormType
<1>14. /\ limited => screen = "EditEvent"
       /\ page' = [page EXCEPT ![p] = g]
       /\ UNCHANGED <<about, doc, version, store, entries, wanted, inTurn>>
  BY <1>4, <1>6, <1>8, <1>10, <1>11, <1>12 DEF E!Open
<1>15. InUse(about, g)
  BY <1>5, <1>7, <1>10, <1>13, <1>14 DEF InUse
<1>16. ASSUME since = version  PROVE Shows(g, doc)
  <2>1. \A f \in E!Copied(screen) : store[p][f].at = version
    BY <1>1, <1>8, <1>16
  <2>2. ASSUME NEW f \in DOMAIN doc
        PROVE  loaded[f] = doc[f] \/ (loaded[f] = "none" /\ f \in Unseen(g))
    <3>1. CASE f \in E!Copied(screen)
      BY <1>3, <1>4, <2>1, <2>2, <3>1
    <3>2. CASE f \notin E!Copied(screen) /\ screen = "EditProfile"
      BY <1>1, <1>2, <1>4, <1>10, <1>13, <2>2, <3>2 DEF Unseen
    <3>3. CASE f \notin E!Copied(screen) /\ screen # "EditProfile"
      BY <1>4, <2>2, <3>3
    <3> QED BY <3>1, <3>2, <3>3
  <2> QED BY <1>7, <1>13, <2>2 DEF Shows
<1>17. FormFits(about, g, doc, version)
  BY <1>7, <1>9, <1>13, <1>15, <1>16 DEF FormFits
<1>18. entries' \in 0..MaxEntries
  BY <1>14 DEF EditsInv
<1> QED BY <1>13, <1>14, <1>17, <1>18, EditsForm

LEMMA EditsAnswer == ASSUME EditsInv, NEW p \in Browsers, E!Answer(p)  PROVE EditsInv'
<1>1. /\ about \in Kinds /\ doc \in Patches /\ DOMAIN doc = Fields(about)
      /\ Fields(about) \subseteq Everything /\ version \in Nat
  BY EditsAre
<1>2. PICK g : g = page[p]
  OBVIOUS
<1>3. /\ g \in FormType /\ FormFits(about, g, doc, version) /\ g.edits \in Patches
      /\ g.loaded \in Patches /\ g.pc = "loading"
  BY <1>2, FormIs DEF E!Answer
<1>4. InUse(about, g) /\ g.screen = "EditProfile"
  BY <1>3 DEF FormFits, InUse
<1>5. about = "user" /\ "name" \in DOMAIN doc /\ "name" \in DOMAIN g.loaded
  BY <1>1, <1>4, FieldsAre DEF InUse, E!ScreensOf, Kinds, E!UserFields
<1>6. PICK late : late = {f \in DOMAIN g.edits : f = "name" \/ doc[f] = "none"}
  OBVIOUS
<1>7. PICK edits, name : edits = E!Only(late, g.edits) /\ name = E!Only({"name"}, g.loaded)
  OBVIOUS
<1>8. edits \in Patches /\ DOMAIN edits = late /\ \A f \in late : edits[f] = g.edits[f]
  BY <1>3, <1>6, <1>7, OnlyIs
<1>9. name \in Patches /\ DOMAIN name = {"name"} /\ name["name"] = g.loaded["name"]
  <2>1. {"name"} \subseteq DOMAIN g.loaded
    BY <1>5
  <2> QED BY <1>3, <1>7, <2>1, OnlyIs
<1>10. PICK loaded : loaded = E!Over(name, doc)
  OBVIOUS
<1>11. /\ loaded \in Patches /\ DOMAIN loaded = {"name"} \cup DOMAIN doc
       /\ loaded["name"] = g.loaded["name"]
       /\ \A f \in DOMAIN doc : f # "name" => loaded[f] = doc[f]
  BY <1>1, <1>9, <1>10, OverIs
<1>12. PICK h : h = [g EXCEPT !.pc = "open", !.edits = edits, !.loaded = loaded]
  OBVIOUS
<1>13. /\ h \in FormType /\ h.pc = "open" /\ h.edits = edits /\ h.loaded = loaded
       /\ h.screen = g.screen /\ h.since = g.since /\ h.limited = g.limited
  BY <1>3, <1>8, <1>11, <1>12 DEF FormType
<1>14. page' = [page EXCEPT ![p] = h]
  BY <1>2, <1>6, <1>7, <1>10, <1>12 DEF E!Answer
<1>15. InUse(about, h)
  BY <1>1, <1>4, <1>5, <1>6, <1>8, <1>11, <1>13 DEF InUse
<1>16. ASSUME h.since = version  PROVE Shows(h, doc)
  <2>1. Shows(g, doc)
    BY <1>3, <1>13, <1>16 DEF FormFits
  <2>2. g.loaded["name"] = doc["name"]
    BY <1>5, <2>1 DEF Shows, Unseen, Copies
  <2>3. "photo" \in late => edits["photo"] = doc["photo"]
    BY <1>4, <1>6, <1>8, <2>1 DEF Shows
  <2> QED BY <1>8, <1>11, <1>13, <2>2, <2>3 DEF Shows
<1>17. FormFits(about, h, doc, version)
  BY <1>3, <1>6, <1>8, <1>13, <1>15, <1>16 DEF FormFits
<1>18. UNCHANGED <<about, doc, version, store, entries, wanted, inTurn>>
  BY DEF E!Answer
<1>19. entries' \in 0..MaxEntries
  BY <1>18 DEF EditsInv
<1> QED BY <1>13, <1>14, <1>17, <1>18, <1>19, EditsForm

\* What each screen lets its user enter
LEMMA InputsOf ==
  ASSUME NEW g
  PROVE  /\ g.screen = "EditEvent" =>
               E!Inputs(g) = E!EventInputs(E!Over(g.edits, g.loaded), g.limited)
         /\ g.screen = "EditPricing" =>
               E!Inputs(g) = E!PricingInputs(E!Over(g.edits, g.loaded))
         /\ g.screen = "CommunitySettings" => E!Inputs(g) = E!SettingsInputs
         /\ g.screen = "Branding" => E!Inputs(g) = E!BrandingInputs
         /\ g.screen = "AdminWizard" => E!Inputs(g) = E!WizardInputs(g.step)
         /\ g.screen = "EditProfile" => E!Inputs(g) = E!ProfileInputs
         /\ g.screen = "ProfileSetup" => E!Inputs(g) = {"name"}
         /\ g.screen = "InterestsSelector" => E!Inputs(g) = {"interests"}
         /\ g.screen = "PrivacySettings" => E!Inputs(g) = E!PrivacyInputs
         /\ g.screen = "NotificationPrefs" => E!Inputs(g) = E!NotificationInputs
         /\ g.screen = "PlatformSettings" => E!Inputs(g) = E!PlatformFields
<1>1. g.screen = "EditEvent" =>
        E!Inputs(g) = E!EventInputs(E!Over(g.edits, g.loaded), g.limited)
  BY DEF E!Inputs, E!Onboarding
<1>2. g.screen = "EditPricing" => E!Inputs(g) = E!PricingInputs(E!Over(g.edits, g.loaded))
  BY DEF E!Inputs, E!Onboarding
<1>3. /\ g.screen = "CommunitySettings" => E!Inputs(g) = E!SettingsInputs
      /\ g.screen = "Branding" => E!Inputs(g) = E!BrandingInputs
  BY DEF E!Inputs, E!Onboarding
<1>4. g.screen = "AdminWizard" => E!Inputs(g) = E!WizardInputs(g.step)
  BY DEF E!Inputs, E!Onboarding
<1>5. g.screen = "EditProfile" => E!Inputs(g) = E!ProfileInputs
  BY DEF E!Inputs, E!Onboarding
<1>6. /\ g.screen = "ProfileSetup" => E!Inputs(g) = {"name"}
      /\ g.screen = "InterestsSelector" => E!Inputs(g) = {"interests"}
  BY DEF E!Inputs, E!Onboarding, E!Copied
<1>7. /\ g.screen = "PrivacySettings" => E!Inputs(g) = E!PrivacyInputs
      /\ g.screen = "NotificationPrefs" => E!Inputs(g) = E!NotificationInputs
      /\ g.screen = "PlatformSettings" => E!Inputs(g) = E!PlatformFields
  BY DEF E!Inputs, E!Onboarding
<1> QED BY <1>1, <1>2, <1>3, <1>4, <1>5, <1>6, <1>7

LEMMA InputsAre ==
  ASSUME NEW g \in FormType, g.screen \in ScreenNames
  PROVE  /\ E!Inputs(g) \subseteq Entered(g.screen)
         /\ g.screen = "EditProfile" => E!Inputs(g) = E!ProfileInputs
<1>1. PICK v : v = E!Over(g.edits, g.loaded)
  OBVIOUS
<1>2. CASE g.screen = "EditEvent"
  BY <1>1, <1>2, InputsOf DEF E!EventInputs, Entered, E!EventFields
<1>3. CASE g.screen = "EditPricing"
  BY <1>1, <1>3, InputsOf DEF E!PricingInputs, Entered
<1>4. CASE g.screen = "AdminWizard"
  <2>1. g.step \in 1..4
    BY DEF FormType
  <2>2. E!WizardInputs(g.step) \subseteq E!CommunityFields
    BY <2>1 DEF E!WizardInputs, E!BrandingInputs, E!CommunityFields
  <2> QED BY <1>4, <2>2, InputsOf DEF Entered
<1>5. CASE g.screen \in ScreenNames \ {"EditEvent", "EditPricing", "AdminWizard"}
  BY <1>5, InputsOf DEF Entered, ScreenNames
<1> QED BY <1>2, <1>3, <1>4, <1>5

LEMMA ChoicesAre ==
  ASSUME NEW f, NEW value \in E!Choices(f)
  PROVE  value \in Words /\ (f = "name" => value # "none")
<1>1. E!Choices(f) \subseteq Words
  BY DEF E!Choices, Words, E!Values
<1>2. E!Choices("name") = {"new"}
  BY DEF E!Choices, E!Needed
<1> QED BY <1>1, <1>2

LEMMA EditsEnter ==
  ASSUME EditsInv, NEW p \in Browsers, NEW f \in DOMAIN doc \cup E!Tiers,
         NEW value \in E!Choices(f), E!Enter(p, f, value)
  PROVE  EditsInv'
<1>1. /\ about \in Kinds /\ DOMAIN doc = Fields(about) /\ Fields(about) \subseteq Everything
      /\ version \in Nat
  BY EditsAre
<1>2. PICK g : g = page[p]
  OBVIOUS
<1>3. /\ g \in FormType /\ FormFits(about, g, doc, version) /\ g.edits \in Patches
      /\ g.pc # "closed" /\ f \in E!Inputs(g)
  BY <1>2, FormIs DEF E!Enter
<1>4. InUse(about, g) /\ g.screen \in ScreenNames
  BY <1>1, <1>3, InputsKnown DEF FormFits, InUse
<1>5. /\ f \in Entered(g.screen) /\ f \in Everything /\ value \in Words
      /\ f = "name" => value # "none"
      /\ g.screen = "EditProfile" => f # "photo"
  <2>1. f \in Everything
    BY <1>1, KnownWords
  <2> QED BY <1>3, <1>4, <2>1, InputsAre, ChoicesAre DEF E!ProfileInputs
<1>6. PICK one : one = [x \in {f} |-> value]
  OBVIOUS
<1>7. one \in Patches /\ DOMAIN one = {f} /\ one[f] = value
  BY <1>5, <1>6, OneField
<1>8. PICK edits : edits = E!Over(one, g.edits)
  OBVIOUS
<1>9. /\ edits \in Patches /\ DOMAIN edits = {f} \cup DOMAIN g.edits /\ edits[f] = value
      /\ \A x \in DOMAIN g.edits : x # f => edits[x] = g.edits[x]
  <2>1. /\ E!Over(one, g.edits) \in Patches
        /\ DOMAIN E!Over(one, g.edits) = DOMAIN one \cup DOMAIN g.edits
        /\ \A x \in DOMAIN one : E!Over(one, g.edits)[x] = one[x]
        /\ \A x \in DOMAIN g.edits \ DOMAIN one : E!Over(one, g.edits)[x] = g.edits[x]
    BY <1>3, <1>7, OverIs
  <2> QED BY <1>7, <1>8, <2>1
<1>10. PICK h : h = [g EXCEPT !.edits = edits]
  OBVIOUS
<1>11. /\ h \in FormType /\ h.pc = g.pc /\ h.edits = edits /\ h.loaded = g.loaded
       /\ h.screen = g.screen /\ h.since = g.since /\ h.limited = g.limited
  BY <1>3, <1>9, <1>10 DEF FormType
<1>12. page' = [page EXCEPT ![p] = h]
  <2>1. page' = [page EXCEPT ![p].edits = edits]
    BY <1>2, <1>6, <1>8 DEF E!Enter
  <2> QED BY <1>2, <1>10, <2>1
<1>13. InUse(about, h)
  BY <1>4, <1>5, <1>9, <1>11 DEF InUse
<1>14. ASSUME h.since = version  PROVE Shows(h, doc)
  <2>1. Shows(g, doc)
    BY <1>3, <1>11, <1>14 DEF FormFits
  <2> QED BY <1>5, <1>9, <1>11, <2>1 DEF Shows, Unseen
<1>15. FormFits(about, h, doc, version)
  BY <1>1, <1>3, <1>9, <1>11, <1>13, <1>14 DEF FormFits
<1>16. UNCHANGED <<about, doc, version, store, wanted, inTurn>>
  BY DEF E!Enter
<1>17. entries' \in 0..MaxEntries
  <2>1. entries < MaxEntries /\ entries' = entries + 1 /\ entries \in 0..MaxEntries
    BY DEF E!Enter, EditsInv
  <2> QED BY <2>1, EditBounds
<1> QED BY <1>11, <1>12, <1>15, <1>16, <1>17, EditsForm

\* A copy of the user d as of the change n
LEMMA StoreOfIs ==
  ASSUME NEW d \in Patches, DOMAIN d = Fields("user"), NEW n \in 0..MaxSaves
  PROVE  E!StoreOf(d, n) \in StoreType /\ CopyFits(E!StoreOf(d, n), d, n)
<1>1. Copies \subseteq DOMAIN d
  BY FieldsAre DEF Copies, E!UserFields
<1>2. PICK s : s = E!StoreOf(d, n)
  OBVIOUS
<1>3. s = [f \in Copies |-> [is |-> d[f], at |-> n]]
  BY <1>2 DEF E!StoreOf, Copies
<1>4. \A f \in Copies : d[f] \in Words
  BY <1>1, PatchIs
<1>5. s \in StoreType
  BY <1>3, <1>4 DEF StoreType
<1>6. CopyFits(s, d, n)
  BY <1>3 DEF CopyFits
<1> QED BY <1>2, <1>5, <1>6

LEMMA EditsReload == ASSUME EditsInv, NEW p \in Browsers, E!Reload(p)  PROVE EditsInv'
<1>1. /\ about = "user" /\ store' = [store EXCEPT ![p] = E!StoreOf(doc, version)]
      /\ UNCHANGED <<about, doc, version, page, entries, wanted, inTurn>>
  BY DEF E!Reload
<1>2. store \in [Browsers -> StoreType] /\ \A b \in Browsers : CopyFits(store[b], doc, version)
  BY <1>1 DEF EditsInv
<1>3. E!StoreOf(doc, version) \in StoreType /\ CopyFits(E!StoreOf(doc, version), doc, version)
  BY <1>1, StoreOfIs, EditsAre DEF EditsInv
<1>4. store' \in [Browsers -> StoreType] /\ \A b \in Browsers : CopyFits(store'[b], doc, version)
  BY <1>1, <1>2, <1>3
<1> QED BY <1>1, <1>4 DEF EditsInv


-----------------------------------------------------------------------------
(* Edits: what is saved                                                    *)

\* What is served changes the document or leaves it as it is.
Follows(d, n, next, m) ==
    /\ m \in 0..MaxSaves
    /\ (m = n /\ next = d) \/ m = n + 1

LEMMA FitsAfter ==
  ASSUME NEW kind \in Kinds, NEW g \in FormType, NEW d, NEW n \in 0..MaxSaves, NEW next, NEW m,
         FormFits(kind, g, d, n), Follows(d, n, next, m)
  PROVE  FormFits(kind, g, next, m)
<1>1. /\ n \in Nat /\ m \in Nat /\ m <= MaxSaves /\ n <= m /\ (m = n => next = d)
      /\ E!Outdated = MaxSaves + 1 /\ MaxSaves \in Nat
  BY EditBounds DEF Follows, E!Outdated
<1>2. g.since \in 0..n \cup {E!Outdated}
  BY DEF FormFits
<1>3. /\ g.since \in 0..m \cup {E!Outdated}
      /\ g.since = m => m = n
  BY <1>1, <1>2 DEF Follows
<1> QED BY <1>1, <1>3 DEF FormFits

LEMMA CopyAfter ==
  ASSUME NEW copy \in StoreType, NEW d, NEW n \in 0..MaxSaves, NEW next, NEW m,
         CopyFits(copy, d, n), Follows(d, n, next, m)
  PROVE  CopyFits(copy, next, m)
<1>1. /\ n \in Nat /\ m \in Nat /\ n <= m /\ (m = n => next = d) /\ (m = n \/ m = n + 1)
  BY EditBounds DEF Follows
<1>2. ASSUME NEW f \in Copies
      PROVE  copy[f].at <= m /\ (copy[f].at = m => copy[f].is = next[f])
  <2>1. copy[f].at \in Nat /\ copy[f].at <= n /\ (copy[f].at = n => copy[f].is = d[f])
    BY <1>2, EditBounds DEF StoreType, CopyFits
  <2> QED BY <1>1, <2>1
<1> QED BY <1>2 DEF CopyFits

\* The copies of the user that the browsers keep
StoreFits(s, d, n) ==
    s \in [Browsers -> StoreType] /\ \A b \in Browsers : CopyFits(s[b], d, n)

\* A step of one screen that may save
LEMMA EditsSaved ==
  ASSUME EditsInv, NEW p \in Browsers, NEW g \in FormType, FormFits(about, g, doc', version'),
         page' = [page EXCEPT ![p] = g],
         about' = about, doc' \in [Fields(about) -> Words], wanted' \in [Fields(about) -> Words],
         Follows(doc, version, doc', version'),
         entries' \in 0..MaxEntries, inTurn' \in BOOLEAN, inTurn' => doc' = wanted',
         about = "user" => StoreFits(store', doc', version')
  PROVE  EditsInv'
<1>1. /\ page \in [Browsers -> FormType] /\ about \in Kinds /\ version \in 0..MaxSaves
      /\ \A b \in Browsers : FormFits(about, page[b], doc, version)
  BY DEF EditsInv
<1>2. page' \in [Browsers -> FormType]
  BY <1>1
<1>3. ASSUME NEW b \in Browsers  PROVE FormFits(about, page'[b], doc', version')
  <2>1. CASE b = p
    BY <1>1, <2>1
  <2>2. CASE b # p
    <3>1. page[b] \in FormType /\ page'[b] = page[b] /\ FormFits(about, page[b], doc, version)
      BY <1>1, <1>3, <2>2
    <3> QED BY <1>1, <3>1, FitsAfter
  <2> QED BY <2>1, <2>2
<1>4. version' \in 0..MaxSaves
  BY DEF Follows
<1> QED BY <1>1, <1>2, <1>3, <1>4 DEF EditsInv, StoreFits

LEMMA StoreAfter ==
  ASSUME EditsInv, about = "user", NEW next, NEW m, Follows(doc, version, next, m)
  PROVE  StoreFits(store, next, m)
<1>1. /\ store \in [Browsers -> StoreType] /\ version \in 0..MaxSaves
      /\ \A b \in Browsers : CopyFits(store[b], doc, version)
  BY DEF EditsInv
<1>2. ASSUME NEW b \in Browsers  PROVE CopyFits(store[b], next, m)
  <2>1. store[b] \in StoreType /\ CopyFits(store[b], doc, version)
    BY <1>1, <1>2
  <2> QED BY <1>1, <2>1, CopyAfter
<1> QED BY <1>1, <1>2 DEF StoreFits

\* A photo that is saved at once
LEMMA PhotoIs ==
  ASSUME EditsInv, about = "user", NEW value \in Words, NEW one, one = [photo |-> value]
  PROVE  /\ one \in Patches /\ DOMAIN one = {"photo"} /\ one["photo"] = value
         /\ E!updateMe(doc, one) \in [Fields(about) -> Words]
         /\ \A f \in Fields(about) :
               E!updateMe(doc, one)[f] = IF f = "photo" THEN value ELSE doc[f]
         /\ "photo" \in Fields(about)
         /\ [wanted EXCEPT !.photo = value] \in [Fields(about) -> Words]
         /\ inTurn => E!updateMe(doc, one) = [wanted EXCEPT !.photo = value]
<1>1. "photo" \in Fields(about) /\ "photo" \in Everything
  BY FieldsAre, EditsAre DEF E!UserFields
<1>2. one = [x \in {"photo"} |-> value]
  OBVIOUS
<1>3. one \in Patches /\ DOMAIN one = {"photo"} /\ one["photo"] = value
  BY <1>1, <1>2, OneField
<1>4. PICK next : next = E!updateMe(doc, one)
  OBVIOUS
<1>5. PICK T : T = {"name", "bio", "photo", "interests", "details", "relationship"}
  OBVIOUS
<1>6. next = E!Take(T, doc, one) /\ "photo" \in T
  BY <1>4, <1>5 DEF E!updateMe
<1>7. /\ doc \in Patches /\ DOMAIN doc = Fields(about)
  BY EditsAre
<1>8. /\ next \in [Fields(about) -> Words]
      /\ \A f \in Fields(about) : next[f] = IF f \in T \cap DOMAIN one THEN one[f] ELSE doc[f]
  <2>1. /\ E!Take(T, doc, one) \in [DOMAIN doc -> Words]
        /\ \A x \in DOMAIN doc : E!Take(T, doc, one)[x] = IF x \in T \cap DOMAIN one THEN one[x]
                                                         ELSE doc[x]
    BY <1>3, <1>7, TakeIs
  <2> QED BY <1>6, <1>7, <2>1
<1>9. \A f \in Fields(about) : next[f] = IF f = "photo" THEN value ELSE doc[f]
  BY <1>3, <1>6, <1>8
<1>10. PICK w : w = [wanted EXCEPT !.photo = value]
  OBVIOUS
<1>11. wanted \in [Fields(about) -> Words] /\ (inTurn => wanted = doc)
  BY DEF EditsInv
<1>12. /\ w \in [Fields(about) -> Words]
       /\ \A f \in Fields(about) : w[f] = IF f = "photo" THEN value ELSE wanted[f]
  BY <1>1, <1>10, <1>11
<1>13. inTurn => next = w
  BY <1>8, <1>9, <1>11, <1>12
<1> QED BY <1>1, <1>3, <1>4, <1>8, <1>9, <1>10, <1>12, <1>13

LEMMA EditsUploadCover == ASSUME EditsInv, NEW p \in Browsers, E!UploadCover(p)  PROVE EditsInv'
<1>1. PICK one : one = [photo |-> "other"]
  OBVIOUS
<1>2. PICK next : next = E!updateMe(doc, one)
  OBVIOUS
<1>3. PICK at : at = IF next = doc THEN version ELSE version + 1
  OBVIOUS
<1>4. /\ about = "user" /\ at <= MaxSaves /\ entries < MaxEntries
      /\ doc' = next /\ version' = at /\ wanted' = [wanted EXCEPT !.photo = "other"]
      /\ entries' = entries + 1
      /\ about' = about /\ page' = page /\ store' = store /\ inTurn' = inTurn
  BY <1>1, <1>2, <1>3 DEF E!UploadCover
<1>5. /\ next \in [Fields(about) -> Words]
      /\ wanted' \in [Fields(about) -> Words]
      /\ inTurn => next = wanted'
  <2>1. "other" \in Words
    BY KnownWords DEF Kinds
  <2> QED BY <1>1, <1>2, <1>4, <2>1, PhotoIs
<1>6. Follows(doc, version, next, at)
  BY <1>3, <1>4, EditsAre, EditBounds DEF Follows
<1>7. StoreFits(store, next, at)
  BY <1>4, <1>6, StoreAfter
<1>8. PICK g : g = page[p]
  OBVIOUS
<1>9. g \in FormType /\ FormFits(about, g, next, at)
  <2>1. g \in FormType /\ FormFits(about, g, doc, version) /\ about \in Kinds
        /\ version \in 0..MaxSaves
    BY <1>8, FormIs DEF EditsInv
  <2> QED BY <1>6, <2>1, FitsAfter
<1>10. page' = [page EXCEPT ![p] = g]
  BY <1>4, <1>8 DEF EditsInv
<1>11. entries' \in 0..MaxEntries
  BY <1>4, EditBounds DEF EditsInv
<1>12. inTurn' \in BOOLEAN
  BY <1>4 DEF EditsInv
<1> QED BY <1>4, <1>5, <1>6, <1>7, <1>9, <1>10, <1>11, <1>12, EditsSaved

LEMMA EditsUploadPhoto == ASSUME EditsInv, NEW p \in Browsers, E!UploadPhoto(p)  PROVE EditsInv'
<1>1. PICK one : one = [photo |-> "new"]
  OBVIOUS
<1>2. PICK next : next = E!updateMe(doc, one)
  OBVIOUS
<1>3. PICK at : at = IF next = doc THEN version ELSE version + 1
  OBVIOUS
<1>4. PICK g : g = page[p]
  OBVIOUS
<1>5. PICK edits, since : /\ edits = E!Over(one, g.edits)
                          /\ since = IF g.since = version THEN at ELSE g.since
  OBVIOUS
<1>6. PICK h : h = [g EXCEPT !.edits = edits, !.since = since]
  OBVIOUS
<1>7. /\ g.screen = "EditProfile" /\ at <= MaxSaves /\ entries < MaxEntries
      /\ doc' = next /\ version' = at /\ wanted' = [wanted EXCEPT !.photo = "new"]
      /\ page' = [page EXCEPT ![p] = h]
      /\ store' = [store EXCEPT ![p] = E!StoreOf(next, at)]
      /\ entries' = entries + 1
      /\ about' = about /\ inTurn' = inTurn
  BY <1>1, <1>2, <1>3, <1>4, <1>5, <1>6 DEF E!UploadPhoto
<1>8. /\ g \in FormType /\ FormFits(about, g, doc, version) /\ g.edits \in Patches
      /\ about \in Kinds /\ version \in 0..MaxSaves
  BY <1>4, FormIs DEF EditsInv
<1>9. InUse(about, g) /\ about = "user"
  BY <1>7, <1>8 DEF FormFits, InUse, E!ScreensOf, Kinds
<1>10. /\ one \in Patches /\ DOMAIN one = {"photo"} /\ one["photo"] = "new"
       /\ next \in [Fields(about) -> Words] /\ "photo" \in Fields(about)
       /\ \A f \in Fields(about) : next[f] = IF f = "photo" THEN "new" ELSE doc[f]
       /\ wanted' \in [Fields(about) -> Words]
       /\ inTurn => next = wanted'
  <2>1. "new" \in Words
    BY KnownWords DEF Kinds
  <2> QED BY <1>1, <1>2, <1>7, <1>9, <2>1, PhotoIs
<1>11. Follows(doc, version, next, at)
  BY <1>3, <1>7, <1>8, EditBounds DEF Follows
<1>12. /\ edits \in Patches /\ DOMAIN edits = {"photo"} \cup DOMAIN g.edits
       /\ edits["photo"] = "new"
       /\ \A f \in DOMAIN g.edits : f # "photo" => edits[f] = g.edits[f]
  <2>1. /\ E!Over(one, g.edits) \in Patches
        /\ DOMAIN E!Over(one, g.edits) = DOMAIN one \cup DOMAIN g.edits
        /\ \A x \in DOMAIN one : E!Over(one, g.edits)[x] = one[x]
        /\ \A x \in DOMAIN g.edits \ DOMAIN one : E!Over(one, g.edits)[x] = g.edits[x]
    BY <1>8, <1>10, OverIs
  <2> QED BY <1>5, <1>10, <2>1
<1>13. /\ g.since \in 0..(MaxSaves + 1) /\ g.since \in 0..version \cup {E!Outdated}
       /\ at \in Nat /\ version \in Nat /\ version <= at /\ at <= MaxSaves /\ MaxSaves \in Nat
       /\ E!Outdated = MaxSaves + 1 /\ (at = version \/ at = version + 1)
  BY <1>3, <1>7, <1>8, EditBounds DEF FormFits, FormType, E!Outdated
<1>14. /\ since \in 0..(MaxSaves + 1) /\ since \in 0..at \cup {E!Outdated}
       /\ since = at => g.since = version
  BY <1>5, <1>13
<1>15. /\ h \in FormType /\ h.pc = g.pc /\ h.edits = edits /\ h.loaded = g.loaded
       /\ h.screen = g.screen /\ h.since = since /\ h.limited = g.limited
  BY <1>6, <1>8, <1>12, <1>14 DEF FormType
<1>16. InUse(about, h)
  BY <1>7, <1>9, <1>12, <1>15 DEF InUse, Entered
<1>17. ASSUME since = at  PROVE Shows(h, next)
  <2>1. Shows(g, doc)
    BY <1>7, <1>8, <1>14, <1>17 DEF FormFits
  <2>2. DOMAIN next = Fields(about) /\ DOMAIN doc = Fields(about)
    BY <1>10, EditsAre
  <2>3. h.screen = "EditProfile" /\ Unseen(h) = Unseen(g)
    BY <1>7, <1>15 DEF Unseen
  <2>4. ASSUME NEW f \in DOMAIN next, f # "photo"
        PROVE  h.loaded[f] = next[f] \/ (h.loaded[f] = "none" /\ f \in Unseen(h))
    BY <1>10, <1>15, <2>1, <2>2, <2>3, <2>4 DEF Shows
  <2>5. "photo" \in DOMAIN h.edits /\ h.edits["photo"] = next["photo"]
    BY <1>10, <1>12, <1>15
  <2> QED BY <2>3, <2>4, <2>5 DEF Shows
<1>18. FormFits(about, h, next, at)
  BY <1>7, <1>8, <1>10, <1>12, <1>14, <1>15, <1>16, <1>17 DEF FormFits
<1>19. StoreFits(store', next, at)
  <2>1. StoreFits(store, next, at)
    BY <1>9, <1>11, StoreAfter
  <2>2. E!StoreOf(next, at) \in StoreType /\ CopyFits(E!StoreOf(next, at), next, at)
    <3>1. next \in Patches /\ DOMAIN next = Fields("user")
      BY <1>9, <1>10, EditsAre DEF Patches
    <3> QED BY <1>11, <3>1, StoreOfIs DEF Follows
  <2> QED BY <1>7, <2>1, <2>2 DEF StoreFits
<1>20. entries' \in 0..MaxEntries
  BY <1>7, EditBounds DEF EditsInv
<1>21. inTurn' \in BOOLEAN
  BY <1>7 DEF EditsInv
<1> QED BY <1>7, <1>9, <1>10, <1>11, <1>15, <1>18, <1>19, <1>20, <1>21, EditsSaved

\* What the server applies of what a screen sends
Applied(kind, screen) ==
    CASE kind = "event" -> (E!EventFields \ {"times"}) \cup {"status"}
      [] kind = "community" -> E!CommunityFields
      [] screen = "PrivacySettings" -> E!PrivacyInputs
      [] screen = "NotificationPrefs" -> E!NotificationInputs
      [] kind = "platform" -> E!PlatformFields
      [] OTHER -> {"name", "bio", "photo", "interests", "details", "relationship"}

LEMMA PatchedIs ==
  ASSUME about \in Kinds, NEW screen \in E!ScreensOf(about), NEW s
  PROVE  E!Patched(screen, s) = E!Take(Applied(about, screen), doc, s)
<1>1. CASE about = "event"
  <2>1. screen \in {"EditEvent", "EditPricing"}
    BY <1>1 DEF E!ScreensOf
  <2> QED BY <1>1, <2>1 DEF E!Patched, Applied, E!applyScopedEdit
<1>2. CASE about = "community"
  <2>1. screen \in {"CommunitySettings", "Branding", "AdminWizard"}
    BY <1>2 DEF E!ScreensOf
  <2> QED BY <1>2, <2>1 DEF E!Patched, Applied, E!updateCommunity
<1>3. CASE about = "platform"
  <2>1. screen = "PlatformSettings"
    BY <1>3 DEF E!ScreensOf
  <2> QED BY <1>3, <2>1 DEF E!Patched, Applied, E!updatePlatformSettings
<1>4. CASE about = "user" /\ screen = "PrivacySettings"
  BY <1>4 DEF E!Patched, Applied, E!updatePrivacy
<1>5. CASE about = "user" /\ screen = "NotificationPrefs"
  BY <1>5 DEF E!Patched, Applied, E!updatePreferences
<1>6. CASE about = "user" /\ screen \in {"EditProfile", "ProfileSetup", "InterestsSelector"}
  BY <1>6 DEF E!Patched, Applied, E!updateMe
<1>7. about = "user" => screen \in {"EditProfile", "ProfileSetup", "InterestsSelector",
                                    "PrivacySettings", "NotificationPrefs"}
  BY DEF E!ScreensOf
<1> QED BY <1>1, <1>2, <1>3, <1>4, <1>5, <1>6, <1>7 DEF Kinds

\* The values of a screen: those entered, and those loaded
ValuesOf(g, v) ==
    /\ v \in Patches /\ DOMAIN v = DOMAIN g.edits \cup DOMAIN g.loaded
    /\ \A x \in DOMAIN g.edits : v[x] = g.edits[x]
    /\ \A x \in DOMAIN g.loaded \ DOMAIN g.edits : v[x] = g.loaded[x]

\* What a screen sends was entered there, or the screen shows the document d.
Current(g, s, d) == Shows(g, d) \/ DOMAIN s \subseteq DOMAIN g.edits

\* A screen sends what is kept of its inputs, and what it sends besides is the
\* document d as it was.
SendsRight(g, s, taken, d, fields) ==
    \A x \in fields :
       /\ x \in E!Kept(g) => x \in taken \cap DOMAIN s /\ s[x] = g.edits[x]
       /\ x \notin E!Kept(g) /\ x \in taken \cap DOMAIN s => s[x] = d[x]

\* What is sent and was not entered
LEMMA HeldIs ==
  ASSUME NEW g \in FormType, NEW v, ValuesOf(g, v), NEW s, NEW d, Current(g, s, d),
         NEW x \in DOMAIN d, x \in DOMAIN s, x \notin DOMAIN g.edits, x \in DOMAIN g.loaded
  PROVE  /\ v[x] = g.loaded[x]
         /\ v[x] = d[x] \/ (v[x] = "none" /\ x \in Unseen(g))
BY DEF ValuesOf, Current, Shows

LEMMA KeptIs ==
  ASSUME NEW g, NEW x
  PROVE  x \in E!Kept(g) <=>
            /\ x \in DOMAIN g.edits /\ x \in E!Inputs(g)
            /\ x \notin {"times", "included"} \cup E!Tiers
            /\ ~ (g.edits[x] = "none" /\ x \in E!NotCleared(g.screen))
BY DEF E!Kept

-----------------------------------------------------------------------------
(* Edits: what each screen sends                                           *)

LEMMA DraftIs ==
  ASSUME NEW v \in Patches, E!EventFields \subseteq DOMAIN v, NEW status \in {"draft", "published"},
         NEW s, s = E!valuesToDraft(v, status)
  PROVE  /\ s \in Patches
         /\ DOMAIN s =
               {"title", "times", "place", "capacity", "pricing", "price", "status"}
               \cup {x \in {"description", "cover"}
                           \cup (IF v["place"] # "online" THEN {"address"} ELSE {})
                           \cup (IF v["place"] # "physical" THEN {"url"} ELSE {})
                           \cup (IF v["pricing"] = "external" THEN {"link"} ELSE {}) :
                        v[x] # "none"}
         /\ \A x \in DOMAIN s : x \notin {"price", "status"} => s[x] = v[x]
         /\ s["price"] = IF v["pricing"] = "paid" THEN v["price"] ELSE "none"
         /\ s["status"] = status
<1> DEFINE also == (IF v["place"] # "online" THEN {"address"} ELSE {})
                   \cup (IF v["place"] # "physical" THEN {"url"} ELSE {})
                   \cup (IF v["pricing"] = "external" THEN {"link"} ELSE {})
<1>1. PICK texts : texts = {"description", "cover"} \cup also
  OBVIOUS
<1>2. /\ {"title", "times", "place", "capacity", "pricing", "price"} \subseteq DOMAIN v
      /\ texts \subseteq {"description", "cover", "address", "url", "link"}
      /\ {"description", "cover", "address", "url", "link"} \subseteq DOMAIN v
  BY <1>1 DEF E!EventFields
<1>3. PICK fixed : fixed = E!Only({"title", "times", "place", "capacity"}, v)
  OBVIOUS
<1>4. /\ fixed \in Patches /\ DOMAIN fixed = {"title", "times", "place", "capacity"}
      /\ \A x \in DOMAIN fixed : fixed[x] = v[x]
  <2>1. {"title", "times", "place", "capacity"} \subseteq DOMAIN v
    BY <1>2
  <2> QED BY <1>3, <2>1, OnlyIs
<1>5. PICK filled : filled = E!Filled(texts, v)
  OBVIOUS
<1>6. /\ filled \in Patches /\ DOMAIN filled = {x \in texts : v[x] # "none"}
      /\ \A x \in DOMAIN filled : filled[x] = v[x]
  <2>1. texts \subseteq DOMAIN v
    BY <1>2
  <2> QED BY <1>5, <2>1, FilledIs
<1>7. PICK price : price = E!PricingSent(v)
  OBVIOUS
<1>8. /\ price \in Patches /\ DOMAIN price = {"pricing", "price"}
      /\ price["pricing"] = v["pricing"]
      /\ price["price"] = IF v["pricing"] = "paid" THEN v["price"] ELSE "none"
  <2>1. PICK b \in Words : b = IF v["pricing"] = "paid" THEN v["price"] ELSE "none"
    BY <1>2, PatchIs, KnownWords DEF Kinds
  <2>2. price = [pricing |-> v["pricing"], price |-> b]
    BY <1>7, <2>1 DEF E!PricingSent
  <2>3. /\ price = [x \in {"pricing", "price"} |-> price[x]]
        /\ price["pricing"] = v["pricing"] /\ price["price"] = b
    BY <2>2
  <2>4. {"pricing", "price"} \subseteq Everything /\ v["pricing"] \in Words
    BY <1>2, PatchIs
  <2> QED BY <2>1, <2>3, <2>4, PatchMade
<1>9. PICK state : state = [status |-> status]
  OBVIOUS
<1>10. state \in Patches /\ DOMAIN state = {"status"} /\ state["status"] = status
  <2>1. state = [x \in {"status"} |-> status]
    BY <1>9
  <2>2. "status" \in Everything /\ status \in Words
    BY KnownWords, FieldsAre DEF Kinds
  <2> QED BY <2>1, <2>2, OneField
<1>11. PICK ps : ps = E!Over(price, state)
  OBVIOUS
<1>12. /\ ps \in Patches /\ DOMAIN ps = {"pricing", "price", "status"}
       /\ ps["pricing"] = v["pricing"] /\ ps["price"] = price["price"]
       /\ ps["status"] = status
  <2>1. /\ E!Over(price, state) \in Patches
        /\ DOMAIN E!Over(price, state) = DOMAIN price \cup DOMAIN state
        /\ \A x \in DOMAIN price : E!Over(price, state)[x] = price[x]
        /\ \A x \in DOMAIN state \ DOMAIN price : E!Over(price, state)[x] = state[x]
    BY <1>8, <1>10, OverIs
  <2> QED BY <1>8, <1>10, <1>11, <2>1
<1>13. PICK rest : rest = E!Over(filled, ps)
  OBVIOUS
<1>14. /\ rest \in Patches /\ DOMAIN rest = DOMAIN filled \cup DOMAIN ps
       /\ \A x \in DOMAIN filled : rest[x] = filled[x]
       /\ \A x \in DOMAIN ps \ DOMAIN filled : rest[x] = ps[x]
  <2>1. filled \in Patches /\ ps \in Patches
    BY <1>6, <1>12
  <2>2. /\ E!Over(filled, ps) \in Patches
        /\ DOMAIN E!Over(filled, ps) = DOMAIN filled \cup DOMAIN ps
        /\ \A x \in DOMAIN filled : E!Over(filled, ps)[x] = filled[x]
        /\ \A x \in DOMAIN ps \ DOMAIN filled : E!Over(filled, ps)[x] = ps[x]
    BY <2>1, OverIs
  <2> QED BY <1>13, <2>2
<1>15. s = E!Over(fixed, rest)
  <2>1. E!valuesToDraft(v, status) =
          E!Over(E!Only({"title", "times", "place", "capacity"}, v),
                 E!Over(E!Filled({"description", "cover"} \cup also, v),
                        E!Over(E!PricingSent(v), [status |-> status])))
    BY Zenon DEF E!valuesToDraft
  <2> HIDE DEF also
  <2> QED BY <1>1, <1>3, <1>5, <1>7, <1>9, <1>11, <1>13, <2>1
<1>16. /\ s \in Patches /\ DOMAIN s = DOMAIN fixed \cup DOMAIN rest
       /\ \A x \in DOMAIN fixed : s[x] = fixed[x]
       /\ \A x \in DOMAIN rest \ DOMAIN fixed : s[x] = rest[x]
  <2>1. fixed \in Patches /\ rest \in Patches
    BY <1>4, <1>14
  <2>2. /\ E!Over(fixed, rest) \in Patches /\ DOMAIN E!Over(fixed, rest) = DOMAIN fixed \cup DOMAIN rest
        /\ \A x \in DOMAIN fixed : E!Over(fixed, rest)[x] = fixed[x]
        /\ \A x \in DOMAIN rest \ DOMAIN fixed : E!Over(fixed, rest)[x] = rest[x]
    BY <2>1, OverIs
  <2> QED BY <1>15, <2>2
<1>17. \A x \in DOMAIN filled : x \in {"description", "cover", "address", "url", "link"}
  BY <1>2, <1>6
<1> HIDE DEF also
<1>18. /\ s["status"] = status
       /\ s["price"] = price["price"]
       /\ s["pricing"] = v["pricing"]
  BY <1>4, <1>12, <1>14, <1>16, <1>17
<1>19. \A x \in DOMAIN s : x \notin {"price", "status"} => s[x] = v[x]
  BY <1>4, <1>6, <1>12, <1>14, <1>16, <1>18
<1>20. DOMAIN s = {"title", "times", "place", "capacity", "pricing", "price", "status"}
                  \cup DOMAIN filled
  BY <1>4, <1>12, <1>14, <1>16
<1> QED BY <1>1, <1>6, <1>8, <1>16, <1>18, <1>19, <1>20 DEF also

\* What each screen sends
LEMMA SentOf ==
  ASSUME NEW p \in Browsers, NEW g, g = page[p], NEW v, v = E!Over(g.edits, g.loaded), NEW status
  PROVE  /\ g.screen = "EditEvent" => E!Sent(p, status) = E!EditEvent(v, g.limited, status)
         /\ g.screen = "EditPricing" => E!Sent(p, status) = E!PricingSent(v)
         /\ g.screen = "CommunitySettings" =>
               E!Sent(p, status) = E!CommunitySettings(v, DOMAIN g.edits)
         /\ g.screen = "Branding" => E!Sent(p, status) = E!Branding(v)
         /\ g.screen = "AdminWizard" => E!Sent(p, status) = E!WizardStep(v, g.step)
         /\ g.screen = "EditProfile" =>
               E!Sent(p, status) = E!EditProfile(v, g.pc = "open" \/ "details" \in DOMAIN g.edits)
         /\ g.screen = "ProfileSetup" => E!Sent(p, status) = E!Only({"name"}, v)
         /\ g.screen = "InterestsSelector" => E!Sent(p, status) = E!Only({"interests"}, v)
         /\ g.screen = "NotificationPrefs" =>
               E!Sent(p, status) = E!Only(E!NotificationInputs, v)
         /\ g.screen \in {"PrivacySettings", "PlatformSettings"} => E!Sent(p, status) = g.edits
<1>1. g.screen = "EditEvent" => E!Sent(p, status) = E!EditEvent(v, g.limited, status)
  BY DEF E!Sent
<1>2. g.screen = "EditPricing" => E!Sent(p, status) = E!PricingSent(v)
  BY DEF E!Sent
<1>3. g.screen = "CommunitySettings" =>
        E!Sent(p, status) = E!CommunitySettings(v, DOMAIN g.edits)
  BY DEF E!Sent
<1>4. g.screen = "Branding" => E!Sent(p, status) = E!Branding(v)
  BY DEF E!Sent
<1>5. g.screen = "AdminWizard" => E!Sent(p, status) = E!WizardStep(v, g.step)
  BY DEF E!Sent
<1>6. g.screen = "EditProfile" =>
        E!Sent(p, status) = E!EditProfile(v, g.pc = "open" \/ "details" \in DOMAIN g.edits)
  BY DEF E!Sent
<1>7. /\ g.screen = "ProfileSetup" => E!Sent(p, status) = E!Only({"name"}, v)
      /\ g.screen = "InterestsSelector" => E!Sent(p, status) = E!Only({"interests"}, v)
      /\ g.screen = "NotificationPrefs" => E!Sent(p, status) = E!Only(E!NotificationInputs, v)
  BY DEF E!Sent
<1>8. g.screen \in {"PrivacySettings", "PlatformSettings"} => E!Sent(p, status) = g.edits
  BY DEF E!Sent
<1> QED BY <1>1, <1>2, <1>3, <1>4, <1>5, <1>6, <1>7, <1>8

LEMMA ValuesAre ==
  ASSUME NEW g \in FormType, NEW v, v = E!Over(g.edits, g.loaded)
  PROVE  ValuesOf(g, v)
<1>1. PICK e, d : e = g.edits /\ d = g.loaded
  OBVIOUS
<1>2. e \in Patches /\ d \in Patches
  BY <1>1 DEF FormType
<1>3. /\ E!Over(e, d) \in Patches /\ DOMAIN E!Over(e, d) = DOMAIN e \cup DOMAIN d
      /\ \A x \in DOMAIN e : E!Over(e, d)[x] = e[x]
      /\ \A x \in DOMAIN d \ DOMAIN e : E!Over(e, d)[x] = d[x]
  BY <1>2, OverIs
<1> QED BY <1>1, <1>3 DEF ValuesOf

\* An input of a screen that is to be kept
ToKeep(g, v, x) ==
    /\ x \in E!Inputs(g) /\ x \notin {"times", "included"} \cup E!Tiers
    /\ ~ (v[x] = "none" /\ x \in E!NotCleared(g.screen))

\* Of what was entered a screen sends exactly what is to be kept, and nothing
\* that it may not have.
SendsInputs(g, v, s, taken, fields) ==
    \A x \in fields :
       /\ x \in DOMAIN g.edits => (ToKeep(g, v, x) <=> x \in taken \cap DOMAIN s)
       /\ x \in taken \cap DOMAIN s => s[x] = v[x]
       /\ x \in taken \cap DOMAIN s /\ x \notin DOMAIN g.edits =>
             ~ (v[x] = "none" /\ x \in Unseen(g))

LEMMA InputsSent ==
  ASSUME NEW g \in FormType, NEW v, ValuesOf(g, v), NEW s, NEW taken, NEW d, Current(g, s, d),
         NEW fields, fields \subseteq DOMAIN d, fields \subseteq DOMAIN g.loaded,
         SendsInputs(g, v, s, taken, fields)
  PROVE  SendsRight(g, s, taken, d, fields)
<1> SUFFICES ASSUME NEW x \in fields
             PROVE  /\ x \in E!Kept(g) => x \in taken \cap DOMAIN s /\ s[x] = g.edits[x]
                    /\ x \notin E!Kept(g) /\ x \in taken \cap DOMAIN s => s[x] = d[x]
  BY DEF SendsRight
<1>1. /\ x \in DOMAIN g.edits => (ToKeep(g, v, x) <=> x \in taken \cap DOMAIN s)
      /\ x \in taken \cap DOMAIN s => s[x] = v[x]
      /\ x \in taken \cap DOMAIN s /\ x \notin DOMAIN g.edits =>
            ~ (v[x] = "none" /\ x \in Unseen(g))
  BY DEF SendsInputs
<1>2. CASE x \in DOMAIN g.edits
  <2>1. v[x] = g.edits[x]
    BY <1>2 DEF ValuesOf
  <2>2. x \in E!Kept(g) <=> ToKeep(g, v, x)
    BY <1>2, <2>1, KeptIs DEF ToKeep
  <2> QED BY <1>1, <1>2, <2>1, <2>2
<1>3. CASE x \notin DOMAIN g.edits
  <2>1. x \notin E!Kept(g)
    BY <1>3, KeptIs
  <2>2. ASSUME x \in taken \cap DOMAIN s  PROVE s[x] = d[x]
    <3>1. v[x] = d[x] \/ (v[x] = "none" /\ x \in Unseen(g))
      BY <1>3, <2>2, HeldIs
    <3> QED BY <1>1, <1>3, <2>2, <3>1
  <2> QED BY <2>1, <2>2
<1> QED BY <1>2, <1>3

\* The screen of an event's form
LEMMA EventSends ==
  ASSUME NEW g \in FormType, InUse("event", g), g.screen = "EditEvent", g.pc = "open",
         NEW v, v = E!Over(g.edits, g.loaded), ValuesOf(g, v),
         NEW status \in {"draft", "published"}, NEW s, s = E!EditEvent(v, g.limited, status)
  PROVE  /\ s \in Patches
         /\ SendsInputs(g, v, s, Applied("event", "EditEvent"),
                        Fields("event") \ {"pricing", "price", "status"})
         /\ "status" \in DOMAIN s /\ s["status"] = status
         /\ "pricing" \in DOMAIN s
         /\ g.limited => /\ s["pricing"] = "free" /\ "price" \notin DOMAIN s
                         /\ "price" \notin E!Inputs(g)
         /\ ~ g.limited =>
               /\ SendsInputs(g, v, s, Applied("event", "EditEvent"), {"pricing"})
               /\ "price" \in DOMAIN s
               /\ v["pricing"] # "paid" => s["price"] = "none"
               /\ v["pricing"] = "paid" =>
                     SendsInputs(g, v, s, Applied("event", "EditEvent"), {"price"})
<1>1. PICK also : also = {x \in {"description", "cover"}
                           \cup (IF v["place"] # "online" THEN {"address"} ELSE {})
                           \cup (IF v["place"] # "physical" THEN {"url"} ELSE {})
                           \cup (IF v["pricing"] = "external" THEN {"link"} ELSE {}) :
                        v[x] # "none"}
  OBVIOUS
<1>2. PICK draft : draft = E!valuesToDraft(v, status)
  OBVIOUS
<1>3. v \in Patches /\ E!EventFields \subseteq DOMAIN v
  BY FieldsAre DEF ValuesOf, InUse
<1>4. /\ draft \in Patches
      /\ DOMAIN draft =
            {"title", "times", "place", "capacity", "pricing", "price", "status"} \cup also
      /\ \A x \in DOMAIN draft : x \notin {"price", "status"} => draft[x] = v[x]
      /\ draft["price"] = IF v["pricing"] = "paid" THEN v["price"] ELSE "none"
      /\ draft["status"] = status
  BY <1>1, <1>2, <1>3, DraftIs
<1>5. also \subseteq {"description", "cover", "address", "url", "link"}
  BY <1>1
<1>6. /\ s \in Patches
      /\ DOMAIN s = IF g.limited THEN DOMAIN draft \ {"price", "link"} ELSE DOMAIN draft
      /\ \A x \in DOMAIN s : s[x] = IF g.limited /\ x = "pricing" THEN "free" ELSE draft[x]
  <2>1. CASE g.limited
    <3>1. PICK S : S = DOMAIN draft \ {"price", "link"}
      OBVIOUS
    <3>2. s = [f \in DOMAIN draft \ {"price", "link"} |->
                 IF f = "pricing" THEN "free" ELSE draft[f]]
      BY <1>2, <2>1 DEF E!EditEvent
    <3>3. /\ s = [f \in S |-> s[f]]
          /\ \A f \in S : s[f] = IF f = "pricing" THEN "free" ELSE draft[f]
      BY <3>1, <3>2
    <3>4. S \subseteq Everything /\ \A f \in S : s[f] \in Words
      <4>1. "free" \in Words
        BY KnownWords DEF Kinds
      <4> QED BY <1>4, <3>1, <3>3, <4>1, PatchIs
    <3>5. s \in Patches /\ DOMAIN s = S
      BY <3>3, <3>4, PatchMade
    <3> QED BY <2>1, <3>1, <3>3, <3>5
  <2>2. CASE ~ g.limited
    BY <1>2, <1>4, <2>2 DEF E!EditEvent
  <2> QED BY <2>1, <2>2
<1>7. PICK taken : taken = Applied("event", "EditEvent")
  OBVIOUS
<1>8. taken = {"title", "description", "cover", "place", "address", "url", "capacity", "pricing",
               "price", "link", "included", "status"}
  BY <1>7 DEF Applied, E!EventFields
<1>9. \A x : x \notin Unseen(g)
  BY DEF Unseen
<1>10. /\ "status" \in DOMAIN s /\ "pricing" \in DOMAIN s
       /\ s["status"] = status
       /\ \A x \in DOMAIN s : x \notin {"pricing", "price", "status"} => s[x] = v[x]
       /\ g.limited => s["pricing"] = "free" /\ "price" \notin DOMAIN s
       /\ ~ g.limited => s["pricing"] = v["pricing"] /\ "price" \in DOMAIN s
       /\ ~ g.limited => s["price"] = IF v["pricing"] = "paid" THEN v["price"] ELSE "none"
  BY <1>4, <1>5, <1>6
<1>11. \A x : /\ x \in also <=>
                   /\ x \in {"description", "cover", "address", "url", "link"} /\ v[x] # "none"
                   /\ x = "address" => v["place"] # "online"
                   /\ x = "url" => v["place"] # "physical"
                   /\ x = "link" => v["pricing"] = "external"
  BY <1>1
<1>12. E!Inputs(g) = E!EventInputs(v, g.limited)
  BY InputsOf
<1>13. \A x : /\ x \in E!Inputs(g) <=>
                   /\ x \in E!EventFields
                   /\ x = "address" => v["place"] # "online"
                   /\ x = "url" => v["place"] # "physical"
                   /\ x = "pricing" => ~ g.limited
                   /\ x \in {"price", "included"} => v["pricing"] = "paid" /\ ~ g.limited
                   /\ x = "link" => v["pricing"] = "external" /\ ~ g.limited
  BY <1>12 DEF E!EventInputs, E!EventFields
<1>14. \A x : ToKeep(g, v, x) <=>
                /\ x \in E!Inputs(g) /\ x \notin {"times", "included", "tiers"}
                /\ ~ (v[x] = "none" /\ x \in {"description", "cover", "address", "url", "link"})
  BY DEF ToKeep, E!NotCleared, E!Tiers
<1>15. ASSUME NEW x \in Fields("event") \ {"pricing", "price", "status"}
       PROVE  ToKeep(g, v, x) <=> x \in taken \cap DOMAIN s
  <2>1. x \in DOMAIN s <=> /\ x \in {"title", "times", "place", "capacity"} \cup also
                           /\ g.limited => x # "link"
    BY <1>4, <1>6, <1>15
  <2>2. x \in E!EventFields
    BY <1>15, FieldsAre
  <2> QED BY <1>8, <1>11, <1>13, <1>14, <1>15, <2>1, <2>2 DEF E!EventFields
<1>16. SendsInputs(g, v, s, taken, Fields("event") \ {"pricing", "price", "status"})
  BY <1>9, <1>10, <1>15 DEF SendsInputs
<1>17. ASSUME ~ g.limited
       PROVE  /\ SendsInputs(g, v, s, taken, {"pricing"})
              /\ v["pricing"] = "paid" => SendsInputs(g, v, s, taken, {"price"})
  <2>1. ToKeep(g, v, "pricing") /\ "pricing" \in taken \cap DOMAIN s
    BY <1>8, <1>10, <1>13, <1>14, <1>17 DEF E!EventFields
  <2>2. v["pricing"] = "paid" => ToKeep(g, v, "price") /\ "price" \in taken \cap DOMAIN s
    BY <1>8, <1>10, <1>13, <1>14, <1>17 DEF E!EventFields
  <2> QED BY <1>9, <1>10, <1>17, <2>1, <2>2 DEF SendsInputs
<1> QED BY <1>6, <1>7, <1>10, <1>13, <1>16, <1>17

LEMMA PricingSends ==
  ASSUME NEW g \in FormType, InUse("event", g), g.screen = "EditPricing", g.pc = "open",
         NEW v, v = E!Over(g.edits, g.loaded), ValuesOf(g, v),
         NEW s, s = E!PricingSent(v)
  PROVE  /\ s \in Patches
         /\ SendsInputs(g, v, s, Applied("event", "EditPricing"), Fields("event") \ {"price"})
         /\ "price" \in DOMAIN s
         /\ v["pricing"] # "paid" => s["price"] = "none"
         /\ v["pricing"] = "paid" =>
               SendsInputs(g, v, s, Applied("event", "EditPricing"), {"price"})
<1>1. PICK taken : taken = Applied("event", "EditPricing")
  OBVIOUS
<1>2. {"pricing", "price"} \subseteq taken
  BY <1>1 DEF Applied, E!EventFields
<1>3. {"pricing", "price"} \subseteq DOMAIN v /\ v \in Patches
  BY FieldsAre DEF ValuesOf, InUse, E!EventFields
<1>4. PICK b \in Words : b = IF v["pricing"] = "paid" THEN v["price"] ELSE "none"
  BY <1>3, PatchIs, KnownWords DEF Kinds
<1>5. s = [pricing |-> v["pricing"], price |-> b]
  BY <1>4 DEF E!PricingSent
<1>6. /\ s = [x \in {"pricing", "price"} |-> s[x]]
      /\ s["pricing"] = v["pricing"] /\ s["price"] = b
  BY <1>5
<1>7. {"pricing", "price"} \subseteq Everything /\ v["pricing"] \in Words
  BY <1>3, PatchIs
<1>8. s \in Patches /\ DOMAIN s = {"pricing", "price"}
  BY <1>4, <1>6, <1>7, PatchMade
<1>9. \A x : x \notin Unseen(g)
  BY DEF Unseen
<1>10. E!Inputs(g) = E!PricingInputs(v)
  BY InputsOf
<1>11. \A x : x \in E!Inputs(g) <=>
                /\ x \in {"pricing", "price", "tiers"}
                /\ x \in {"price", "tiers"} => v["pricing"] = "paid"
  BY <1>10 DEF E!PricingInputs, E!Tiers
<1>12. \A x : ToKeep(g, v, x) <=> x \in E!Inputs(g) /\ x \notin {"times", "included", "tiers"}
  BY DEF ToKeep, E!NotCleared, E!Tiers
<1>13. "tiers" \notin Fields("event")
  BY FieldsAre DEF E!EventFields
<1>14. SendsInputs(g, v, s, taken, Fields("event") \ {"price"})
  BY <1>2, <1>6, <1>8, <1>9, <1>11, <1>12, <1>13 DEF SendsInputs
<1>15. v["pricing"] = "paid" => SendsInputs(g, v, s, taken, {"price"})
  BY <1>2, <1>4, <1>6, <1>8, <1>9, <1>11, <1>12 DEF SendsInputs
<1> QED BY <1>1, <1>4, <1>6, <1>8, <1>14, <1>15

\* The logo and the colours: an empty logo is not sent.
LEMMA BrandingIs ==
  ASSUME NEW v \in Patches, {"logo", "colours"} \subseteq DOMAIN v, NEW s, s = E!Branding(v)
  PROVE  /\ s \in Patches
         /\ DOMAIN s = {"colours"} \cup {x \in {"logo"} : v[x] # "none"}
         /\ \A x \in DOMAIN s : s[x] = v[x]
<1>1. PICK logo, colours : logo = E!Filled({"logo"}, v) /\ colours = E!Only({"colours"}, v)
  OBVIOUS
<1>2. /\ logo \in Patches /\ DOMAIN logo = {x \in {"logo"} : v[x] # "none"}
      /\ \A x \in DOMAIN logo : logo[x] = v[x]
  <2>1. {"logo"} \subseteq DOMAIN v
    OBVIOUS
  <2> QED BY <1>1, <2>1, FilledIs
<1>3. /\ colours \in Patches /\ DOMAIN colours = {"colours"}
      /\ \A x \in {"colours"} : colours[x] = v[x]
  <2>1. {"colours"} \subseteq DOMAIN v
    OBVIOUS
  <2> QED BY <1>1, <2>1, OnlyIs
<1>4. /\ E!Over(logo, colours) \in Patches
      /\ DOMAIN E!Over(logo, colours) = DOMAIN logo \cup DOMAIN colours
      /\ \A x \in DOMAIN logo : E!Over(logo, colours)[x] = logo[x]
      /\ \A x \in DOMAIN colours \ DOMAIN logo : E!Over(logo, colours)[x] = colours[x]
  <2>1. logo \in Patches /\ colours \in Patches
    BY <1>2, <1>3
  <2> QED BY <2>1, OverIs
<1>5. s = E!Over(logo, colours)
  BY <1>1 DEF E!Branding
<1> QED BY <1>2, <1>3, <1>4, <1>5

\* The sheets of a community's settings, its branding and the steps of the wizard
LEMMA CommunitySends ==
  ASSUME NEW g \in FormType, InUse("community", g), g.pc = "open",
         NEW v, v = E!Over(g.edits, g.loaded), ValuesOf(g, v), NEW s,
         g.screen = "CommunitySettings" => s = E!CommunitySettings(v, DOMAIN g.edits),
         g.screen = "Branding" => s = E!Branding(v),
         g.screen = "AdminWizard" => s = E!WizardStep(v, g.step)
  PROVE  /\ s \in Patches
         /\ SendsInputs(g, v, s, Applied("community", g.screen), Fields("community"))
         /\ DOMAIN s \subseteq E!Inputs(g) /\ \A x \in DOMAIN s : s[x] = v[x]
         /\ g.screen = "AdminWizard" =>
               \A x \in E!Inputs(g) : x \notin DOMAIN s => x = "logo" /\ v[x] = "none"
<1>1. Applied("community", g.screen) = E!CommunityFields
  <2>1. g.screen \in {"CommunitySettings", "Branding", "AdminWizard"}
    BY DEF InUse, E!ScreensOf
  <2> QED BY <2>1 DEF Applied
<1>2. /\ v \in Patches /\ DOMAIN g.loaded = E!CommunityFields
      /\ E!CommunityFields \subseteq DOMAIN v
      /\ Fields("community") = E!CommunityFields
      /\ g.screen \in {"CommunitySettings", "Branding", "AdminWizard"}
  BY FieldsAre DEF ValuesOf, InUse, E!ScreensOf
<1>3. \A x \in E!CommunityFields : x \notin {"times", "included"} \cup E!Tiers
  BY DEF E!CommunityFields, E!Tiers
<1>4. \A x : x \in Unseen(g) => g.screen = "AdminWizard" /\ x = "logo"
  BY DEF Unseen
<1>5. CASE g.screen = "CommunitySettings"
  <2>1. PICK fields : fields = IF DOMAIN g.edits \subseteq {"welcome", "rules"}
                               THEN {"welcome", "rules"} ELSE DOMAIN g.edits
    OBVIOUS
  <2>2. /\ DOMAIN g.edits \subseteq fields /\ fields \subseteq E!SettingsInputs
        /\ fields \subseteq E!CommunityFields /\ E!Inputs(g) = E!SettingsInputs
    BY <1>5, <2>1, InputsOf DEF InUse, Entered, E!SettingsInputs, E!CommunityFields
  <2>3. s = E!Only(fields, v)
    BY <1>5, <2>1 DEF E!CommunitySettings
  <2>4. fields \subseteq DOMAIN v
    BY <1>2, <2>2
  <2>5. s \in Patches /\ DOMAIN s = fields /\ \A x \in fields : s[x] = v[x]
    BY <1>2, <2>3, <2>4, OnlyIs
  <2>6. \A x \in E!CommunityFields : ToKeep(g, v, x) <=> x \in E!SettingsInputs
    BY <1>3, <1>5, <2>2 DEF ToKeep, E!NotCleared
  <2>7. SendsInputs(g, v, s, E!CommunityFields, E!CommunityFields)
    BY <1>4, <1>5, <2>2, <2>5, <2>6 DEF SendsInputs
  <2> QED BY <1>1, <1>2, <1>5, <2>2, <2>5, <2>7
<1>6. ASSUME g.screen \in {"Branding", "AdminWizard"},
             g.screen = "AdminWizard" => g.step = 2, s = E!Branding(v)
      PROVE  /\ s \in Patches
             /\ SendsInputs(g, v, s, E!CommunityFields, E!CommunityFields)
             /\ DOMAIN s \subseteq E!Inputs(g) /\ \A x \in DOMAIN s : s[x] = v[x]
             /\ \A x \in E!Inputs(g) : x \notin DOMAIN s => x = "logo" /\ v[x] = "none"
  <2>1. E!Inputs(g) = {"logo", "colours"}
    BY <1>6, InputsOf DEF E!WizardInputs, E!BrandingInputs
  <2>2. {"logo", "colours"} \subseteq DOMAIN v /\ {"logo", "colours"} \subseteq E!CommunityFields
    BY <1>2 DEF E!CommunityFields
  <2>3. /\ s \in Patches
        /\ DOMAIN s = {"colours"} \cup {x \in {"logo"} : v[x] # "none"}
        /\ \A x \in DOMAIN s : s[x] = v[x]
    BY <1>2, <1>6, <2>2, BrandingIs
  <2>4. \A x \in E!CommunityFields :
            ToKeep(g, v, x) <=> x \in {"logo", "colours"} /\ ~ (v[x] = "none" /\ x = "logo")
    BY <1>3, <1>6, <2>1 DEF ToKeep, E!NotCleared
  <2>5. SendsInputs(g, v, s, E!CommunityFields, E!CommunityFields)
    BY <1>4, <2>2, <2>3, <2>4 DEF SendsInputs
  <2> QED BY <2>1, <2>3, <2>5
<1>7. ASSUME g.screen = "AdminWizard", g.step # 2
      PROVE  /\ s \in Patches
             /\ SendsInputs(g, v, s, E!CommunityFields, E!CommunityFields)
             /\ DOMAIN s \subseteq E!Inputs(g) /\ \A x \in DOMAIN s : s[x] = v[x]
             /\ \A x \in E!Inputs(g) : x \notin DOMAIN s => x = "logo" /\ v[x] = "none"
  <2>1. PICK fields : fields = E!WizardInputs(g.step)
    OBVIOUS
  <2>2. g.step \in {1, 3, 4}
    BY <1>7 DEF FormType
  <2>3. fields \subseteq E!CommunityFields \ {"logo"} /\ s = E!Only(fields, v)
    BY <1>7, <2>1, <2>2 DEF E!WizardInputs, E!WizardStep, E!CommunityFields
  <2>4. fields \subseteq DOMAIN v
    BY <1>2, <2>3
  <2>5. s \in Patches /\ DOMAIN s = fields /\ \A x \in fields : s[x] = v[x]
    BY <1>2, <2>3, <2>4, OnlyIs
  <2>6. E!Inputs(g) = fields
    BY <1>7, <2>1, InputsOf
  <2>7. \A x \in E!CommunityFields : ToKeep(g, v, x) <=> x \in fields
    BY <1>3, <1>7, <2>3, <2>6 DEF ToKeep, E!NotCleared
  <2>8. SendsInputs(g, v, s, E!CommunityFields, E!CommunityFields)
    BY <1>4, <2>3, <2>5, <2>7 DEF SendsInputs
  <2> QED BY <2>5, <2>6, <2>8
<1>8. CASE g.screen = "Branding"
  BY <1>1, <1>2, <1>6, <1>8
<1>9. CASE g.screen = "AdminWizard"
  <2>1. g.step = 2 => s = E!Branding(v)
    BY <1>9 DEF E!WizardStep
  <2> QED BY <1>1, <1>2, <1>6, <1>7, <1>9, <2>1
<1> QED BY <1>2, <1>5, <1>8, <1>9

\* The screens of the user and of the platform.  EditProfile sends the photo that
\* was uploaded on it, which is no input.
LEMMA ProfileSends ==
  ASSUME NEW g \in FormType, InUse("user", g), g.screen = "EditProfile",
         NEW v, v = E!Over(g.edits, g.loaded), ValuesOf(g, v),
         NEW s, s = E!EditProfile(v, g.pc = "open" \/ "details" \in DOMAIN g.edits)
  PROVE  /\ s \in Patches /\ "interests" \in DOMAIN s
         /\ SendsInputs(g, v, s, Applied("user", "EditProfile"), Fields("user") \ {"photo"})
         /\ "photo" \in DOMAIN s => s["photo"] = v["photo"]
         /\ "photo" \in DOMAIN s /\ "photo" \notin DOMAIN g.edits =>
               ~ (v["photo"] = "none" /\ "photo" \in Unseen(g))
<1>1. PICK taken : taken = Applied("user", "EditProfile")
  OBVIOUS
<1>2. taken = {"name", "bio", "photo", "interests", "details", "relationship"}
  BY <1>1 DEF Applied
<1>3. /\ v \in Patches /\ DOMAIN g.loaded = E!UserFields /\ E!UserFields \subseteq DOMAIN v
      /\ Fields("user") = E!UserFields
      /\ DOMAIN g.edits \subseteq {"name", "bio", "details", "relationship", "photo"}
      /\ "name" \in DOMAIN g.edits => g.edits["name"] # "none"
      /\ \A x \in DOMAIN g.edits : v[x] = g.edits[x]
  BY FieldsAre DEF ValuesOf, InUse, Entered, E!ProfileInputs
<1>4. PICK fields : fields = {"interests"}
                             \cup (IF g.pc = "open" \/ "details" \in DOMAIN g.edits
                                   THEN {"details"} ELSE {})
  OBVIOUS
<1>5. fields \subseteq DOMAIN v /\ {"name", "bio", "photo", "relationship"} \subseteq DOMAIN v
  BY <1>3, <1>4 DEF E!UserFields
<1>6. PICK texts, lines : /\ texts = E!Filled({"name", "bio", "photo", "relationship"}, v)
                          /\ lines = E!Only(fields, v)
  OBVIOUS
<1>7. /\ texts \in Patches
      /\ DOMAIN texts = {x \in {"name", "bio", "photo", "relationship"} : v[x] # "none"}
      /\ \A x \in DOMAIN texts : texts[x] = v[x]
  BY <1>3, <1>5, <1>6, FilledIs
<1>8. lines \in Patches /\ DOMAIN lines = fields /\ \A x \in fields : lines[x] = v[x]
  BY <1>3, <1>5, <1>6, OnlyIs
<1>9. /\ E!Over(texts, lines) \in Patches
      /\ DOMAIN E!Over(texts, lines) = DOMAIN texts \cup DOMAIN lines
      /\ \A x \in DOMAIN texts : E!Over(texts, lines)[x] = texts[x]
      /\ \A x \in DOMAIN lines \ DOMAIN texts : E!Over(texts, lines)[x] = lines[x]
  <2>1. texts \in Patches /\ lines \in Patches
    BY <1>7, <1>8
  <2> QED BY <2>1, OverIs
<1>10. s = E!Over(texts, lines)
  BY <1>4, <1>6 DEF E!EditProfile
<1>11. /\ s \in Patches /\ DOMAIN s = DOMAIN texts \cup fields
       /\ \A x \in DOMAIN s : s[x] = v[x]
  BY <1>7, <1>8, <1>9, <1>10
<1>12. E!Inputs(g) = {"name", "bio", "details", "relationship"}
  BY InputsOf DEF E!ProfileInputs
<1>13. \A x : ToKeep(g, v, x) <=>
                /\ x \in {"name", "bio", "details", "relationship"}
                /\ ~ (v[x] = "none" /\ x \in {"bio", "relationship"})
  BY <1>12 DEF ToKeep, E!NotCleared, E!Tiers
<1>14. \A x : x \in Unseen(g) => g.pc = "loading" /\ x \notin {"name", "interests"}
  BY DEF Unseen, Copies
<1>15. g.pc = "loading" => g.pc # "open"
  OBVIOUS
<1>16. ASSUME NEW x \in E!UserFields \ {"photo"}, x \in DOMAIN g.edits
       PROVE  ToKeep(g, v, x) <=> x \in taken \cap DOMAIN s
  <2>1. x \in {"name", "bio", "details", "relationship"}
    BY <1>3, <1>16
  <2>2. x = "details" => x \in fields
    BY <1>4, <1>16
  <2>3. x # "details" => x \notin fields
    BY <1>4, <2>1
  <2>4. x = "name" => v[x] # "none"
    BY <1>3, <1>16
  <2> QED BY <1>2, <1>7, <1>11, <1>13, <2>1, <2>2, <2>3, <2>4
<1>17. ASSUME NEW x \in taken \cap DOMAIN s, x \notin DOMAIN g.edits
       PROVE  ~ (v[x] = "none" /\ x \in Unseen(g))
  <2>1. x \in DOMAIN texts => v[x] # "none"
    BY <1>7
  <2>2. x \in fields => x \notin Unseen(g)
    BY <1>4, <1>14, <1>15, <1>17
  <2> QED BY <1>11, <1>17, <2>1, <2>2
<1>18. SendsInputs(g, v, s, taken, Fields("user") \ {"photo"})
  BY <1>3, <1>11, <1>16, <1>17 DEF SendsInputs
<1>19. "interests" \in DOMAIN s
  BY <1>4, <1>11
<1> QED BY <1>1, <1>2, <1>11, <1>17, <1>18, <1>19

LEMMA OtherSends ==
  ASSUME NEW kind \in {"user", "platform"}, NEW g \in FormType, InUse(kind, g), g.pc = "open",
         g.screen # "EditProfile",
         NEW v, v = E!Over(g.edits, g.loaded), ValuesOf(g, v), NEW s,
         g.screen = "ProfileSetup" => s = E!Only({"name"}, v),
         g.screen = "InterestsSelector" => s = E!Only({"interests"}, v),
         g.screen = "NotificationPrefs" => s = E!Only(E!NotificationInputs, v),
         g.screen \in {"PrivacySettings", "PlatformSettings"} => s = g.edits
  PROVE  /\ s \in Patches
         /\ SendsInputs(g, v, s, Applied(kind, g.screen), Fields(kind))
         /\ \A x \in DOMAIN s : s[x] = v[x]
         /\ g.screen = "ProfileSetup" => DOMAIN s = {"name"}
         /\ g.screen = "InterestsSelector" => DOMAIN s = {"interests"}
<1>1. /\ g.screen \in {"ProfileSetup", "InterestsSelector", "PrivacySettings",
                       "NotificationPrefs", "PlatformSettings"}
      /\ kind = "platform" <=> g.screen = "PlatformSettings"
  BY DEF InUse, E!ScreensOf
<1>2. /\ v \in Patches /\ DOMAIN g.loaded = Fields(kind) /\ Fields(kind) \subseteq DOMAIN v
      /\ g.edits \in Patches /\ \A x \in DOMAIN g.edits : v[x] = g.edits[x]
      /\ DOMAIN g.edits \subseteq Entered(g.screen)
  BY DEF ValuesOf, InUse, FormType
<1>3. \A x : x \notin Unseen(g)
  BY <1>1 DEF Unseen
<1>4. PICK inputs : inputs = E!Inputs(g)
  OBVIOUS
<1>5. /\ g.screen = "ProfileSetup" => inputs = {"name"}
      /\ g.screen = "InterestsSelector" => inputs = {"interests"}
      /\ g.screen = "NotificationPrefs" => inputs = {"push", "email"}
      /\ g.screen = "PrivacySettings" => inputs = {"visibility", "mentions"}
      /\ g.screen = "PlatformSettings" => inputs = {"maintenance", "signups"}
  BY <1>4, InputsOf DEF E!NotificationInputs, E!PrivacyInputs, E!PlatformFields
<1>6. /\ kind = "user" => Fields(kind) = E!UserFields
      /\ kind = "platform" => Fields(kind) = E!PlatformFields
  BY FieldsAre
<1>7. inputs \subseteq Fields(kind) /\ inputs \subseteq DOMAIN v
  BY <1>1, <1>2, <1>5, <1>6 DEF E!UserFields, E!PlatformFields
<1>8. DOMAIN g.edits \subseteq inputs
  BY <1>1, <1>2, <1>5 DEF Entered, E!NotificationInputs, E!PrivacyInputs, E!PlatformFields
<1>9. inputs \subseteq Applied(kind, g.screen)
  BY <1>1, <1>5 DEF Applied, E!NotificationInputs, E!PrivacyInputs, E!PlatformFields
<1>10. ASSUME g.screen \in {"ProfileSetup", "InterestsSelector", "NotificationPrefs"}
       PROVE  s \in Patches /\ DOMAIN s = inputs /\ \A x \in DOMAIN s : s[x] = v[x]
  <2>1. s = E!Only(inputs, v)
    BY <1>5, <1>10 DEF E!NotificationInputs
  <2> QED BY <1>2, <1>7, <2>1, OnlyIs
<1>11. ASSUME g.screen \in {"PrivacySettings", "PlatformSettings"}
       PROVE  /\ s \in Patches /\ DOMAIN s = DOMAIN g.edits /\ \A x \in DOMAIN s : s[x] = v[x]
  BY <1>2, <1>11
<1>12. /\ s \in Patches /\ \A x \in DOMAIN s : s[x] = v[x]
       /\ DOMAIN g.edits \subseteq DOMAIN s /\ DOMAIN s \subseteq inputs
  BY <1>1, <1>8, <1>10, <1>11
<1>13. \A x \in inputs : ToKeep(g, v, x)
  <2>1. \A x \in inputs : x \notin {"times", "included", "tiers"}
    BY <1>1, <1>5
  <2>2. E!NotCleared(g.screen) = {}
    BY <1>1 DEF E!NotCleared
  <2> QED BY <1>4, <2>1, <2>2 DEF ToKeep, E!Tiers
<1>14. SendsInputs(g, v, s, Applied(kind, g.screen), Fields(kind))
  BY <1>3, <1>8, <1>9, <1>12, <1>13 DEF SendsInputs
<1>15. /\ g.screen = "ProfileSetup" => DOMAIN s = {"name"}
       /\ g.screen = "InterestsSelector" => DOMAIN s = {"interests"}
  BY <1>5, <1>10
<1> QED BY <1>12, <1>14, <1>15

-----------------------------------------------------------------------------
(* Edits: a save                                                           *)

\* What a save means besides what was entered
ExtraIs(g, v, status, extra) ==
    /\ extra \in Patches
    /\ \A x : x \in DOMAIN extra <=>
                \/ x = "status" /\ g.screen = "EditEvent"
                \/ x = "pricing" /\ g.limited
                \/ /\ x = "price" /\ g.screen \in {"EditEvent", "EditPricing"}
                   /\ v["pricing"] # "paid"
    /\ "status" \in DOMAIN extra => extra["status"] = status
    /\ "pricing" \in DOMAIN extra => extra["pricing"] = "free"
    /\ "price" \in DOMAIN extra => extra["price"] = "none"

\* A patch of one field, or none
LEMMA PerhapsIs ==
  ASSUME NEW x \in Everything, NEW w \in Words, NEW b \in BOOLEAN, NEW f,
         b => f = [y \in {x} |-> w], ~ b => f = E!Nothing
  PROVE  /\ f \in Patches /\ DOMAIN f = (IF b THEN {x} ELSE {})
         /\ b => f[x] = w
<1>1. CASE b
  BY <1>1, OneField
<1>2. CASE ~ b
  BY <1>2, NothingIs
<1> QED BY <1>1, <1>2

LEMMA ExtraMade ==
  ASSUME NEW g, NEW v, NEW status \in {"draft", "published"}, NEW chosen, NEW forced, NEW implied,
         chosen = IF g.screen = "EditEvent" THEN [status |-> status] ELSE E!Nothing,
         forced = IF g.limited THEN [pricing |-> "free"] ELSE E!Nothing,
         implied = IF g.screen \in {"EditEvent", "EditPricing"} /\ v["pricing"] # "paid"
                   THEN [price |-> "none"] ELSE E!Nothing,
         NEW extra, extra = E!Over(chosen, E!Over(forced, implied))
  PROVE  ExtraIs(g, v, status, extra)
<1>1. /\ {"status", "pricing", "price"} \subseteq Everything
      /\ status \in Words /\ "free" \in Words /\ "none" \in Words
  BY KnownWords, FieldsAre DEF Kinds, E!EventFields
<1>2. PICK b1 \in BOOLEAN : b1 <=> g.screen = "EditEvent"
  OBVIOUS
<1>3. PICK b2 \in BOOLEAN : b2 <=> g.limited
  OBVIOUS
<1>4. PICK b3 \in BOOLEAN :
          b3 <=> g.screen \in {"EditEvent", "EditPricing"} /\ v["pricing"] # "paid"
  OBVIOUS
<1>5. /\ chosen \in Patches /\ DOMAIN chosen = (IF b1 THEN {"status"} ELSE {})
      /\ b1 => chosen["status"] = status
  <2>1. b1 => chosen = [y \in {"status"} |-> status]
    BY <1>2
  <2>2. ~ b1 => chosen = E!Nothing
    BY <1>2
  <2> QED BY <1>1, <2>1, <2>2, PerhapsIs
<1>6. /\ forced \in Patches /\ DOMAIN forced = (IF b2 THEN {"pricing"} ELSE {})
      /\ b2 => forced["pricing"] = "free"
  <2>1. b2 => forced = [y \in {"pricing"} |-> "free"]
    BY <1>3
  <2>2. ~ b2 => forced = E!Nothing
    BY <1>3
  <2> QED BY <1>1, <2>1, <2>2, PerhapsIs
<1>7. /\ implied \in Patches /\ DOMAIN implied = (IF b3 THEN {"price"} ELSE {})
      /\ b3 => implied["price"] = "none"
  <2>1. b3 => implied = [y \in {"price"} |-> "none"]
    BY <1>4
  <2>2. ~ b3 => implied = E!Nothing
    BY <1>4
  <2> QED BY <1>1, <2>1, <2>2, PerhapsIs
<1>8. PICK rest : rest = E!Over(forced, implied)
  OBVIOUS
<1>9. /\ rest \in Patches /\ DOMAIN rest = DOMAIN forced \cup DOMAIN implied
      /\ \A x \in DOMAIN forced : rest[x] = forced[x]
      /\ \A x \in DOMAIN implied \ DOMAIN forced : rest[x] = implied[x]
  <2>1. forced \in Patches /\ implied \in Patches
    BY <1>6, <1>7
  <2>2. /\ E!Over(forced, implied) \in Patches /\ DOMAIN E!Over(forced, implied) = DOMAIN forced \cup DOMAIN implied
        /\ \A x \in DOMAIN forced : E!Over(forced, implied)[x] = forced[x]
        /\ \A x \in DOMAIN implied \ DOMAIN forced : E!Over(forced, implied)[x] = implied[x]
    BY <2>1, OverIs
  <2> QED BY <1>8, <2>2
<1>10. /\ extra \in Patches /\ DOMAIN extra = DOMAIN chosen \cup DOMAIN rest
       /\ \A x \in DOMAIN chosen : extra[x] = chosen[x]
       /\ \A x \in DOMAIN rest \ DOMAIN chosen : extra[x] = rest[x]
  <2>1. chosen \in Patches /\ rest \in Patches
    BY <1>5, <1>9
  <2>2. /\ E!Over(chosen, rest) \in Patches /\ DOMAIN E!Over(chosen, rest) = DOMAIN chosen \cup DOMAIN rest
        /\ \A x \in DOMAIN chosen : E!Over(chosen, rest)[x] = chosen[x]
        /\ \A x \in DOMAIN rest \ DOMAIN chosen : E!Over(chosen, rest)[x] = rest[x]
    BY <2>1, OverIs
  <2>3. extra = E!Over(chosen, rest)
    BY <1>8
  <2> QED BY <2>2, <2>3
<1>11. \A x : x \in DOMAIN extra <=> \/ x = "status" /\ b1
                                     \/ x = "pricing" /\ b2
                                     \/ x = "price" /\ b3
  BY <1>5, <1>6, <1>7, <1>9, <1>10
<1>12. /\ "status" \in DOMAIN extra => extra["status"] = status
       /\ "pricing" \in DOMAIN extra => extra["pricing"] = "free"
       /\ "price" \in DOMAIN extra => extra["price"] = "none"
  BY <1>5, <1>6, <1>7, <1>9, <1>10, <1>11
<1> QED BY <1>2, <1>3, <1>4, <1>10, <1>11, <1>12 DEF ExtraIs

\* What is wanted after a save
WantedAs(w, g, extra, old) ==
    \A x \in Fields(about) :
       w[x] = IF x \in DOMAIN extra THEN extra[x]
              ELSE IF x \in E!Kept(g) THEN g.edits[x] ELSE old[x]

LEMMA WantedIs ==
  ASSUME EditsInv, NEW p \in Browsers, NEW g, g = page[p], InUse(about, g), NEW v, NEW status,
         NEW extra, ExtraIs(g, v, status, extra),
         NEW w, w = E!Over(extra, E!Over(E!Only(E!Kept(g), g.edits), wanted))
  PROVE  /\ w \in [Fields(about) -> Words]
         /\ WantedAs(w, g, extra, wanted)
<1>1. PICK e : e = g.edits
  OBVIOUS
<1>2. e \in Patches
  BY <1>1, FormIs
<1>3. PICK kept : kept = E!Kept(g)
  OBVIOUS
<1>4. kept \subseteq DOMAIN e /\ kept \cap E!Tiers = {}
  BY <1>1, <1>3, KeptIs
<1>5. PICK only : only = E!Only(kept, e)
  OBVIOUS
<1>6. only \in Patches /\ DOMAIN only = kept /\ \A x \in kept : only[x] = e[x]
  BY <1>2, <1>4, <1>5, OnlyIs
<1>7. PICK rest : rest = E!Over(only, wanted)
  OBVIOUS
<1>8. wanted \in Patches /\ DOMAIN wanted = Fields(about) /\ about \in Kinds
  BY EditsAre
<1>9. /\ rest \in Patches /\ DOMAIN rest = DOMAIN only \cup DOMAIN wanted
      /\ \A x \in DOMAIN only : rest[x] = only[x]
      /\ \A x \in DOMAIN wanted \ DOMAIN only : rest[x] = wanted[x]
  <2>1. only \in Patches /\ wanted \in Patches
    BY <1>6, <1>8
  <2>2. /\ E!Over(only, wanted) \in Patches /\ DOMAIN E!Over(only, wanted) = DOMAIN only \cup DOMAIN wanted
        /\ \A x \in DOMAIN only : E!Over(only, wanted)[x] = only[x]
        /\ \A x \in DOMAIN wanted \ DOMAIN only : E!Over(only, wanted)[x] = wanted[x]
    BY <2>1, OverIs
  <2> QED BY <1>7, <2>2
<1>10. w = E!Over(extra, rest)
  BY <1>1, <1>3, <1>5, <1>7
<1>11. /\ w \in Patches /\ DOMAIN w = DOMAIN extra \cup DOMAIN rest
       /\ \A x \in DOMAIN extra : w[x] = extra[x]
       /\ \A x \in DOMAIN rest \ DOMAIN extra : w[x] = rest[x]
  <2>1. extra \in Patches /\ rest \in Patches
    BY <1>9 DEF ExtraIs
  <2>2. /\ E!Over(extra, rest) \in Patches /\ DOMAIN E!Over(extra, rest) = DOMAIN extra \cup DOMAIN rest
        /\ \A x \in DOMAIN extra : E!Over(extra, rest)[x] = extra[x]
        /\ \A x \in DOMAIN rest \ DOMAIN extra : E!Over(extra, rest)[x] = rest[x]
    BY <2>1, OverIs
  <2> QED BY <1>10, <2>2
<1>12. kept \subseteq Fields(about)
  <2>1. DOMAIN e \subseteq Fields(about) \cup E!Tiers
    BY <1>1, <1>8, InputsKnown DEF InUse
  <2> QED BY <1>4, <2>1
<1>13. DOMAIN extra \subseteq Fields(about)
  <2>1. DOMAIN extra # {} => g.screen \in {"EditEvent", "EditPricing"}
    BY DEF ExtraIs, InUse
  <2>2. g.screen \in {"EditEvent", "EditPricing"} => about = "event"
    BY <1>8 DEF InUse, E!ScreensOf, Kinds
  <2>3. DOMAIN extra \subseteq {"status", "pricing", "price"}
    BY DEF ExtraIs
  <2> QED BY <2>1, <2>2, <2>3, FieldsAre DEF E!EventFields
<1>14. DOMAIN w = Fields(about)
  BY <1>6, <1>8, <1>9, <1>11, <1>12, <1>13
<1>15. w \in [Fields(about) -> Words]
  <2>1. w \in [DOMAIN w -> Words]
    BY <1>11, PatchIs
  <2> QED BY <1>14, <2>1
<1>16. \A x \in Fields(about) :
          w[x] = IF x \in DOMAIN extra THEN extra[x]
                 ELSE IF x \in E!Kept(g) THEN g.edits[x] ELSE wanted[x]
  BY <1>1, <1>3, <1>6, <1>8, <1>9, <1>11, <1>12, <1>13
<1> QED BY <1>15, <1>16 DEF WantedAs

\* The document after a save
LEMMA NextIs ==
  ASSUME NEW d \in Patches, NEW s \in Patches, NEW T, NEW next, next = E!Take(T, d, s)
  PROVE  /\ next \in [DOMAIN d -> Words]
         /\ \A x \in DOMAIN d : next[x] = IF x \in T \cap DOMAIN s THEN s[x] ELSE d[x]
BY TakeIs

\* A field of the document d becomes what was entered, what the save means
\* besides, or stays as it was.
Decided(g, s, taken, extra, d, x) ==
    (IF x \in taken \cap DOMAIN s THEN s[x] ELSE d[x])
        = (IF x \in DOMAIN extra THEN extra[x] ELSE IF x \in E!Kept(g) THEN g.edits[x] ELSE d[x])

LEMMA SentDecides ==
  ASSUME NEW g \in FormType, NEW v, ValuesOf(g, v), NEW s, NEW taken, NEW d, Current(g, s, d),
         NEW fields, fields \subseteq DOMAIN d, fields \subseteq DOMAIN g.loaded,
         SendsInputs(g, v, s, taken, fields), NEW extra, NEW x \in fields, x \notin DOMAIN extra
  PROVE  Decided(g, s, taken, extra, d, x)
<1>1. SendsRight(g, s, taken, d, fields)
  BY InputsSent
<1> QED BY <1>1 DEF SendsRight, Decided

LEMMA EventDecides ==
  ASSUME NEW g \in FormType, InUse("event", g), g.pc # "closed",
         NEW v, v = E!Over(g.edits, g.loaded), ValuesOf(g, v),
         NEW status \in {"draft", "published"}, NEW s, NEW d \in Patches,
         DOMAIN d = Fields("event"),
         g.screen = "EditEvent" => s = E!EditEvent(v, g.limited, status),
         g.screen = "EditPricing" => s = E!PricingSent(v),
         ~ E!updateEventRefused(d, s, g.limited),
         NEW extra, ExtraIs(g, v, status, extra)
  PROVE  /\ s \in Patches
         /\ Current(g, s, d) =>
               \A x \in Fields("event") : Decided(g, s, Applied("event", g.screen), extra, d, x)
<1>1. g.screen \in {"EditEvent", "EditPricing"} /\ g.pc = "open"
  BY DEF InUse, E!ScreensOf, FormType
<1>2. PICK taken : taken = Applied("event", g.screen)
  OBVIOUS
<1>3. {"status", "pricing", "price"} \subseteq taken
  BY <1>1, <1>2 DEF Applied, E!EventFields
<1>4. \A x : x \in DOMAIN extra <=>
                \/ x = "status" /\ g.screen = "EditEvent"
                \/ x = "pricing" /\ g.limited
                \/ x = "price" /\ v["pricing"] # "paid"
  BY <1>1 DEF ExtraIs
<1>5. /\ "status" \in DOMAIN extra => extra["status"] = status
      /\ "pricing" \in DOMAIN extra => extra["pricing"] = "free"
      /\ "price" \in DOMAIN extra => extra["price"] = "none"
  BY DEF ExtraIs
<1>6. PICK most : most = IF g.screen = "EditEvent"
                         THEN Fields("event") \ {"pricing", "price", "status"}
                         ELSE Fields("event") \ {"price"}
  OBVIOUS
<1>7. /\ s \in Patches
      /\ SendsInputs(g, v, s, taken, most)
      /\ g.screen = "EditEvent" =>
            /\ "status" \in DOMAIN s /\ s["status"] = status
            /\ "pricing" \in DOMAIN s
            /\ g.limited => /\ s["pricing"] = "free" /\ "price" \notin DOMAIN s
                            /\ "price" \notin E!Inputs(g)
            /\ ~ g.limited => SendsInputs(g, v, s, taken, {"pricing"})
      /\ ~ g.limited => /\ "price" \in DOMAIN s
                        /\ v["pricing"] # "paid" => s["price"] = "none"
                        /\ v["pricing"] = "paid" => SendsInputs(g, v, s, taken, {"price"})
  <2>1. CASE g.screen = "EditEvent"
    <3>1. s = E!EditEvent(v, g.limited, status)
      BY <2>1
    <3> QED BY <1>1, <1>2, <1>6, <2>1, <3>1, EventSends
  <2>2. CASE g.screen = "EditPricing"
    <3>1. s = E!PricingSent(v)
      BY <2>2
    <3> QED BY <1>1, <1>2, <1>6, <2>2, <3>1, PricingSends
  <2> QED BY <1>1, <2>1, <2>2
<1>8. g.limited => g.screen = "EditEvent"
  BY DEF InUse
<1>9. ASSUME Current(g, s, d), NEW x \in Fields("event")
      PROVE  Decided(g, s, taken, extra, d, x)
  <2>1. /\ DOMAIN g.loaded = Fields("event") /\ {"pricing", "price"} \subseteq Fields("event")
        /\ most \subseteq Fields("event")
    BY <1>6, FieldsAre DEF InUse, E!EventFields
  <2>2. ASSUME NEW fields, fields \subseteq Fields("event"), x \in fields, x \notin DOMAIN extra,
               SendsInputs(g, v, s, taken, fields)
        PROVE  Decided(g, s, taken, extra, d, x)
    <3>1. fields \subseteq DOMAIN d /\ fields \subseteq DOMAIN g.loaded
      BY <2>1, <2>2
    <3> QED BY <1>9, <2>2, <3>1, SentDecides
  <2>3. CASE x \in most
    <3>1. CASE x \notin DOMAIN extra
      BY <1>7, <2>1, <2>2, <2>3, <3>1
    <3>2. CASE x \in DOMAIN extra
      BY <1>4, <1>6, <1>8, <2>3, <3>2
    <3> QED BY <3>1, <3>2
  <2>4. CASE x = "status" /\ g.screen = "EditEvent"
    BY <1>3, <1>4, <1>5, <1>7, <2>4 DEF Decided
  <2>5. CASE x = "pricing" /\ g.screen = "EditEvent"
    <3>1. CASE g.limited
      BY <1>3, <1>4, <1>5, <1>7, <2>5, <3>1 DEF Decided
    <3>2. CASE ~ g.limited
      <4>1. x \notin DOMAIN extra
        BY <1>4, <2>5, <3>2
      <4>2. SendsInputs(g, v, s, taken, {"pricing"}) /\ {"pricing"} \subseteq Fields("event")
        BY <1>7, <2>1, <2>5, <3>2
      <4>3. x \in {"pricing"}
        BY <2>5
      <4> QED BY <2>2, <4>1, <4>2, <4>3
    <3> QED BY <3>1, <3>2
  <2>6. CASE x = "price"
    <3>1. CASE g.limited
      <4>1. "price" \notin DOMAIN s /\ "price" \notin E!Kept(g)
        BY <1>7, <1>8, <3>1, KeptIs
      <4>2. d["price"] = "none"
        <5>1. E!Over(s, d)["price"] = d["price"]
          <6>1. "price" \in DOMAIN d \ DOMAIN s
            BY <2>6, <4>1
          <6> QED BY <1>7, <6>1, OverIs
        <5> QED BY <3>1, <5>1 DEF E!updateEventRefused
      <4> QED BY <1>4, <1>5, <2>6, <4>1, <4>2 DEF Decided
    <3>2. CASE ~ g.limited /\ v["pricing"] # "paid"
      BY <1>3, <1>4, <1>5, <1>7, <2>6, <3>2 DEF Decided
    <3>3. CASE ~ g.limited /\ v["pricing"] = "paid"
      <4>1. x \notin DOMAIN extra
        BY <1>4, <2>6, <3>3
      <4>2. SendsInputs(g, v, s, taken, {"price"}) /\ {"price"} \subseteq Fields("event")
        BY <1>7, <2>1, <3>3
      <4>3. x \in {"price"}
        BY <2>6
      <4> QED BY <2>2, <4>1, <4>2, <4>3
    <3> QED BY <3>1, <3>2, <3>3
  <2> QED BY <1>1, <1>6, <1>9, <2>3, <2>4, <2>5, <2>6
<1> QED BY <1>2, <1>7, <1>9

LEMMA UserDecides ==
  ASSUME NEW g \in FormType, InUse("user", g), g.screen = "EditProfile",
         NEW v, v = E!Over(g.edits, g.loaded), ValuesOf(g, v),
         NEW s, s = E!EditProfile(v, g.pc = "open" \/ "details" \in DOMAIN g.edits),
         NEW d \in Patches, DOMAIN d = Fields("user"), NEW extra, DOMAIN extra = {}
  PROVE  /\ s \in Patches
         /\ Current(g, s, d) =>
               \A x \in Fields("user") : Decided(g, s, Applied("user", "EditProfile"), extra, d, x)
<1>1. PICK taken : taken = Applied("user", "EditProfile")
  OBVIOUS
<1>2. /\ s \in Patches /\ "interests" \in DOMAIN s
      /\ SendsInputs(g, v, s, taken, Fields("user") \ {"photo"})
      /\ "photo" \in DOMAIN s => s["photo"] = v["photo"]
      /\ "photo" \in DOMAIN s /\ "photo" \notin DOMAIN g.edits =>
            ~ (v["photo"] = "none" /\ "photo" \in Unseen(g))
  BY <1>1, ProfileSends
<1>3. ASSUME Current(g, s, d), NEW x \in Fields("user")
      PROVE  Decided(g, s, taken, extra, d, x)
  <2>1. CASE x # "photo"
    <3>1. PICK fields : fields = Fields("user") \ {"photo"}
      OBVIOUS
    <3>2. fields \subseteq DOMAIN d /\ fields \subseteq DOMAIN g.loaded /\ x \in fields
      BY <1>3, <2>1, <3>1 DEF InUse
    <3>3. SendsInputs(g, v, s, taken, fields) /\ x \notin DOMAIN extra
      BY <1>2, <3>1
    <3> QED BY <1>3, <3>2, <3>3, SentDecides
  <2>2. CASE x = "photo"
    <3>1. x \notin E!Kept(g)
      <4>1. x \notin E!Inputs(g)
        BY <2>2, InputsOf DEF E!ProfileInputs
      <4> QED BY <4>1, KeptIs
    <3>2. ASSUME x \in DOMAIN s  PROVE s[x] = d[x]
      <4>1. "interests" \notin DOMAIN g.edits
        BY DEF InUse, Entered, E!ProfileInputs
      <4>2. Shows(g, d)
        BY <1>2, <1>3, <4>1 DEF Current
      <4>3. CASE x \in DOMAIN g.edits
        BY <1>2, <2>2, <3>2, <4>2, <4>3 DEF Shows, ValuesOf
      <4>4. CASE x \notin DOMAIN g.edits
        <5>1. x \in DOMAIN d /\ x \in DOMAIN g.loaded
          BY <1>3 DEF InUse
        <5>2. v[x] = d[x] \/ (v[x] = "none" /\ x \in Unseen(g))
          BY <1>3, <3>2, <4>4, <5>1, HeldIs
        <5> QED BY <1>2, <2>2, <3>2, <4>4, <5>2
      <4> QED BY <4>3, <4>4
    <3> QED BY <3>1, <3>2 DEF Decided
  <2> QED BY <2>1, <2>2
<1> QED BY <1>1, <1>2, <1>3

\* A save that is served and was made in turn changes what was entered and
\* nothing else.
SavesRight(g, v, s, d, extra) ==
    /\ s \in Patches
    /\ Current(g, s, d) =>
          \A x \in DOMAIN d : Decided(g, s, Applied(about, g.screen), extra, d, x)
    /\ g.screen = "AdminWizard" =>
          /\ DOMAIN s \subseteq E!Inputs(g) /\ \A x \in DOMAIN s : s[x] = v[x]
          /\ \A x \in E!Inputs(g) : x \notin DOMAIN s => x = "logo" /\ v[x] = "none"
    /\ g.screen \in E!Onboarding => /\ DOMAIN s = E!Copied(g.screen)
                                    /\ \A x \in DOMAIN s : s[x] = v[x]

LEMMA SaveDecides ==
  ASSUME EditsInv, NEW p \in Browsers, NEW g, g = page[p], g \in FormType, InUse(about, g),
         g.pc # "closed",
         NEW v, v = E!Over(g.edits, g.loaded), ValuesOf(g, v), NEW status \in {"draft", "published"},
         NEW s, s = E!Sent(p, status),
         ~ (about = "event" /\ E!updateEventRefused(doc, s, g.limited)),
         NEW extra, ExtraIs(g, v, status, extra)
  PROVE  SavesRight(g, v, s, doc, extra)
<1>1. about \in Kinds /\ doc \in Patches /\ DOMAIN doc = Fields(about)
  BY EditsAre
<1>2. g.pc = "open" \/ (g.pc = "loading" /\ g.screen = "EditProfile")
  BY DEF FormType, InUse
<1>3. g.screen \in E!ScreensOf(about)
  BY DEF InUse
<1>4. CASE about = "event"
  <2>1. g.screen \in {"EditEvent", "EditPricing"}
    BY <1>3, <1>4 DEF E!ScreensOf
  <2>2. /\ g.screen = "EditEvent" => s = E!EditEvent(v, g.limited, status)
        /\ g.screen = "EditPricing" => s = E!PricingSent(v)
    BY SentOf
  <2>3. InUse("event", g) /\ DOMAIN doc = Fields("event")
        /\ ~ E!updateEventRefused(doc, s, g.limited)
    BY <1>1, <1>4
  <2>4. /\ s \in Patches
        /\ Current(g, s, doc) =>
             \A x \in Fields("event") : Decided(g, s, Applied("event", g.screen), extra, doc, x)
    BY <1>1, <2>2, <2>3, EventDecides
  <2> QED BY <1>1, <1>4, <2>1, <2>4 DEF SavesRight, E!Onboarding
<1>5. ASSUME about # "event"  PROVE DOMAIN extra = {}
  <2>1. g.screen \notin {"EditEvent", "EditPricing"} /\ ~ g.limited
    BY <1>1, <1>3, <1>5 DEF E!ScreensOf, InUse, Kinds
  <2> QED BY <2>1 DEF ExtraIs
<1>6. ASSUME about # "event", s \in Patches,
             SendsInputs(g, v, s, Applied(about, g.screen), Fields(about))
      PROVE  Current(g, s, doc) =>
                \A x \in DOMAIN doc : Decided(g, s, Applied(about, g.screen), extra, doc, x)
  <2>1. PICK fields, taken : fields = Fields(about) /\ taken = Applied(about, g.screen)
    OBVIOUS
  <2>2. /\ fields = DOMAIN doc /\ fields = DOMAIN g.loaded /\ DOMAIN extra = {}
        /\ SendsInputs(g, v, s, taken, fields)
    BY <1>1, <1>5, <1>6, <2>1 DEF InUse
  <2>3. ASSUME Current(g, s, doc), NEW x \in fields
        PROVE  Decided(g, s, taken, extra, doc, x)
    BY <2>2, <2>3, SentDecides
  <2> QED BY <2>1, <2>2, <2>3
<1>7. CASE about = "community"
  <2>1. InUse("community", g) /\ g.screen \in {"CommunitySettings", "Branding", "AdminWizard"}
    BY <1>3, <1>7 DEF E!ScreensOf
  <2>2. g.pc = "open"
    BY <1>2, <2>1
  <2>3. /\ g.screen = "CommunitySettings" => s = E!CommunitySettings(v, DOMAIN g.edits)
        /\ g.screen = "Branding" => s = E!Branding(v)
        /\ g.screen = "AdminWizard" => s = E!WizardStep(v, g.step)
    BY SentOf
  <2>4. /\ s \in Patches
        /\ SendsInputs(g, v, s, Applied("community", g.screen), Fields("community"))
        /\ DOMAIN s \subseteq E!Inputs(g) /\ \A x \in DOMAIN s : s[x] = v[x]
        /\ g.screen = "AdminWizard" =>
              \A x \in E!Inputs(g) : x \notin DOMAIN s => x = "logo" /\ v[x] = "none"
    BY <2>1, <2>2, <2>3, CommunitySends
  <2>5. Current(g, s, doc) =>
           \A x \in DOMAIN doc : Decided(g, s, Applied(about, g.screen), extra, doc, x)
    BY <1>6, <1>7, <2>4
  <2> QED BY <2>1, <2>4, <2>5 DEF SavesRight, E!Onboarding
<1>8. CASE about = "user" /\ g.screen = "EditProfile"
  <2>1. s = E!EditProfile(v, g.pc = "open" \/ "details" \in DOMAIN g.edits)
    BY <1>8, SentOf
  <2>2. InUse("user", g) /\ DOMAIN doc = Fields("user") /\ DOMAIN extra = {}
    BY <1>1, <1>5, <1>8
  <2>3. /\ s \in Patches
        /\ Current(g, s, doc) =>
             \A x \in Fields("user") : Decided(g, s, Applied("user", "EditProfile"), extra, doc, x)
    BY <1>1, <1>8, <2>1, <2>2, UserDecides
  <2> QED BY <1>8, <2>2, <2>3 DEF SavesRight, E!Onboarding
<1>9. CASE about \in {"user", "platform"} /\ g.screen # "EditProfile"
  <2>1. /\ g.screen = "ProfileSetup" => s = E!Only({"name"}, v)
        /\ g.screen = "InterestsSelector" => s = E!Only({"interests"}, v)
        /\ g.screen = "NotificationPrefs" => s = E!Only(E!NotificationInputs, v)
        /\ g.screen \in {"PrivacySettings", "PlatformSettings"} => s = g.edits
    BY SentOf
  <2>2. g.pc = "open"
    BY <1>2, <1>9
  <2>3. /\ s \in Patches
        /\ SendsInputs(g, v, s, Applied(about, g.screen), Fields(about))
        /\ \A x \in DOMAIN s : s[x] = v[x]
        /\ g.screen = "ProfileSetup" => DOMAIN s = {"name"}
        /\ g.screen = "InterestsSelector" => DOMAIN s = {"interests"}
    BY <1>9, <2>1, <2>2, OtherSends
  <2>4. Current(g, s, doc) =>
           \A x \in DOMAIN doc : Decided(g, s, Applied(about, g.screen), extra, doc, x)
    BY <1>6, <1>9, <2>3
  <2>5. g.screen # "AdminWizard"
    BY <1>3, <1>9 DEF E!ScreensOf
  <2>6. g.screen \in E!Onboarding => DOMAIN s = E!Copied(g.screen)
    BY <2>3 DEF E!Onboarding, E!Copied
  <2> QED BY <2>3, <2>4, <2>5, <2>6 DEF SavesRight
<1>10. about \in {"event", "community", "user", "platform"}
  BY <1>1 DEF Kinds
<1>11. about = "platform" => g.screen # "EditProfile"
  BY <1>3 DEF E!ScreensOf
<1> QED BY <1>4, <1>7, <1>8, <1>9, <1>10, <1>11

\* What a step of the wizard has saved it shows from then on.
SeenAs(h, v, sent, l) ==
    /\ h \in Patches /\ DOMAIN h = sent \cup DOMAIN l
    /\ \A x \in sent : h[x] = v[x]
    /\ \A x \in DOMAIN l \ sent : h[x] = l[x]

LEMMA SeenIs ==
  ASSUME NEW g \in FormType, NEW v, ValuesOf(g, v), NEW sent, sent \subseteq DOMAIN v
  PROVE  SeenAs(E!Over(E!Only(sent, v), g.loaded), v, sent, g.loaded)
<1>1. PICK seen, l : seen = E!Only(sent, v) /\ l = g.loaded
  OBVIOUS
<1>2. seen \in Patches /\ DOMAIN seen = sent /\ \A x \in sent : seen[x] = v[x]
  BY <1>1, OnlyIs DEF ValuesOf
<1>3. l \in Patches
  BY <1>1 DEF FormType
<1>4. /\ E!Over(seen, l) \in Patches /\ DOMAIN E!Over(seen, l) = DOMAIN seen \cup DOMAIN l
      /\ \A x \in DOMAIN seen : E!Over(seen, l)[x] = seen[x]
      /\ \A x \in DOMAIN l \ DOMAIN seen : E!Over(seen, l)[x] = l[x]
  BY <1>2, <1>3, OverIs
<1>5. SeenAs(E!Over(seen, l), v, sent, l)
  BY <1>2, <1>4 DEF SeenAs
<1> QED BY <1>1, <1>5

\* The screen after a save that was served
LEMMA AfterIs ==
  ASSUME EditsInv, NEW p \in Browsers, NEW g, g = page[p], g \in FormType, InUse(about, g),
         FormFits(about, g, doc, version), g.pc # "closed",
         NEW v, v = E!Over(g.edits, g.loaded), ValuesOf(g, v), NEW s,
         NEW at, doc' \in [Fields(about) -> Words], Follows(doc, version, doc', at),
         \A x \in Fields(about) : x \notin DOMAIN s => doc'[x] = doc[x],
         g.screen = "AdminWizard" =>
            /\ DOMAIN s \subseteq E!Inputs(g) /\ \A x \in DOMAIN s : s[x] = v[x]
            /\ \A x \in DOMAIN s : doc'[x] = s[x]
            /\ \A x \in E!Inputs(g) : x \notin DOMAIN s => x = "logo" /\ v[x] = "none"
  PROVE  E!After(p, at) \in FormType /\ FormFits(about, E!After(p, at), doc', at)
<1>1. /\ about \in Kinds /\ doc \in Patches /\ DOMAIN doc = Fields(about)
      /\ Fields(about) \subseteq Everything
      /\ version \in Nat /\ version <= MaxSaves /\ MaxSaves \in Nat /\ E!Outdated = MaxSaves + 1
  BY EditsAre, EditBounds DEF E!Outdated
<1>2. /\ at \in Nat /\ version <= at /\ at <= MaxSaves /\ (at = version => doc' = doc)
      /\ at = version \/ at = version + 1
  BY <1>1 DEF Follows
<1>3. /\ g.since \in 0..(MaxSaves + 1) /\ g.since \in 0..version \cup {E!Outdated}
      /\ g.edits \in Patches /\ g.loaded \in Patches /\ g.step \in 1..4
      /\ g.since = version => Shows(g, doc)
      /\ DOMAIN g.edits \subseteq Fields(about) \cup E!Tiers
  BY DEF FormFits, FormType
<1>4. g.since \in 0..at \cup {E!Outdated}
  BY <1>1, <1>2, <1>3
<1>5. PICK none : none = E!Nothing
  OBVIOUS
<1>6. none \in Patches /\ DOMAIN none = {}
  BY <1>5, NothingIs
<1>7. DOMAIN doc' = Fields(about) /\ doc' \in Patches
  BY <1>1 DEF Patches
<1>8. CASE g.screen = "CommunitySettings"
  <2>1. PICK h : h = [g EXCEPT !.edits = none]
    OBVIOUS
  <2>2. /\ h \in FormType /\ h.screen = g.screen /\ h.pc = g.pc /\ h.loaded = g.loaded
        /\ h.edits = none /\ h.since = g.since /\ h.limited = g.limited
    BY <1>6, <2>1 DEF FormType
  <2>3. E!After(p, at) = h
    BY <1>5, <1>8, <2>1 DEF E!After
  <2>4. InUse(about, h)
    BY <1>6, <2>2 DEF InUse
  <2>5. ASSUME h.since = at  PROVE Shows(h, doc')
    <3>1. at = version /\ g.since = version
      BY <1>1, <1>2, <1>3, <2>2, <2>5
    <3> QED BY <1>2, <1>3, <1>8, <2>2, <3>1 DEF Shows, Unseen
  <2>6. FormFits(about, h, doc', at)
    BY <1>4, <1>6, <2>2, <2>4, <2>5 DEF FormFits
  <2> QED BY <2>2, <2>3, <2>6
<1>9. CASE g.screen \in {"PrivacySettings", "NotificationPrefs", "PlatformSettings"}
  <2>1. PICK since \in 0..(MaxSaves + 1) : since = at
    BY <1>1, <1>2
  <2>2. PICK d : d = doc'
    OBVIOUS
  <2>3. PICK h : h = [g EXCEPT !.edits = none, !.loaded = d, !.since = since]
    OBVIOUS
  <2>4. /\ h \in FormType /\ h.screen = g.screen /\ h.pc = g.pc /\ h.loaded = d
        /\ h.edits = none /\ h.since = at /\ h.limited = g.limited
    BY <1>6, <1>7, <2>1, <2>2, <2>3 DEF FormType
  <2>5. E!After(p, at) = h
    BY <1>5, <1>9, <2>1, <2>2, <2>3 DEF E!After
  <2>6. InUse(about, h)
    BY <1>6, <1>7, <2>2, <2>4 DEF InUse
  <2>7. Shows(h, d)
    BY <1>6, <2>4 DEF Shows
  <2>8. at \in 0..at
    BY <1>2
  <2>9. FormFits(about, h, d, at)
    BY <1>6, <2>4, <2>6, <2>7, <2>8 DEF FormFits
  <2> QED BY <2>2, <2>4, <2>5, <2>9
<1>10. CASE g.screen = "AdminWizard" /\ g.step # 4
  <2>1. PICK sent : sent = E!Inputs(g)
    OBVIOUS
  <2>2. PICK since : since = IF g.since = version THEN at ELSE g.since
    OBVIOUS
  <2>3. /\ since \in 0..(MaxSaves + 1) /\ since \in 0..at \cup {E!Outdated}
        /\ since = at => g.since = version
    BY <1>1, <1>2, <1>3, <2>2
  <2>4. PICK step : step = g.step + 1 /\ step \in 1..4
    BY <1>3, <1>10
  <2>5. PICK loaded : loaded = E!Over(E!Only(sent, v), g.loaded)
    OBVIOUS
  <2>6. about = "community" /\ sent \subseteq Fields(about) /\ sent \subseteq DOMAIN v
    <3>1. about = "community"
      BY <1>1, <1>10 DEF InUse, E!ScreensOf, Kinds
    <3>2. E!Inputs(g) \subseteq Entered("AdminWizard")
      BY <1>10, InputsAre DEF ScreenNames
    <3> QED BY <2>1, <3>1, <3>2, FieldsAre DEF Entered, InUse, ValuesOf
  <2>7. SeenAs(loaded, v, sent, g.loaded)
    BY <2>5, <2>6, SeenIs
  <2>8. PICK l : l = g.loaded
    OBVIOUS
  <2>9. /\ loaded \in Patches /\ DOMAIN loaded = sent \cup DOMAIN l
        /\ \A x \in sent : loaded[x] = v[x]
        /\ \A x \in DOMAIN l \ sent : loaded[x] = l[x]
    BY <2>7, <2>8 DEF SeenAs
  <2>10. PICK later : later = DOMAIN g.edits \ sent
    OBVIOUS
  <2>11. PICK edits : edits = E!Only(later, g.edits)
    OBVIOUS
  <2>12. edits \in Patches /\ DOMAIN edits = later /\ \A x \in later : edits[x] = g.edits[x]
    <3>1. later \subseteq DOMAIN g.edits
      BY <2>10
    <3> QED BY <1>3, <2>11, <3>1, OnlyIs
  <2>13. PICK h : h = [g EXCEPT !.step = step, !.since = since, !.loaded = loaded, !.edits = edits]
    OBVIOUS
  <2>14. /\ h \in FormType /\ h.screen = g.screen /\ h.pc = g.pc /\ h.loaded = loaded
         /\ h.edits = edits /\ h.since = since /\ h.limited = g.limited
    BY <2>3, <2>4, <2>9, <2>12, <2>13 DEF FormType
  <2>15. E!After(p, at) = h
    <3>1. E!After(p, at) = [g EXCEPT !.step = g.step + 1,
                                     !.since = IF g.since = version THEN at ELSE g.since,
                                     !.loaded = E!Over(E!Only(E!Inputs(g), v), g.loaded),
                                     !.edits = E!Only(DOMAIN g.edits \ E!Inputs(g), g.edits)]
      BY <1>10 DEF E!After
    <3> QED BY <2>1, <2>2, <2>4, <2>5, <2>10, <2>11, <2>13, <3>1
  <2>16. InUse(about, h)
    <3>1. DOMAIN loaded = Fields(about) /\ DOMAIN edits \subseteq DOMAIN g.edits
      BY <2>6, <2>8, <2>9, <2>10, <2>12 DEF InUse
    <3>2. "name" \in DOMAIN edits => edits["name"] # "none"
      BY <2>10, <2>12 DEF InUse
    <3> QED BY <2>14, <3>1, <3>2 DEF InUse
  <2>17. ASSUME since = at  PROVE Shows(h, doc')
    <3>1. Shows(g, doc)
      BY <1>3, <2>3, <2>17
    <3>2. ASSUME NEW x \in Fields(about)
          PROVE  loaded[x] = doc'[x] \/ (loaded[x] = "none" /\ x = "logo")
      <4>1. CASE x \in sent /\ x \in DOMAIN s
        BY <1>10, <2>9, <4>1
      <4>2. CASE x \in sent /\ x \notin DOMAIN s
        BY <1>10, <2>1, <2>9, <4>2
      <4>3. CASE x \notin sent
        <5>1. x \notin DOMAIN s /\ doc'[x] = doc[x] /\ loaded[x] = g.loaded[x]
          <6>1. x \in DOMAIN l
            BY <2>8, <3>2 DEF InUse
          <6> QED BY <1>10, <2>1, <2>8, <2>9, <3>2, <4>3, <6>1
        <5>2. g.pc # "loading" /\ g.screen # "EditProfile"
          BY <1>10 DEF InUse
        <5> QED BY <1>1, <3>1, <3>2, <5>1, <5>2 DEF Shows, Unseen
      <4> QED BY <4>1, <4>2, <4>3
    <3>3. "logo" \in Fields(about) => "logo" \in Unseen(h)
      BY <1>1, <1>10, <2>14 DEF Unseen
    <3> QED BY <1>7, <1>10, <2>14, <3>2, <3>3 DEF Shows
  <2>18. FormFits(about, h, doc', at)
    <3>1. DOMAIN edits \subseteq Fields(about) \cup E!Tiers
      BY <1>3, <2>10, <2>12
    <3> QED BY <2>3, <2>14, <2>16, <2>17, <3>1 DEF FormFits
  <2> QED BY <2>14, <2>15, <2>18
<1>11. CASE g.screen \notin {"CommunitySettings", "AdminWizard", "PrivacySettings",
                             "NotificationPrefs", "PlatformSettings"}
            \/ (g.screen = "AdminWizard" /\ g.step = 4)
  <2>1. E!After(p, at) = E!Closed
    BY <1>11 DEF E!After
  <2> QED BY <1>1, <1>2, <2>1, ClosedFits
<1> QED BY <1>8, <1>9, <1>10, <1>11

\* The copy of the user that an onboarding screen leaves
CopySaved(copy, screen, v, n, at) ==
    [f \in DOMAIN copy |->
        IF f \in E!Copied(screen) THEN [is |-> v[f], at |-> at]
        ELSE [is |-> copy[f].is, at |-> IF copy[f].at = n THEN at ELSE copy[f].at]]

LEMMA CopySavedIs ==
  ASSUME NEW copy \in StoreType, NEW screen, NEW v, NEW d, NEW n \in 0..MaxSaves, NEW next, NEW at,
         CopyFits(copy, d, n), Follows(d, n, next, at),
         \A f \in Copies : f \in E!Copied(screen) => v[f] \in Words /\ next[f] = v[f],
         \A f \in Copies : f \notin E!Copied(screen) => next[f] = d[f]
  PROVE  /\ CopySaved(copy, screen, v, n, at) \in StoreType
         /\ CopyFits(CopySaved(copy, screen, v, n, at), next, at)
<1>1. /\ n \in Nat /\ at \in Nat /\ n <= at /\ at \in 0..MaxSaves /\ MaxSaves \in Nat
  BY EditBounds DEF Follows
<1>2. PICK s : s = CopySaved(copy, screen, v, n, at)
  OBVIOUS
<1>3. DOMAIN copy = Copies
  BY DEF StoreType
<1>4. ASSUME NEW f \in Copies
      PROVE  /\ s[f] \in [is : Words, at : 0..MaxSaves]
             /\ s[f].at <= at /\ (s[f].at = at => s[f].is = next[f])
  <2>1. PICK old : old = copy[f]
    OBVIOUS
  <2>2. /\ old \in [is : Words, at : 0..MaxSaves]
        /\ old.at <= n /\ (old.at = n => old.is = d[f])
    BY <1>4, <2>1 DEF StoreType, CopyFits
  <2>3. CASE f \in E!Copied(screen)
    <3>1. s[f] = [is |-> v[f], at |-> at]
      BY <1>2, <1>3, <1>4, <2>3 DEF CopySaved
    <3>2. v[f] \in Words /\ next[f] = v[f]
      BY <1>4, <2>3
    <3> QED BY <1>1, <3>1, <3>2
  <2>4. CASE f \notin E!Copied(screen)
    <3>1. PICK m \in 0..MaxSaves : m = IF old.at = n THEN at ELSE old.at
      BY <1>1, <2>2
    <3>2. s[f] = [is |-> old.is, at |-> m]
      BY <1>2, <1>3, <1>4, <2>1, <2>4, <3>1 DEF CopySaved
    <3>3. next[f] = d[f]
      BY <1>4, <2>4
    <3>4. s[f] \in [is : Words, at : 0..MaxSaves] /\ s[f].at = m /\ s[f].is = old.is
      BY <2>2, <3>1, <3>2
    <3>5. m <= at /\ (m = at => old.at = n)
      BY <1>1, <2>2, <3>1
    <3> QED BY <2>2, <3>3, <3>4, <3>5
  <2> QED BY <2>3, <2>4
<1>5. s = [f \in Copies |-> s[f]]
  BY <1>2, <1>3 DEF CopySaved
<1>6. s \in StoreType
  <2>1. PICK W : W = [is : Words, at : 0..MaxSaves]
    OBVIOUS
  <2>2. s \in [Copies -> W]
    BY <1>4, <1>5, <2>1
  <2> QED BY <2>1, <2>2 DEF StoreType
<1>7. CopyFits(s, next, at)
  BY <1>4 DEF CopyFits
<1> QED BY <1>2, <1>6, <1>7

\* What a save changes
LEMMA SaveIs ==
  ASSUME EditsInv, NEW p \in Browsers, NEW status \in {"draft", "published"}, E!Save(p, status),
         NEW g, g = page[p], NEW v, v = E!Over(g.edits, g.loaded), NEW s, s = E!Sent(p, status)
  PROVE  /\ g.pc # "closed" /\ version' <= MaxSaves /\ about' = about /\ entries' = entries
         /\ version' = IF doc' = doc THEN version ELSE version + 1
         /\ inTurn' \in BOOLEAN
         /\ inTurn' => inTurn /\ (g.since = version \/ DOMAIN s \subseteq DOMAIN g.edits)
         /\ store' = IF g.screen \in E!Onboarding
                     THEN [store EXCEPT ![p] = CopySaved(store[p], g.screen, v, version, version')]
                     ELSE store
         /\ (about = "event" /\ E!updateEventRefused(doc, s, g.limited)) =>
               doc' = doc /\ wanted' = wanted /\ page' = [page EXCEPT ![p] = g]
         /\ ~ (about = "event" /\ E!updateEventRefused(doc, s, g.limited)) =>
               /\ doc' = E!Patched(g.screen, s)
               /\ page' = [page EXCEPT ![p] = E!After(p, version')]
               /\ \E extra :
                     /\ ExtraIs(g, v, status, extra)
                     /\ wanted' = E!Over(extra, E!Over(E!Only(E!Kept(g), g.edits), wanted))
<1>1. /\ g.pc # "closed" /\ version' <= MaxSaves /\ about' = about /\ entries' = entries
      /\ version' = IF doc' = doc THEN version ELSE version + 1
  BY DEF E!Save
<1>2. inTurn' = (inTurn /\ (g.since = version \/ DOMAIN s \subseteq DOMAIN g.edits))
  BY DEF E!Save
<1>3. store' = IF g.screen \in E!Onboarding
               THEN [store EXCEPT ![p] = CopySaved(store[p], g.screen, v, version, version')]
               ELSE store
  BY DEF E!Save, CopySaved
<1>4. ASSUME about = "event", E!updateEventRefused(doc, s, g.limited)
      PROVE  doc' = doc /\ wanted' = wanted /\ page' = [page EXCEPT ![p] = g]
  BY <1>4 DEF E!Save
<1>5. ASSUME ~ (about = "event" /\ E!updateEventRefused(doc, s, g.limited))
      PROVE  /\ doc' = E!Patched(g.screen, s)
             /\ page' = [page EXCEPT ![p] = E!After(p, version')]
             /\ \E extra :
                   /\ ExtraIs(g, v, status, extra)
                   /\ wanted' = E!Over(extra, E!Over(E!Only(E!Kept(g), g.edits), wanted))
  <2>1. PICK chosen : chosen = IF g.screen = "EditEvent" THEN [status |-> status] ELSE E!Nothing
    OBVIOUS
  <2>2. PICK forced : forced = IF g.limited THEN [pricing |-> "free"] ELSE E!Nothing
    OBVIOUS
  <2>3. PICK implied :
           implied = IF g.screen \in {"EditEvent", "EditPricing"} /\ v["pricing"] # "paid"
                     THEN [price |-> "none"] ELSE E!Nothing
    OBVIOUS
  <2>4. PICK extra : extra = E!Over(chosen, E!Over(forced, implied))
    OBVIOUS
  <2>5. ExtraIs(g, v, status, extra)
    BY <2>1, <2>2, <2>3, <2>4, ExtraMade
  <2>6. wanted' = E!Over(extra, E!Over(E!Only(E!Kept(g), g.edits), wanted))
    BY <1>5, <2>1, <2>2, <2>3, <2>4 DEF E!Save
  <2>7. doc' = E!Patched(g.screen, s) /\ page' = [page EXCEPT ![p] = E!After(p, version')]
    BY <1>5 DEF E!Save
  <2> QED BY <2>5, <2>6, <2>7
<1>6. inTurn' \in BOOLEAN
  <2>1. inTurn \in BOOLEAN
    BY DEF EditsInv
  <2> QED BY <1>2, <2>1
<1> QED BY <1>1, <1>2, <1>3, <1>4, <1>5, <1>6

LEMMA EditsSave ==
  ASSUME EditsInv, NEW p \in Browsers, NEW status \in {"draft", "published"}, E!Save(p, status)
  PROVE  EditsInv'
<1>1. /\ about \in Kinds /\ doc \in Patches /\ DOMAIN doc = Fields(about)
      /\ doc \in [Fields(about) -> Words] /\ wanted \in [Fields(about) -> Words]
      /\ version \in 0..MaxSaves /\ version \in Nat /\ MaxSaves \in Nat
      /\ inTurn => doc = wanted
      /\ entries \in 0..MaxEntries
  BY EditsAre, EditBounds DEF EditsInv
<1>2. PICK g : g = page[p]
  OBVIOUS
<1>3. PICK v : v = E!Over(g.edits, g.loaded)
  OBVIOUS
<1>4. PICK s : s = E!Sent(p, status)
  OBVIOUS
<1>5. /\ g.pc # "closed" /\ version' <= MaxSaves /\ about' = about /\ entries' = entries
      /\ version' = IF doc' = doc THEN version ELSE version + 1
      /\ inTurn' \in BOOLEAN
      /\ inTurn' => inTurn /\ (g.since = version \/ DOMAIN s \subseteq DOMAIN g.edits)
      /\ store' = IF g.screen \in E!Onboarding
                  THEN [store EXCEPT ![p] = CopySaved(store[p], g.screen, v, version, version')]
                  ELSE store
      /\ (about = "event" /\ E!updateEventRefused(doc, s, g.limited)) =>
            doc' = doc /\ wanted' = wanted /\ page' = [page EXCEPT ![p] = g]
      /\ ~ (about = "event" /\ E!updateEventRefused(doc, s, g.limited)) =>
            /\ doc' = E!Patched(g.screen, s)
            /\ page' = [page EXCEPT ![p] = E!After(p, version')]
            /\ \E extra :
                  /\ ExtraIs(g, v, status, extra)
                  /\ wanted' = E!Over(extra, E!Over(E!Only(E!Kept(g), g.edits), wanted))
  BY <1>2, <1>3, <1>4, SaveIs
<1>6. /\ g \in FormType /\ FormFits(about, g, doc, version) /\ InUse(about, g)
  BY <1>2, <1>5, FormIs DEF FormFits
<1>7. ValuesOf(g, v)
  BY <1>3, <1>6, ValuesAre
<1>8. Follows(doc, version, doc', version')
  BY <1>1, <1>5 DEF Follows
<1>9. CASE about = "event" /\ E!updateEventRefused(doc, s, g.limited)
  <2>1. doc' = doc /\ wanted' = wanted /\ page' = [page EXCEPT ![p] = g] /\ version' = version
    BY <1>5, <1>9
  <2>2. inTurn' => doc' = wanted'
    BY <1>1, <1>5, <2>1
  <2>3. FormFits(about, g, doc', version')
    BY <1>6, <2>1
  <2>4. about # "user" /\ doc' \in [Fields(about) -> Words] /\ wanted' \in [Fields(about) -> Words]
    BY <1>1, <1>9, <2>1
  <2> QED BY <1>1, <1>5, <1>6, <1>8, <2>1, <2>2, <2>3, <2>4, EditsSaved
<1>10. CASE ~ (about = "event" /\ E!updateEventRefused(doc, s, g.limited))
  <2>1. doc' = E!Patched(g.screen, s) /\ page' = [page EXCEPT ![p] = E!After(p, version')]
    BY <1>5, <1>10
  <2>2. PICK extra :
           /\ ExtraIs(g, v, status, extra)
           /\ wanted' = E!Over(extra, E!Over(E!Only(E!Kept(g), g.edits), wanted))
    BY <1>5, <1>10
  <2>3. SavesRight(g, v, s, doc, extra)
    BY <1>2, <1>3, <1>4, <1>5, <1>6, <1>7, <1>10, <2>2, SaveDecides
  <2>4. PICK taken : taken = Applied(about, g.screen)
    OBVIOUS
  <2>5. s \in Patches /\ g.screen \in E!ScreensOf(about)
    BY <1>6, <2>3 DEF SavesRight, InUse
  <2>6. /\ doc' \in [DOMAIN doc -> Words]
        /\ \A x \in DOMAIN doc : doc'[x] = IF x \in taken \cap DOMAIN s THEN s[x] ELSE doc[x]
    <3>1. doc' = E!Take(taken, doc, s)
      BY <1>1, <2>1, <2>4, <2>5, PatchedIs
    <3> QED BY <1>1, <2>5, <3>1, NextIs
  <2>7. /\ wanted' \in [Fields(about) -> Words]
        /\ WantedAs(wanted', g, extra, wanted)
    BY <1>2, <1>6, <2>2, WantedIs
  <2>8. ASSUME inTurn'  PROVE doc' = wanted'
    <3>1. Current(g, s, doc) /\ doc = wanted
      BY <1>1, <1>5, <1>6, <2>8 DEF Current, FormFits
    <3>2. \A x \in DOMAIN doc : Decided(g, s, taken, extra, doc, x)
      BY <2>3, <2>4, <3>1 DEF SavesRight
    <3>3. \A x \in Fields(about) : doc'[x] = wanted'[x]
      BY <1>1, <2>6, <2>7, <3>1, <3>2 DEF Decided, WantedAs
    <3> QED BY <1>1, <2>6, <2>7, <3>3
  <2>9. \A x \in Fields(about) : x \notin DOMAIN s => doc'[x] = doc[x]
    BY <1>1, <2>6
  <2>10. g.screen = "AdminWizard" =>
            /\ DOMAIN s \subseteq E!Inputs(g) /\ \A x \in DOMAIN s : s[x] = v[x]
            /\ \A x \in DOMAIN s : doc'[x] = s[x]
            /\ \A x \in E!Inputs(g) : x \notin DOMAIN s => x = "logo" /\ v[x] = "none"
    <3>1. ASSUME g.screen = "AdminWizard", NEW x \in DOMAIN s  PROVE doc'[x] = s[x]
      <4>1. about = "community"
        BY <1>1, <2>5, <3>1 DEF E!ScreensOf, Kinds
      <4>2. taken = E!CommunityFields
        BY <2>4, <3>1, <4>1 DEF Applied
      <4>3. E!Inputs(g) \subseteq E!CommunityFields
        BY <1>6, <3>1, InputsAre DEF ScreenNames, Entered
      <4>4. x \in E!CommunityFields
        BY <2>3, <3>1, <4>3 DEF SavesRight
      <4> QED BY <1>1, <2>6, <3>1, <4>1, <4>2, <4>4, FieldsAre
    <3> QED BY <2>3, <3>1 DEF SavesRight
  <2>11. doc' \in [Fields(about) -> Words]
    BY <1>1, <2>6
  <2>12. E!After(p, version') \in FormType /\ FormFits(about, E!After(p, version'), doc', version')
    BY <1>2, <1>3, <1>5, <1>6, <1>7, <1>8, <2>9, <2>10, <2>11, AfterIs
  <2>13. ASSUME about = "user"  PROVE StoreFits(store', doc', version')
    <3>1. /\ store \in [Browsers -> StoreType] /\ \A b \in Browsers : CopyFits(store[b], doc, version)
      BY <2>13 DEF EditsInv
    <3>2. StoreFits(store, doc', version')
      BY <1>8, <2>13, StoreAfter
    <3>3. CASE g.screen \in E!Onboarding
      <4>1. PICK copy : copy = CopySaved(store[p], g.screen, v, version, version')
        OBVIOUS
      <4>2. \A f \in Copies : f \in E!Copied(g.screen) => v[f] \in Words /\ doc'[f] = v[f]
        <5>1. DOMAIN s = E!Copied(g.screen) /\ \A x \in DOMAIN s : s[x] = v[x]
          BY <2>3, <3>3 DEF SavesRight
        <5>2. \A f \in Copies : f \in taken /\ f \in DOMAIN doc
          <6>1. taken = {"name", "bio", "photo", "interests", "details", "relationship"}
            BY <2>4, <2>13, <3>3 DEF Applied, E!Onboarding
          <6> QED BY <1>1, <2>13, <6>1, FieldsAre DEF Copies, E!UserFields
        <5>3. \A x \in DOMAIN s : s[x] \in Words
          BY <2>5, PatchIs
        <5> QED BY <2>6, <5>1, <5>2, <5>3
      <4>3. \A f \in Copies : f \notin E!Copied(g.screen) => doc'[f] = doc[f]
        <5>1. DOMAIN s = E!Copied(g.screen)
          BY <2>3, <3>3 DEF SavesRight
        <5>2. Copies \subseteq Fields(about)
          BY <2>13, FieldsAre DEF Copies, E!UserFields
        <5> QED BY <2>9, <5>1, <5>2
      <4>4. store[p] \in StoreType /\ CopyFits(store[p], doc, version)
        BY <3>1
      <4>5. copy \in StoreType /\ CopyFits(copy, doc', version')
        BY <1>1, <1>8, <4>1, <4>2, <4>3, <4>4, CopySavedIs
      <4>6. store' = [store EXCEPT ![p] = copy]
        BY <1>5, <3>3, <4>1
      <4> QED BY <3>2, <4>5, <4>6 DEF StoreFits
    <3>4. CASE g.screen \notin E!Onboarding
      BY <1>5, <3>2, <3>4
    <3> QED BY <3>3, <3>4
  <2> QED BY <1>1, <1>5, <1>8, <2>1, <2>7, <2>8, <2>11, <2>12, <2>13, EditsSaved
<1> QED BY <1>9, <1>10

-----------------------------------------------------------------------------
(* Edits: its theorem                                                      *)

LEMMA DocumentsAre ==
  ASSUME NEW kind \in Kinds, NEW d \in E!Documents[kind]
  PROVE  d \in [Fields(kind) -> Words]
<1>1. {"old", "none", "hybrid", "paid", "online", "external", "cancelled", "published"} \subseteq Words
  BY DEF Words, E!Values, E!Places, E!Pricings, E!Statuses
<1>2. CASE kind = "event"
  <2>1. PICK e, F : e = E!SomeEvent /\ F = Fields("event")
    OBVIOUS
  <2>2. e \in [F -> Words]
    <3>1. PICK f, g : f = [x \in E!EventFields |-> "old"] /\ g = [status |-> "published"]
      OBVIOUS
    <3>2. /\ DOMAIN f = E!EventFields /\ DOMAIN g = {"status"} /\ g["status"] = "published"
          /\ \A x \in E!EventFields : f[x] = "old"
      BY <3>1
    <3>3. e = [x \in DOMAIN f \cup DOMAIN g |-> IF x \in DOMAIN f THEN f[x] ELSE g[x]]
      BY <2>1, <3>1 DEF E!SomeEvent, E!Over
    <3>4. DOMAIN f \cup DOMAIN g = F
      BY <2>1, <3>2, FieldsAre
    <3>5. e = [x \in F |-> e[x]] /\ \A x \in F : e[x] = IF x \in DOMAIN f THEN f[x] ELSE g[x]
      BY <3>3, <3>4
    <3>6. \A x \in F : e[x] \in Words
      BY <1>1, <3>2, <3>4, <3>5
    <3> QED BY <3>5, <3>6
  <2>3. d \in {[e EXCEPT !.place = "hybrid", !.pricing = "paid", !.cover = "none",
                         !.link = "none"],
               [e EXCEPT !.place = "online", !.address = "none", !.pricing = "external",
                         !.price = "none", !.status = "cancelled"]}
    BY <1>2, <2>1 DEF E!Documents
  <2>4. [e EXCEPT !.place = "hybrid", !.pricing = "paid", !.cover = "none", !.link = "none"]
           \in [F -> Words]
    BY <1>1, <2>2
  <2>5. [e EXCEPT !.place = "online", !.address = "none", !.pricing = "external",
                  !.price = "none", !.status = "cancelled"] \in [F -> Words]
    BY <1>1, <2>2
  <2> QED BY <1>2, <2>1, <2>3, <2>4, <2>5
<1>3. CASE kind = "community"
  <2>1. d \in {[f \in E!CommunityFields |-> "old"],
               [E!Blank(E!CommunityFields) EXCEPT !.name = "old", !.category = "old",
                                                  !.privacy = "old"]}
    BY <1>3 DEF E!Documents
  <2>2. [f \in E!CommunityFields |-> "old"] \in [E!CommunityFields -> Words]
    BY <1>1
  <2>3. E!Blank(E!CommunityFields) \in [E!CommunityFields -> Words]
    BY <1>1 DEF E!Blank
  <2>4. [E!Blank(E!CommunityFields) EXCEPT !.name = "old", !.category = "old", !.privacy = "old"]
           \in [E!CommunityFields -> Words]
    BY <1>1, <2>3
  <2> QED BY <1>3, <2>1, <2>2, <2>4, FieldsAre
<1>4. CASE kind = "user"
  <2>1. d = [f \in E!UserFields |-> "old"]
    BY <1>4 DEF E!Documents
  <2> QED BY <1>1, <1>4, <2>1, FieldsAre
<1>5. CASE kind = "platform"
  <2>1. d = [f \in E!PlatformFields |-> "old"]
    BY <1>5 DEF E!Documents
  <2> QED BY <1>1, <1>5, <2>1, FieldsAre
<1> QED BY <1>2, <1>3, <1>4, <1>5 DEF Kinds

LEMMA EditsInit == E!Init => EditsInv
<1> SUFFICES ASSUME E!Init PROVE EditsInv
  OBVIOUS
<1>1. /\ about \in Kinds /\ doc \in E!Documents[about] /\ version = 0 /\ entries = 0
      /\ page = [p \in Browsers |-> E!Closed]
      /\ store = [p \in Browsers |-> IF about = "user" THEN E!StoreOf(doc, 0) ELSE E!Nothing]
      /\ wanted = doc /\ inTurn = TRUE
  BY DEF E!Init, Kinds
<1>2. doc \in [Fields(about) -> Words]
  BY <1>1, DocumentsAre
<1>3. version \in 0..MaxSaves /\ entries \in 0..MaxEntries /\ version \in Nat
  BY <1>1, EditBounds
<1>4. E!Closed \in FormType /\ FormFits(about, E!Closed, doc, version)
  BY <1>1, <1>3, ClosedFits
<1>5. page \in [Browsers -> FormType] /\ \A p \in Browsers : FormFits(about, page[p], doc, version)
  BY <1>1, <1>4
<1>6. ASSUME about = "user"
      PROVE  /\ store \in [Browsers -> StoreType]
             /\ \A p \in Browsers : CopyFits(store[p], doc, version)
  <2>1. doc \in Patches /\ DOMAIN doc = Fields("user")
    <3>1. Fields(about) \subseteq Everything
      BY <1>1, KnownWords
    <3> QED BY <1>2, <1>6, <3>1 DEF Patches
  <2>2. E!StoreOf(doc, version) \in StoreType /\ CopyFits(E!StoreOf(doc, version), doc, version)
    BY <1>3, <2>1, StoreOfIs
  <2> QED BY <1>1, <1>6, <2>2
<1> QED BY <1>1, <1>2, <1>3, <1>5, <1>6 DEF EditsInv

LEMMA EditsNext == EditsInv /\ E!Next => EditsInv'
<1> SUFFICES ASSUME EditsInv, E!Next PROVE EditsInv'
  OBVIOUS
<1>1. PICK p \in Browsers :
         \/ \E s \in E!ScreensOf(about), limited \in BOOLEAN : E!Open(p, s, limited)
         \/ E!Answer(p) \/ E!Leave(p) \/ E!BackStep(p)
         \/ \E f \in DOMAIN doc \cup E!Tiers : \E value \in E!Choices(f) : E!Enter(p, f, value)
         \/ \E status \in {"draft", "published"} : E!Save(p, status)
         \/ E!UploadPhoto(p) \/ E!UploadCover(p) \/ E!Reload(p)
  BY DEF E!Next
<1>2. CASE \E s \in E!ScreensOf(about), limited \in BOOLEAN : E!Open(p, s, limited)
  BY <1>2, EditsOpen
<1>3. CASE E!Answer(p)
  BY <1>3, EditsAnswer
<1>4. CASE E!Leave(p)
  BY <1>4, EditsLeave
<1>5. CASE E!BackStep(p)
  BY <1>5, EditsBack
<1>6. CASE \E f \in DOMAIN doc \cup E!Tiers : \E value \in E!Choices(f) : E!Enter(p, f, value)
  BY <1>6, EditsEnter
<1>7. CASE \E status \in {"draft", "published"} : E!Save(p, status)
  BY <1>7, EditsSave
<1>8. CASE E!UploadPhoto(p)
  BY <1>8, EditsUploadPhoto
<1>9. CASE E!UploadCover(p)
  BY <1>9, EditsUploadCover
<1>10. CASE E!Reload(p)
  BY <1>10, EditsReload
<1> QED BY <1>1, <1>2, <1>3, <1>4, <1>5, <1>6, <1>7, <1>8, <1>9, <1>10

LEMMA EditsStutter == EditsInv /\ UNCHANGED editVars => EditsInv'
<1> SUFFICES ASSUME EditsInv, UNCHANGED editVars PROVE EditsInv'
  OBVIOUS
<1>1. /\ about' = about /\ doc' = doc /\ version' = version /\ page' = page /\ store' = store
      /\ entries' = entries /\ wanted' = wanted /\ inTurn' = inTurn
  BY DEF editVars
<1> QED BY <1>1 DEF EditsInv

LEMMA EditsImply == EditsInv => E!TypeOK /\ E!EditsKept
<1> SUFFICES ASSUME EditsInv PROVE E!TypeOK /\ E!EditsKept
  OBVIOUS
<1>1. /\ about \in Kinds /\ DOMAIN doc = Fields(about) /\ DOMAIN wanted = Fields(about)
      /\ doc \in [Fields(about) -> Words]
  BY EditsAre
<1>2. doc \in [DOMAIN doc -> E!Values \cup E!Pricings \cup E!Places \cup E!Statuses]
  BY <1>1 DEF Words
<1>3. ASSUME NEW p \in Browsers
      PROVE  /\ page[p].pc \in {"closed", "loading", "open"}
             /\ DOMAIN page[p].edits \subseteq DOMAIN doc \cup E!Tiers
             /\ page[p].since \in 0..version \cup {E!Outdated}
  <2>1. page[p] \in FormType /\ FormFits(about, page[p], doc, version)
    BY FormIs
  <2>2. page[p].pc \in {"closed", "loading", "open"}
    BY <2>1 DEF FormType
  <2> QED BY <1>1, <2>1, <2>2 DEF FormFits
<1>4. E!TypeOK
  BY <1>1, <1>2, <1>3 DEF E!TypeOK, EditsInv
<1>5. E!EditsKept
  BY DEF EditsInv, E!EditsKept
<1> QED BY <1>4, <1>5

\* Whatever the screens, their order and the fields they show together, a save
\* changes what was entered and nothing else: as long as no screen that also
\* sends what it had loaded was loaded before somebody else's save, the document
\* is what was entered last in each of its fields.
THEOREM EditsRight == E!Init /\ [][E!Next]_editVars => [](E!TypeOK /\ E!EditsKept)
<1>1. E!Init => EditsInv
  BY EditsInit
<1>2. EditsInv /\ [E!Next]_editVars => EditsInv'
  BY EditsNext, EditsStutter
<1>3. EditsInv => E!TypeOK /\ E!EditsKept
  BY EditsImply
<1> QED BY <1>1, <1>2, <1>3, PTL
-----------------------------------------------------------------------------
(* The parts together                                                      *)

ScreensInv ==
    /\ part = "cache" => CacheInv
    /\ part = "access" => AccessInv
    /\ part = "edits" => EditsInv
    /\ part = "accounts" => AccountsInv
    /\ part = "plans" => PlansInv

\* What a user has saved he sees, what he is let into serves him, what his forms
\* save is what he entered, and the way in and paid membership work, in every
\* behaviour of the parts together.
THEOREM ScreensInTurn ==
    AllSpec => [](TypesOK /\ OwnWritesSeen /\ PagesWork /\ EditsKept /\ AccountsAndPlansWork)
<1>1. AllInit => ScreensInv
  <2> SUFFICES ASSUME AllInit PROVE ScreensInv
    OBVIOUS
  <2>1. /\ P!Init
        /\ part = "cache" => C!Init
        /\ part = "access" => A!Init
        /\ part = "edits" => E!Init
        /\ part = "accounts" => M!Init
    BY DEF AllInit
  <2> QED BY <2>1, PlansInit, CacheInit, AccessInit, EditsInit, AccountsInit DEF ScreensInv
<1>2. ScreensInv /\ [AllNext]_allVars => ScreensInv'
  <2> SUFFICES ASSUME ScreensInv, [AllNext]_allVars PROVE ScreensInv'
    OBVIOUS
  <2>1. part' = part
    BY DEF AllNext, allVars
  <2>2. part = "cache" => CacheInv'
    BY CacheNext, CacheStutter DEF ScreensInv, AllNext, allVars
  <2>3. part = "access" => AccessInv'
    BY AccessNext, AccessStutter DEF ScreensInv, AllNext, allVars
  <2>4. part = "accounts" => AccountsInv'
    BY AccountsNext, AccountsStutter DEF ScreensInv, AllNext, allVars
  <2>5. part = "plans" => PlansInv'
    BY PlansNext, PlansStutter DEF ScreensInv, AllNext, allVars
  <2>6. part = "edits" => EditsInv'
    BY EditsNext, EditsStutter DEF ScreensInv, AllNext, allVars
  <2> QED BY <2>1, <2>2, <2>3, <2>4, <2>5, <2>6 DEF ScreensInv
<1>3. ScreensInv => TypesOK /\ OwnWritesSeen /\ PagesWork /\ EditsKept /\ AccountsAndPlansWork
  BY CacheImplies, AccessImplies, EditsImply, AccountsImply, PlansImply
     DEF ScreensInv, TypesOK, OwnWritesSeen, PagesWork, EditsKept, AccountsAndPlansWork
<1> QED BY <1>1, <1>2, <1>3, PTL DEF AllSpec

=============================================================================
