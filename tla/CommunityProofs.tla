---------------------------- MODULE CommunityProofs ----------------------------
(***************************************************************************)
(* Theorems about Memberships, Initiatives and Recurring: for any sets of  *)
(* users, invitations and rules, any horizon and number of days, and any   *)
(* number of overlapping requests and runs of the job.                     *)
(***************************************************************************)
EXTENDS Memberships, Initiatives, Recurring, FiniteSetTheorems, TLAPS


-----------------------------------------------------------------------------
(* MEMBERSHIPS                                                             *)

DataTypes ==
    /\ community \in Community
    /\ community.privacy # "invite_only" => community.open
    /\ rows \in [Users -> Row]
    /\ invs \in [Invitations -> Invitation]
    /\ \A i \in Invitations : invs[i].status # "none" => invs[i].to \in Users
    /\ applied \in SUBSET Users
    /\ admitted \in [Invitations -> Nat]
    /\ pool \in SUBSET Workers
    /\ sent \in 0..MaxRequests

\* What a request has loaded before it goes on.
WorkerOK(q) ==
    /\ q.pc \in {"createRow", "apply", "invite", "admit", "findRow", "saveApproval", "reject",
                 "findTarget", "checkActor", "saveRole", "delete"} => q.user \in Users
    /\ q.pc \in {"admit", "spend"} => q.inv \in Invitations

WorkInv == work \in [Workers -> Worker] /\ \A w \in Workers : WorkerOK(work[w])

\* Where members come and go without an invitation, or are counted twice.
Opening == {"createRow", "saveCount", "apply", "findRow", "saveApproval", "countUp", "reject"}

\* None of it happens before the community has been open.
Closed ==
    ~ community.open => applied = {} /\ \A w \in Workers : work[w].pc \notin Opening

\* The invitation that is being accepted has been made.
Held == \A w \in Workers :
           work[w].pc \in {"admit", "spend"} => invs[work[w].inv].status # "none"

MemberInv == DataTypes /\ WorkInv /\ Closed /\ InviteOnlyCountExact

RowUsers == {u \in Users : IsRow(u)}
Counting == {w \in Workers : At(w, "countDown")}

-----------------------------------------------------------------------------
(* Rows and workers                                                        *)

LEMMA NoRowOK == NoRow \in Row /\ NoRow.status = "none" /\ 0 \in Nat
  BY DEF NoRow, Row, Roles

LEMMA MemberIdleOK == Idle \in Worker /\ WorkerOK(Idle) /\ Idle.pc = "idle"
  BY DEF Idle, Worker, WorkerOK, Pc, Roles

LEMMA MemberWorkerType ==
  ASSUME WorkInv, NEW w \in Workers
  PROVE  /\ work[w] \in Worker /\ WorkerOK(work[w])
         /\ work[w].role \in Roles /\ work[w].count \in Nat
  BY DEF WorkInv, Worker

\* A request goes on with what it has loaded.
LEMMA GoesOn ==
  ASSUME WorkInv, NEW w \in Workers, NEW pc \in Pc
  PROVE  /\ [work[w] EXCEPT !.pc = pc] \in Worker
         /\ [work[w] EXCEPT !.pc = pc].pc = pc
         /\ [work[w] EXCEPT !.pc = pc].user = work[w].user
         /\ [work[w] EXCEPT !.pc = pc].inv = work[w].inv
  BY DEF WorkInv, Worker

LEMMA OneMoves ==
  ASSUME WorkInv, NEW w \in Workers, NEW q \in Worker, WorkerOK(q), Go(w, q)
  PROVE  /\ WorkInv'
         /\ work'[w] = q
         /\ \A v \in Workers : v # w => work'[v] = work[v]
  BY DEF WorkInv, Go

LEMMA CountIs ==
  /\ InviteOnlyCountExact <=>
       (~ community.open => community.count = Cardinality(RowUsers) + Cardinality(Counting))
  /\ InviteOnlyCountExact' <=>
       (~ community'.open => community'.count = Cardinality(RowUsers') + Cardinality(Counting'))
  BY DEF InviteOnlyCountExact, RowUsers, Counting

LEMMA Finite == IsFiniteSet(RowUsers) /\ IsFiniteSet(Counting)
  BY UsersFinite, WorkersFinite, FS_Subset DEF RowUsers, Counting

-----------------------------------------------------------------------------
(* Steps by what they do to the count                                      *)

\* Neither the members nor the count change.
LEMMA QuietOK ==
  ASSUME MemberInv, NEW w \in Workers, NEW q \in Worker, WorkerOK(q), Go(w, q), DataTypes',
         ~ At(w, "countDown"), q.pc # "countDown",
         community'.count = community.count,
         community.open => community'.open,
         \A u \in Users : rows'[u].status # "none" <=> rows[u].status # "none",
         ~ community'.open => q.pc \notin Opening /\ applied' = {}
  PROVE  MemberInv'
<1>1. /\ WorkInv' /\ work'[w] = q
      /\ \A v \in Workers : v # w => work'[v] = work[v]
  BY OneMoves DEF MemberInv
<1>2. Closed'
  BY <1>1 DEF MemberInv, Closed
<1>3. RowUsers' = RowUsers /\ Counting' = Counting
  BY <1>1 DEF RowUsers, IsRow, Counting, At
<1>4. InviteOnlyCountExact'
  BY <1>3, CountIs DEF MemberInv
<1> QED BY <1>1, <1>2, <1>4 DEF MemberInv

\* The community is, or has been, open.
LEMMA OpenOK ==
  ASSUME DataTypes', WorkInv', community'.open
  PROVE  MemberInv'
  BY DEF MemberInv, Closed, InviteOnlyCountExact

LEMMA OpeningIsOpen ==
  ASSUME MemberInv, NEW w \in Workers, work[w].pc \in Opening
  PROVE  community.open
  BY DEF MemberInv, Closed

LEMMA MemberBeginOK ==
  ASSUME MemberInv, NEW w \in Workers, NEW q \in Worker, WorkerOK(q), Begin(w, q),
         q.pc # "countDown", q.pc \in Opening => community.open
  PROVE  MemberInv'
<1>1. /\ Go(w, q) /\ ~ At(w, "countDown") /\ applied' = applied
      /\ UNCHANGED <<community, rows, invs, admitted, pool>>
      /\ sent' \in 0..MaxRequests
  BY RequestsAssumption DEF Begin, At, MemberInv, DataTypes
<1>2. DataTypes'
  BY <1>1 DEF MemberInv, DataTypes
<1> QED BY <1>1, <1>2, QuietOK DEF MemberInv, Closed

\* What a request that begins has checked.
Asks(w, q) ==
    /\ Begin(w, q) /\ q \in Worker /\ WorkerOK(q)
    /\ q.pc \notin {"countDown", "spend"}
    /\ q.pc \in Opening => community.open
    /\ q.pc = "admit" => invs[q.inv].status = "open"

LEMMA RequestOf ==
  ASSUME MemberInv, NEW w \in Workers, Receive(w)
  PROVE  \E q : Asks(w, q)
<1>1. CASE \E u \in Users : BeginJoin(w, u) \/ BeginApply(w, u)
  <2>1. PICK u \in Users : BeginJoin(w, u) \/ BeginApply(w, u)
    BY <1>1
  <2>2. community.open /\ community.count \in Nat
    BY <2>1 DEF BeginJoin, BeginApply, MemberInv, DataTypes, Community
  <2>3. CASE BeginJoin(w, u)
    <3> DEFINE q == [Idle EXCEPT !.pc = "createRow", !.user = u, !.count = community.count]
    <3>1. q \in Worker /\ WorkerOK(q) /\ q.pc = "createRow"
      BY <2>2 DEF Idle, Worker, WorkerOK, Pc, Roles
    <3>2. Begin(w, q)
      BY <2>3 DEF BeginJoin
    <3> HIDE DEF q
    <3> QED BY <2>2, <3>1, <3>2 DEF Asks, Opening
  <2>4. CASE BeginApply(w, u)
    <3> DEFINE q == [Idle EXCEPT !.pc = "apply", !.user = u]
    <3>1. q \in Worker /\ WorkerOK(q) /\ q.pc = "apply"
      BY DEF Idle, Worker, WorkerOK, Pc, Roles
    <3>2. Begin(w, q)
      BY <2>4 DEF BeginApply
    <3> HIDE DEF q
    <3> QED BY <2>2, <3>1, <3>2 DEF Asks, Opening
  <2> QED BY <2>1, <2>3, <2>4
<1>2. CASE \E i \in Invitations : BeginAccept(w, i)
  <2>1. PICK i \in Invitations : BeginAccept(w, i)
    BY <1>2
  <2> DEFINE q == [Idle EXCEPT !.pc = "admit", !.user = invs[i].to, !.inv = i]
  <2>2. invs[i].to \in Users /\ Begin(w, q)
    BY <2>1 DEF BeginAccept, MemberInv, DataTypes
  <2>3. q \in Worker /\ WorkerOK(q) /\ q.pc = "admit" /\ invs[q.inv].status = "open"
    BY <2>1, <2>2 DEF Idle, Worker, WorkerOK, Pc, Roles, BeginAccept
  <2> HIDE DEF q
  <2> QED BY <2>2, <2>3 DEF Asks, Opening
<1>3. ASSUME NEW a \in Users, NEW u \in Users, BeginReview(w, a, u)
      PROVE  \E q : Asks(w, q)
  <2>1. PICK pc \in {"findRow", "reject"} : Begin(w, [Idle EXCEPT !.pc = pc, !.user = u])
    BY <1>3 DEF BeginReview
  <2> DEFINE q == [Idle EXCEPT !.pc = pc, !.user = u]
  <2>2. community.open
    BY <1>3 DEF BeginReview, MemberInv, Closed
  <2>3. q \in Worker /\ WorkerOK(q) /\ q.pc \in {"findRow", "reject"}
    BY DEF Idle, Worker, WorkerOK, Pc, Roles
  <2>4. Begin(w, q)
    BY <2>1
  <2> HIDE DEF q
  <2> QED BY <2>2, <2>3, <2>4 DEF Asks, Opening
<1>4. ASSUME NEW a \in Users, NEW u \in Users, BeginRemove(w, a, u)
      PROVE  \E q : Asks(w, q)
  <2> DEFINE q == [Idle EXCEPT !.pc = "delete", !.user = u]
  <2>1. q \in Worker /\ WorkerOK(q) /\ q.pc = "delete"
    BY DEF Idle, Worker, WorkerOK, Pc, Roles
  <2>2. Begin(w, q)
    BY <1>4 DEF BeginRemove
  <2> HIDE DEF q
  <2> QED BY <2>1, <2>2 DEF Asks, Opening
<1>5. ASSUME NEW a \in Users, NEW u \in Users, NEW r \in Roles, BeginInvite(w, a, u, r)
      PROVE  \E q : Asks(w, q)
  <2> DEFINE q == [Idle EXCEPT !.pc = "invite", !.user = u, !.role = r]
  <2>1. q \in Worker /\ WorkerOK(q) /\ q.pc = "invite"
    BY DEF Idle, Worker, WorkerOK, Pc, Roles
  <2>2. Begin(w, q)
    BY <1>5 DEF BeginInvite
  <2> HIDE DEF q
  <2> QED BY <2>1, <2>2 DEF Asks, Opening
<1>6. ASSUME NEW a \in Users, NEW u \in Users, NEW r \in Roles, BeginChangeRole(w, a, u, r)
      PROVE  \E q : Asks(w, q)
  <2> DEFINE q == [Idle EXCEPT !.pc = "findTarget", !.actor = a, !.user = u, !.role = r]
  <2>1. q \in Worker /\ WorkerOK(q) /\ q.pc = "findTarget"
    BY DEF Idle, Worker, WorkerOK, Pc, Roles
  <2>2. Begin(w, q)
    BY <1>6 DEF BeginChangeRole
  <2> HIDE DEF q
  <2> QED BY <2>1, <2>2 DEF Asks, Opening
<1>7. ASSUME NEW a \in Users, BeginUpdate(w, a)
      PROVE  \E q : Asks(w, q)
  <2> DEFINE q == [Idle EXCEPT !.pc = "savePrivacy"]
  <2>1. q \in Worker /\ WorkerOK(q) /\ q.pc = "savePrivacy"
    BY DEF Idle, Worker, WorkerOK, Pc, Roles
  <2>2. Begin(w, q)
    BY <1>7 DEF BeginUpdate
  <2> HIDE DEF q
  <2> QED BY <2>1, <2>2 DEF Asks, Opening
<1> QED BY <1>1, <1>2, <1>3, <1>4, <1>5, <1>6, <1>7 DEF Receive

LEMMA MemberReceiveOK ==
  ASSUME MemberInv, NEW w \in Workers, Receive(w)
  PROVE  MemberInv'
  BY RequestOf, MemberBeginOK DEF Asks

-----------------------------------------------------------------------------
(* Joining, applying and the review of applications                        *)

\* A request that has ended or goes on.
LEMMA MovesOK ==
  ASSUME MemberInv, NEW w \in Workers, NEW pc \in Pc, ~ At(w, "idle"), ~ At(w, "saveCount"),
         ~ At(w, "countUp"), ~ At(w, "countDown"), ~ At(w, "savePrivacy"),
         Done(w) \/ GoTo(w, pc), ~ At(w, "spend"), pc \in {"admit", "spend"} => At(w, "admit")
  PROVE  WorkInv'
<1>1. CASE Done(w)
  BY <1>1, MemberIdleOK, OneMoves DEF Done, MemberInv
<1>2. CASE GoTo(w, pc)
  <2> DEFINE q == [work[w] EXCEPT !.pc = pc]
  <2>1. q \in Worker /\ q.pc = pc /\ q.user = work[w].user /\ q.inv = work[w].inv
    BY GoesOn DEF MemberInv
  <2>2. work[w].pc \in Pc /\ WorkerOK(work[w])
    BY MemberWorkerType DEF MemberInv, Worker
  <2> HIDE DEF q
  <2>3. WorkerOK(q)
    BY <2>1, <2>2 DEF WorkerOK, Pc, At
  <2>4. Go(w, q)
    BY <1>2 DEF GoTo, q
  <2> QED BY <2>1, <2>3, <2>4, OneMoves DEF MemberInv
<1> QED BY <1>1, <1>2

LEMMA EndsOK ==
  ASSUME MemberInv, NEW w \in Workers, Done(w)
  PROVE  WorkInv'
  BY MemberIdleOK, OneMoves DEF Done, MemberInv

LEMMA DeleteOK ==
  ASSUME WorkInv, NEW w \in Workers, NEW u \in Users, NEW q \in Worker, WorkerOK(q),
         Delete(w, u, q)
  PROVE  /\ WorkInv'
         /\ work'[w] = q
         /\ \A v \in Workers : v # w =>
               \/ work'[v] = work[v]
               \/ work'[v] = Idle /\ ~ At(v, "countDown")
  BY MemberIdleOK DEF WorkInv, Delete, Loses, At

LEMMA OpeningTypes ==
  ASSUME MemberInv, NEW w \in Workers,
         CreateRow(w) \/ SaveCount(w) \/ Apply(w) \/ FindRow(w) \/ SaveApproval(w)
         \/ CountUp(w) \/ Reject(w)
  PROVE  /\ work[w].pc \in Opening
         /\ DataTypes'
         /\ community'.open = community.open
<1>1. work[w].pc \in Opening
  BY DEF CreateRow, SaveCount, Apply, FindRow, SaveApproval, CountUp, Reject, At, Opening
<1>2. work[w].user \in Users \/ SaveCount(w) \/ CountUp(w)
  BY MemberWorkerType DEF MemberInv, WorkerOK, CreateRow, Apply, FindRow, SaveApproval, Reject, At
<1>3. /\ community' \in Community
      /\ community'.open = community.open /\ community'.privacy = community.privacy
  <2>1. work[w].count + 1 \in Nat
    BY MemberWorkerType DEF MemberInv
  <2> QED BY <2>1 DEF MemberInv, DataTypes, Community, CreateRow, SaveCount, Apply, FindRow,
                      SaveApproval, CountUp, Reject
<1>4. rows' \in [Users -> Row]
  <2>1. CASE CreateRow(w)
    BY <2>1 DEF MemberInv, DataTypes, CreateRow, Row, Roles
  <2>2. CASE Apply(w)
    BY <2>2 DEF MemberInv, DataTypes, Apply, Row, Roles
  <2>3. CASE SaveApproval(w)
    BY <2>3 DEF MemberInv, DataTypes, SaveApproval, Row
  <2>4. CASE Reject(w)
    BY <2>4, NoRowOK DEF MemberInv, DataTypes, Reject, Delete
  <2>5. CASE SaveCount(w) \/ FindRow(w) \/ CountUp(w)
    BY <2>5 DEF MemberInv, DataTypes, SaveCount, FindRow, CountUp
  <2> QED BY <2>1, <2>2, <2>3, <2>4, <2>5
<1>5. /\ applied' \in SUBSET Users
      /\ UNCHANGED <<invs, admitted, pool, sent>>
  BY <1>2 DEF MemberInv, DataTypes, CreateRow, SaveCount, Apply, FindRow, SaveApproval, CountUp, Reject
<1> QED BY <1>1, <1>3, <1>4, <1>5 DEF MemberInv, DataTypes

LEMMA OpeningWork ==
  ASSUME MemberInv, NEW w \in Workers,
         CreateRow(w) \/ SaveCount(w) \/ Apply(w) \/ FindRow(w) \/ SaveApproval(w)
         \/ CountUp(w) \/ Reject(w)
  PROVE  WorkInv'
<1>1. CASE CreateRow(w)
  BY <1>1, MovesOK DEF CreateRow, At, Pc
<1>2. CASE SaveCount(w) \/ Apply(w) \/ CountUp(w)
  BY <1>2, EndsOK DEF SaveCount, Apply, CountUp
<1>3. CASE FindRow(w)
  BY <1>3, MovesOK DEF FindRow, At, Pc
<1>4. CASE SaveApproval(w)
  BY <1>4, MovesOK DEF SaveApproval, At, Pc
<1>5. CASE Reject(w)
  <2>1. work[w].user \in Users
    BY <1>5, MemberWorkerType DEF MemberInv, WorkerOK, Reject, At
  <2> QED BY <1>5, <2>1, DeleteOK, EndsOK, MemberIdleOK DEF Reject, MemberInv
<1> QED BY <1>1, <1>2, <1>3, <1>4, <1>5

LEMMA OpeningOK ==
  ASSUME MemberInv, NEW w \in Workers,
         CreateRow(w) \/ SaveCount(w) \/ Apply(w) \/ FindRow(w) \/ SaveApproval(w)
         \/ CountUp(w) \/ Reject(w)
  PROVE  MemberInv'
  BY OpeningTypes, OpeningWork, OpeningIsOpen, OpenOK

-----------------------------------------------------------------------------
(* Invitations                                                             *)

LEMMA InviteOK ==
  ASSUME MemberInv, NEW w \in Workers, Invite(w)
  PROVE  MemberInv'
<1>1. work[w].user \in Users /\ work[w].role \in Roles /\ work[w].pc = "invite"
  BY MemberWorkerType DEF MemberInv, WorkerOK, Invite, At
<1>2. /\ invs' \in [Invitations -> Invitation]
      /\ \A i \in Invitations : invs'[i].status # "none" => invs'[i].to \in Users
  BY <1>1 DEF Invite, MemberInv, DataTypes, Invitation
<1>3. DataTypes' /\ Go(w, Idle) /\ UNCHANGED <<community, rows, applied>>
  BY <1>2 DEF Invite, Done, MemberInv, DataTypes
<1> QED BY <1>1, <1>3, MemberIdleOK, QuietOK DEF At, MemberInv, Closed, Opening

LEMMA SpendOK ==
  ASSUME MemberInv, Held, NEW w \in Workers, Spend(w)
  PROVE  MemberInv'
<1> DEFINE i == work[w].inv
<1>1. work[w].pc = "spend" /\ Go(w, Idle) /\ UNCHANGED <<community, rows, applied>>
  BY DEF Spend, At, Done
<1>2. i \in Invitations /\ invs[i].status # "none"
  BY <1>1, MemberWorkerType DEF MemberInv, WorkerOK, Held
<1>3. invs' = [invs EXCEPT ![i].status = "accepted"]
  BY DEF Spend
<1> HIDE DEF i
<1>4. [invs[i] EXCEPT !.status = "accepted"] \in Invitation
  BY <1>2 DEF MemberInv, DataTypes, Invitation
<1>5. /\ invs' \in [Invitations -> Invitation]
      /\ \A j \in Invitations : invs'[j].status # "none" => invs'[j].to \in Users
  BY <1>2, <1>3, <1>4 DEF MemberInv, DataTypes
<1>6. DataTypes'
  BY <1>5 DEF Spend, MemberInv, DataTypes
<1> QED BY <1>1, <1>6, MemberIdleOK, QuietOK DEF At, MemberInv, Closed, Opening

\* With a Membership there is, only its role and its standing change; without
\* one, the row and the count come in one transaction.
LEMMA AdmitOK ==
  ASSUME MemberInv, NEW w \in Workers, Admit(w)
  PROVE  MemberInv'
<1> DEFINE u == work[w].user
           i == work[w].inv
           q == [work[w] EXCEPT !.pc = "spend"]
<1>1. /\ work[w].pc = "admit" /\ u \in Users /\ i \in Invitations
      /\ UNCHANGED <<invs, applied, pool, sent>>
      /\ rows' = [rows EXCEPT ![u] = [status |-> "active", role |-> invs[i].role]]
  BY MemberWorkerType DEF MemberInv, WorkerOK, Admit, At
<1>2. q \in Worker /\ WorkerOK(q) /\ q.pc = "spend" /\ Go(w, q)
  <2>1. Go(w, q)
    BY DEF Admit, GoTo
  <2>2. q \in Worker /\ q.pc = "spend" /\ q.inv = i
    BY GoesOn DEF MemberInv, Pc
  <2> HIDE DEF q
  <2> QED BY <1>1, <2>1, <2>2 DEF WorkerOK
<1> HIDE DEF u, i, q
<1>3. /\ rows' \in [Users -> Row]
      /\ \A v \in Users : IsRow(v)' <=> IsRow(v) \/ v = u
  BY <1>1 DEF MemberInv, DataTypes, Invitation, Row, IsRow
<1>4. CASE IsRow(u)
  <2>1. UNCHANGED <<community, admitted>>
    BY <1>4 DEF Admit, u
  <2>2. DataTypes'
    BY <1>1, <1>3, <2>1 DEF MemberInv, DataTypes
  <2> QED BY <1>1, <1>2, <1>3, <1>4, <2>1, <2>2, QuietOK DEF At, IsRow, MemberInv, Closed, Opening
<1>5. CASE ~ IsRow(u)
  <2>1. /\ community' = [community EXCEPT !.count = @ + 1]
        /\ admitted' = [admitted EXCEPT ![i] = @ + 1]
    BY <1>5 DEF Admit, u, i
  <2>2. DataTypes'
    BY <1>1, <1>3, <2>1 DEF MemberInv, DataTypes, Community
  <2>3. /\ WorkInv' /\ work'[w] = q
        /\ \A v \in Workers : v # w => work'[v] = work[v]
    BY <1>2, OneMoves DEF MemberInv
  <2>4. Closed'
    BY <1>1, <1>2, <2>1, <2>3 DEF MemberInv, DataTypes, Community, Closed, Opening
  <2>5. RowUsers' = RowUsers \cup {u} /\ u \notin RowUsers /\ Counting' = Counting
    BY <1>1, <1>2, <1>3, <1>5, <2>3 DEF RowUsers, Counting, At
  <2>6. Cardinality(RowUsers') = Cardinality(RowUsers) + 1
    BY <2>5, Finite, FS_AddElement
  <2>7. InviteOnlyCountExact'
    <3>1. Cardinality(RowUsers) \in Nat /\ Cardinality(Counting) \in Nat
      BY Finite, FS_CardinalityType
    <3>2. community'.open = community.open /\ community'.count = community.count + 1
      BY <2>1 DEF MemberInv, DataTypes, Community
    <3> QED BY <2>5, <2>6, <3>1, <3>2, CountIs DEF MemberInv
  <2> QED BY <2>2, <2>3, <2>4, <2>7 DEF MemberInv
<1> QED BY <1>4, <1>5

-----------------------------------------------------------------------------
(* Roles, removal and the community's settings                             *)

LEMMA FindTargetOK ==
  ASSUME MemberInv, NEW w \in Workers, FindTarget(w)
  PROVE  MemberInv'
<1> DEFINE q == [work[w] EXCEPT !.pc = "checkActor"]
<1>1. Go(w, Idle) \/ Go(w, q)
  BY DEF FindTarget, Done, GoTo
<1>2. work[w].pc = "findTarget" /\ WorkerOK(work[w])
  BY MemberWorkerType DEF FindTarget, At, MemberInv
<1>3. q \in Worker /\ WorkerOK(q) /\ q.pc = "checkActor"
  BY <1>2, GoesOn DEF MemberInv, WorkerOK, Pc
<1> HIDE DEF q
<1>4. DataTypes' /\ UNCHANGED <<community, rows, applied>>
  BY DEF FindTarget, MemberInv, DataTypes
<1> QED BY <1>1, <1>2, <1>3, <1>4, MemberIdleOK, QuietOK DEF At, MemberInv, Closed, Opening

LEMMA CheckActorOK ==
  ASSUME MemberInv, NEW w \in Workers, CheckActor(w)
  PROVE  MemberInv'
<1> DEFINE q == [work[w] EXCEPT !.pc = "saveRole"]
<1>1. Go(w, Idle) \/ Go(w, q)
  BY DEF CheckActor, Done, GoTo
<1>2. work[w].pc = "checkActor" /\ WorkerOK(work[w])
  BY MemberWorkerType DEF CheckActor, At, MemberInv
<1>3. q \in Worker /\ WorkerOK(q) /\ q.pc = "saveRole"
  BY <1>2, GoesOn DEF MemberInv, WorkerOK, Pc
<1> HIDE DEF q
<1>4. DataTypes' /\ UNCHANGED <<community, rows, applied>>
  BY DEF CheckActor, MemberInv, DataTypes
<1> QED BY <1>1, <1>2, <1>3, <1>4, MemberIdleOK, QuietOK DEF At, MemberInv, Closed, Opening

LEMMA SaveRoleOK ==
  ASSUME MemberInv, NEW w \in Workers, SaveRole(w)
  PROVE  MemberInv'
<1> DEFINE u == work[w].user
           r == work[w].role
<1>1. /\ work[w].pc = "saveRole" /\ u \in Users /\ r \in Roles
      /\ rows' = [rows EXCEPT ![u].role = r] /\ Go(w, Idle)
      /\ UNCHANGED <<community, invs, applied, admitted, pool, sent>>
  BY MemberWorkerType DEF SaveRole, At, Done, MemberInv, WorkerOK
<1> HIDE DEF u, r
<1>2. /\ rows' \in [Users -> Row]
      /\ \A v \in Users : rows'[v].status = rows[v].status
  BY <1>1 DEF MemberInv, DataTypes, Row
<1>3. DataTypes'
  BY <1>1, <1>2 DEF MemberInv, DataTypes
<1> QED BY <1>1, <1>2, <1>3, MemberIdleOK, QuietOK DEF At, MemberInv, Closed, Opening

\* The row goes, and one more removal has yet to count.
LEMMA DeleteRowOK ==
  ASSUME MemberInv, NEW w \in Workers, DeleteRow(w)
  PROVE  MemberInv'
<1> DEFINE u == work[w].user
           q == [work[w] EXCEPT !.pc = "countDown"]
<1>1. /\ work[w].pc = "delete" /\ u \in Users
      /\ UNCHANGED <<community, invs, applied, admitted, pool, sent>>
  BY MemberWorkerType DEF DeleteRow, At, MemberInv, WorkerOK
<1>2. CASE ~ IsRow(u)
  <2>1. Go(w, Idle) /\ UNCHANGED rows
    BY <1>2 DEF DeleteRow, Done
  <2>2. DataTypes'
    BY <1>1, <2>1 DEF MemberInv, DataTypes
  <2> QED BY <1>1, <2>1, <2>2, MemberIdleOK, QuietOK DEF At, MemberInv, Closed, Opening
<1>3. CASE IsRow(u)
  <2>1. Delete(w, u, q) /\ rows' = [rows EXCEPT ![u] = NoRow]
    BY <1>3 DEF DeleteRow, Delete
  <2>2. q \in Worker /\ WorkerOK(q) /\ q.pc = "countDown"
    BY GoesOn DEF MemberInv, WorkerOK, Pc
  <2> HIDE DEF u, q
  <2>3. /\ WorkInv' /\ work'[w] = q
        /\ \A v \in Workers : v # w =>
              \/ work'[v] = work[v]
              \/ work'[v] = Idle /\ ~ At(v, "countDown")
    BY <1>1, <2>1, <2>2, DeleteOK DEF MemberInv
  <2>4. DataTypes'
    BY <1>1, <2>1, NoRowOK DEF MemberInv, DataTypes
  <2>5. Closed'
    BY <1>1, <2>2, <2>3, MemberIdleOK DEF MemberInv, Closed, Opening
  <2>6. RowUsers' = RowUsers \ {u} /\ u \in RowUsers
    BY <1>1, <1>3, <2>1, NoRowOK DEF RowUsers, IsRow, MemberInv, DataTypes
  <2>7. Counting' = Counting \cup {w} /\ w \notin Counting
    BY <1>1, <2>2, <2>3, MemberIdleOK DEF Counting, At
  <2>8. /\ Cardinality(RowUsers') = Cardinality(RowUsers) - 1
        /\ Cardinality(Counting') = Cardinality(Counting) + 1
        /\ Cardinality(RowUsers) \in Nat /\ Cardinality(Counting) \in Nat
    BY <2>6, <2>7, Finite, FS_RemoveElement, FS_AddElement, FS_CardinalityType
  <2>9. InviteOnlyCountExact'
    BY <1>1, <2>8, CountIs DEF MemberInv
  <2> QED BY <2>3, <2>4, <2>5, <2>9 DEF MemberInv
<1> QED BY <1>2, <1>3

LEMMA CountDownOK ==
  ASSUME MemberInv, NEW w \in Workers, CountDown(w)
  PROVE  MemberInv'
<1>1. /\ work[w].pc = "countDown" /\ Go(w, Idle)
      /\ UNCHANGED <<rows, invs, applied, admitted, pool, sent>>
      /\ community' = [community EXCEPT !.count = IF @ > 0 THEN @ - 1 ELSE @]
  BY DEF CountDown, At, Done
<1>2. /\ community' \in Community /\ community'.open = community.open
      /\ community'.privacy = community.privacy
      /\ community'.count = IF community.count > 0 THEN community.count - 1 ELSE community.count
  BY <1>1 DEF MemberInv, DataTypes, Community
<1>3. DataTypes'
  BY <1>1, <1>2 DEF MemberInv, DataTypes
<1>4. /\ WorkInv' /\ work'[w] = Idle
      /\ \A v \in Workers : v # w => work'[v] = work[v]
  BY <1>1, MemberIdleOK, OneMoves DEF MemberInv
<1>5. Closed'
  BY <1>1, <1>2, <1>4, MemberIdleOK DEF MemberInv, Closed, Opening
<1>6. RowUsers' = RowUsers
  BY <1>1 DEF RowUsers, IsRow
<1>7. Counting' = Counting \ {w} /\ w \in Counting
  BY <1>1, <1>4, MemberIdleOK DEF Counting, At
<1>8. /\ Cardinality(Counting') = Cardinality(Counting) - 1
      /\ Cardinality(RowUsers) \in Nat /\ Cardinality(Counting') \in Nat
      /\ Cardinality(Counting) \in Nat
  <2>1. IsFiniteSet(Counting')
    BY <1>7, Finite, FS_RemoveElement
  <2> QED BY <1>7, <2>1, Finite, FS_RemoveElement, FS_CardinalityType
<1>9. InviteOnlyCountExact'
  BY <1>2, <1>6, <1>8, CountIs DEF MemberInv
<1> QED BY <1>3, <1>4, <1>5, <1>9 DEF MemberInv

LEMMA SavePrivacyOK ==
  ASSUME MemberInv, NEW w \in Workers, SavePrivacy(w)
  PROVE  MemberInv'
<1>1. PICK p \in Privacy :
        community' = [community EXCEPT !.privacy = p, !.open = @ \/ p # "invite_only"]
  BY DEF SavePrivacy
<1>2. /\ community' \in Community /\ community'.count = community.count
      /\ community.open => community'.open
      /\ community'.privacy # "invite_only" => community'.open
      /\ ~ community'.open => ~ community.open
  BY <1>1 DEF MemberInv, DataTypes, Community, Privacy
<1>3. /\ work[w].pc = "savePrivacy" /\ Go(w, Idle)
      /\ UNCHANGED <<rows, invs, applied, admitted, pool, sent>>
  BY DEF SavePrivacy, At, Done
<1>4. DataTypes'
  BY <1>2, <1>3 DEF MemberInv, DataTypes
<1> QED BY <1>2, <1>3, <1>4, MemberIdleOK, QuietOK DEF At, MemberInv, Closed, Opening

LEMMA ExpireOK ==
  ASSUME MemberInv, NEW i \in Invitations, Expire(i)
  PROVE  MemberInv'
<1>1. [invs[i] EXCEPT !.status = "expired"] \in Invitation
  BY DEF MemberInv, DataTypes, Invitation
<1>2. /\ invs' \in [Invitations -> Invitation]
      /\ \A j \in Invitations : invs'[j].status # "none" => invs'[j].to \in Users
  BY <1>1 DEF Expire, MemberInv, DataTypes
<1>3. DataTypes' /\ WorkInv' /\ Closed'
  BY <1>2 DEF Expire, MemberInv, DataTypes, WorkInv, Closed
<1>4. RowUsers' = RowUsers /\ Counting' = Counting
  BY DEF Expire, RowUsers, IsRow, Counting, At
<1> QED BY <1>3, <1>4, CountIs DEF Expire, MemberInv

-----------------------------------------------------------------------------
(* Requests and invitations                                                *)

\* The beginning of a request.
LEMMA Begun ==
  ASSUME MemberInv, NEW w \in Workers, Receive(w)
  PROVE  /\ At(w, "idle") /\ w \in pool /\ UNCHANGED <<invs, admitted, pool>>
         /\ \A v \in Workers : v # w => work'[v] = work[v]
         /\ work'[w].pc # "spend"
         /\ work'[w].pc = "admit" => invs[work'[w].inv].status = "open"
<1>1. PICK q : Asks(w, q)
  BY RequestOf
<1>2. /\ At(w, "idle") /\ w \in pool /\ UNCHANGED <<invs, admitted, pool>>
      /\ work' = [work EXCEPT ![w] = q]
  BY <1>1 DEF Asks, Begin, Go
<1>3. work'[w] = q /\ \A v \in Workers : v # w => work'[v] = work[v]
  BY <1>2 DEF MemberInv, WorkInv
<1> QED BY <1>1, <1>2, <1>3 DEF Asks

\* A step that does not touch the invitations.
LEMMA Elsewhere ==
  ASSUME WorkInv, NEW w \in Workers,
         \/ CreateRow(w) \/ SaveCount(w) \/ Apply(w) \/ FindRow(w) \/ SaveApproval(w)
         \/ CountUp(w) \/ Reject(w) \/ FindTarget(w) \/ CheckActor(w) \/ SaveRole(w)
         \/ DeleteRow(w) \/ CountDown(w) \/ SavePrivacy(w)
  PROVE  /\ UNCHANGED <<invs, admitted, pool>>
         /\ work[w].pc \notin {"idle", "admit", "spend"}
         /\ work'[w].pc \notin {"admit", "spend"}
         /\ \A v \in Workers : v # w => work'[v] = work[v] \/ work'[v] = Idle
<1>1. /\ UNCHANGED <<invs, admitted, pool>>
      /\ work[w].pc \notin {"idle", "admit", "spend"}
  BY DEF CreateRow, SaveCount, Apply, FindRow, SaveApproval, CountUp, Reject, FindTarget,
     CheckActor, SaveRole, DeleteRow, CountDown, SavePrivacy, At
<1>2. \E pc \in Pc \ {"admit", "spend"} :
        \/ Done(w) \/ GoTo(w, pc)
        \/ \E u : Delete(w, u, Idle) \/ Delete(w, u, [work[w] EXCEPT !.pc = pc])
  <2>1. CASE CreateRow(w)
    BY <2>1 DEF CreateRow, Pc
  <2>2. CASE FindRow(w)
    BY <2>2 DEF FindRow, Pc
  <2>3. CASE SaveApproval(w)
    BY <2>3 DEF SaveApproval, Pc
  <2>4. CASE FindTarget(w)
    BY <2>4 DEF FindTarget, Pc
  <2>5. CASE CheckActor(w)
    BY <2>5 DEF CheckActor, Pc
  <2>6. CASE Reject(w)
    BY <2>6 DEF Reject, Pc
  <2>7. CASE DeleteRow(w)
    BY <2>7 DEF DeleteRow, Pc
  <2>8. CASE SaveCount(w) \/ Apply(w) \/ CountUp(w) \/ SaveRole(w) \/ CountDown(w)
             \/ SavePrivacy(w)
    <3>1. Done(w)
      BY <2>8 DEF SaveCount, Apply, CountUp, SaveRole, CountDown, SavePrivacy
    <3>2. "idle" \in Pc \ {"admit", "spend"}
      BY DEF Pc
    <3> QED BY <3>1, <3>2
  <2> QED BY <2>1, <2>2, <2>3, <2>4, <2>5, <2>6, <2>7, <2>8
<1>5. PICK pc \in Pc \ {"admit", "spend"} :
        \/ Done(w) \/ GoTo(w, pc)
        \/ \E u : Delete(w, u, Idle) \/ Delete(w, u, [work[w] EXCEPT !.pc = pc])
  BY <1>2
<1>3. [work[w] EXCEPT !.pc = pc].pc = pc /\ Idle.pc = "idle"
  BY GoesOn, MemberIdleOK
<1>4. /\ work'[w].pc \notin {"admit", "spend"}
      /\ \A v \in Workers : v # w => work'[v] = work[v] \/ work'[v] = Idle
  <2> DEFINE q == [work[w] EXCEPT !.pc = pc]
  <2>1. Go(w, Idle) \/ Go(w, q) \/ \E u : Delete(w, u, Idle) \/ Delete(w, u, q)
    BY <1>5 DEF Done, GoTo
  <2>2. q.pc = pc
    BY <1>3
  <2> HIDE DEF q
  <2> QED BY <1>3, <1>5, <2>1, <2>2 DEF Go, Delete, WorkInv
<1> QED BY <1>1, <1>4

LEMMA HeldOK ==
  ASSUME MemberInv, Held, NEW w \in Workers, Receive(w) \/ Serve(w)
  PROVE  Held'
<1>1. CASE Receive(w)
  BY <1>1, Begun DEF Held, MemberInv
<1>2. CASE Invite(w)
  <2>1. /\ \A i \in Invitations : invs[i].status # "none" => invs'[i].status # "none"
        /\ work'[w] = Idle /\ \A v \in Workers : v # w => work'[v] = work[v]
    BY <1>2 DEF Invite, Done, Go, MemberInv, DataTypes, WorkInv, Invitation
  <2> QED BY <2>1, MemberIdleOK, MemberWorkerType DEF Held, MemberInv, WorkerOK
<1>3. CASE Spend(w)
  <2>1. /\ \A i \in Invitations : invs[i].status # "none" => invs'[i].status # "none"
        /\ work'[w] = Idle /\ \A v \in Workers : v # w => work'[v] = work[v]
    BY <1>3 DEF Spend, Done, Go, MemberInv, DataTypes, WorkInv, Invitation
  <2> QED BY <2>1, MemberIdleOK, MemberWorkerType DEF Held, MemberInv, WorkerOK
<1>4. CASE Admit(w)
  <2>1. /\ UNCHANGED invs /\ work[w].pc = "admit" /\ work'[w].inv = work[w].inv
        /\ \A v \in Workers : v # w => work'[v] = work[v]
    <3> DEFINE q == [work[w] EXCEPT !.pc = "spend"]
    <3>1. q.inv = work[w].inv
      BY GoesOn DEF MemberInv, Pc
    <3>2. Go(w, q) /\ UNCHANGED invs /\ work[w].pc = "admit"
      BY <1>4 DEF Admit, GoTo, At
    <3> HIDE DEF q
    <3> QED BY <3>1, <3>2 DEF Go, MemberInv, WorkInv
  <2> QED BY <2>1 DEF Held
<1>5. ASSUME ~ Receive(w), ~ Invite(w), ~ Spend(w), ~ Admit(w)
      PROVE  Held'
  BY <1>5, Elsewhere, MemberIdleOK DEF Held, Serve, MemberInv
<1> QED BY <1>1, <1>2, <1>3, <1>4, <1>5

-----------------------------------------------------------------------------
(* The invariant and the theorems                                          *)

LEMMA MemberInitOK == Init => MemberInv /\ Held
<1> SUFFICES ASSUME Init
             PROVE  MemberInv /\ Held
  OBVIOUS
<1>1. PICK i \in Invitations, u \in Users :
        invs = [[j \in Invitations |-> NoInv] EXCEPT
                  ![i] = [to |-> u, role |-> "admin", status |-> "open"]]
  BY DEF Init
<1>2. /\ invs \in [Invitations -> Invitation]
      /\ \A j \in Invitations : invs[j].status # "none" => invs[j].to \in Users
  BY <1>1 DEF NoInv, Invitation, Roles
<1>3. community \in Community /\ (community.privacy # "invite_only" => community.open)
  <2>1. PICK p \in Privacy : community = [privacy |-> p, count |-> 0, open |-> p # "invite_only"]
    BY DEF Init
  <2>2. CASE p = "invite_only"
    BY <2>1, <2>2 DEF Community
  <2>3. CASE p # "invite_only"
    BY <2>1, <2>3 DEF Community
  <2> QED BY <2>2, <2>3
<1>8. DataTypes
  BY <1>2, <1>3, NoRowOK, PoolsAssumption, RequestsAssumption DEF Init, DataTypes
<1>4. WorkInv /\ Closed /\ Held
  BY MemberIdleOK DEF Init, WorkInv, Closed, Held, Opening
<1>5. RowUsers = {} /\ Counting = {}
  BY NoRowOK, MemberIdleOK DEF Init, RowUsers, IsRow, Counting, At
<1>6. community.count = 0
  BY DEF Init
<1>7. InviteOnlyCountExact
  BY <1>5, <1>6, FS_EmptySet, CountIs
<1> QED BY <1>4, <1>7, <1>8 DEF MemberInv

LEMMA MemberNextOK == MemberInv /\ Held /\ [Next]_vars => MemberInv' /\ Held'
<1> SUFFICES ASSUME MemberInv, Held, [Next]_vars
             PROVE  MemberInv' /\ Held'
  OBVIOUS
<1>1. CASE UNCHANGED vars
  <2>1. RowUsers' = RowUsers /\ Counting' = Counting
    BY <1>1 DEF vars, RowUsers, IsRow, Counting, At
  <2> QED BY <1>1, <2>1, CountIs DEF vars, MemberInv, DataTypes, WorkInv, Closed, Held
<1>2. ASSUME NEW w \in Workers, Serve(w)
      PROVE  MemberInv'
  BY <1>2, OpeningOK, InviteOK, AdmitOK, SpendOK, FindTargetOK, CheckActorOK, SaveRoleOK,
     DeleteRowOK, CountDownOK, SavePrivacyOK DEF Serve
<1>3. ASSUME NEW i \in Invitations, Expire(i)
      PROVE  MemberInv' /\ Held'
  <2>1. /\ work' = work
        /\ \A j \in Invitations : invs[j].status # "none" => invs'[j].status # "none"
    BY <1>3 DEF Expire, MemberInv, DataTypes, Invitation
  <2> QED BY <1>3, <2>1, ExpireOK, MemberWorkerType DEF Held, MemberInv, WorkerOK
<1> QED BY <1>1, <1>2, <1>3, MemberReceiveOK, HeldOK DEF Next

LEMMA MemberInvariance == Spec => [](MemberInv /\ Held)
  BY MemberInitOK, MemberNextOK, PTL DEF Spec

\* Every variable keeps its type: memberCount is never negative, whatever
\* stale counts are saved (joinCommunity()) and however removals overlap.
THEOREM MembershipsTypeCorrect == Spec => []TypeOK
<1>1. MemberInv => TypeOK
  BY DEF MemberInv, DataTypes, WorkInv, TypeOK
<1> QED BY <1>1, MemberInvariance, PTL

\* As long as a community has been by invitation only, memberCount is exact
\* up to the removals under way, for any number of acceptances, removals and
\* changes of roles that overlap.
THEOREM InviteOnlyCountIsExact == Spec => []InviteOnlyCountExact
<1>1. MemberInv => InviteOnlyCountExact
  BY DEF MemberInv
<1> QED BY <1>1, MemberInvariance, PTL

-----------------------------------------------------------------------------
(* One request at a time                                                   *)

Once ==
    /\ \A i \in Invitations :
          /\ admitted[i] <= 1
          /\ invs[i].status # "accepted" =>
                admitted[i] = 0 \/ \E w \in Workers : At(w, "spend") /\ work[w].inv = i
    /\ \A w \in Workers : At(w, "admit") => invs[work[w].inv].status # "accepted"

MemberIdleOutside == \A w \in Workers : w \notin pool => At(w, "idle")

MemberTurns == MemberIdleOutside /\ (Cardinality(pool) = 1 => Once)

LEMMA MemberAloneInPool ==
  ASSUME MemberInv, MemberIdleOutside, Cardinality(pool) = 1, NEW w \in pool
  PROVE  \A v \in Workers : v # w => At(v, "idle")
<1>1. IsFiniteSet(pool)
  BY WorkersFinite, FS_Subset DEF MemberInv, DataTypes
<1>2. PICK x : pool = {x}
  BY <1>1, FS_Singleton
<1> QED BY <1>2 DEF MemberIdleOutside

LEMMA MemberBeginTurns ==
  ASSUME MemberInv, MemberTurns, NEW w \in Workers, Receive(w)
  PROVE  MemberTurns'
<1>1. /\ At(w, "idle") /\ w \in pool /\ UNCHANGED <<invs, admitted, pool>>
      /\ \A v \in Workers : v # w => work'[v] = work[v]
      /\ work'[w].pc # "spend"
      /\ work'[w].pc = "admit" => invs[work'[w].inv].status = "open"
  BY Begun DEF MemberInv
<1> QED BY <1>1 DEF MemberTurns, MemberIdleOutside, Once, At

LEMMA AdmitTurns ==
  ASSUME MemberInv, MemberTurns, NEW w \in Workers, Admit(w)
  PROVE  MemberTurns'
<1> DEFINE i == work[w].inv
           q == [work[w] EXCEPT !.pc = "spend"]
<1>1. /\ work[w].pc = "admit" /\ i \in Invitations /\ UNCHANGED <<invs, pool>>
      /\ \/ admitted' = admitted
         \/ admitted' = [admitted EXCEPT ![i] = @ + 1]
  BY MemberWorkerType DEF Admit, At, MemberInv, WorkerOK
<1>2. q.pc = "spend" /\ q.inv = i
  BY GoesOn DEF MemberInv, Pc
<1>3. Go(w, q)
  BY DEF Admit, GoTo
<1> HIDE DEF i, q
<1>4. work'[w] = q /\ \A v \in Workers : v # w => work'[v] = work[v]
  BY <1>3 DEF Go, MemberInv, WorkInv
<1>5. w \in pool
  BY <1>1 DEF MemberTurns, MemberIdleOutside, At
<1>6. MemberIdleOutside'
  BY <1>1, <1>4, <1>5 DEF MemberTurns, MemberIdleOutside, At
<1>7. ASSUME Cardinality(pool) = 1
      PROVE  Once'
  <2>1. \A v \in Workers : v # w => At(v, "idle")
    BY <1>5, <1>7, MemberAloneInPool DEF MemberTurns
  <2>2. Once
    BY <1>7 DEF MemberTurns
  <2>3. admitted[i] = 0
    BY <1>1, <2>1, <2>2 DEF Once, At, i
  <2>4. \A j \in Invitations : admitted'[j] <= 1 /\ (j # i => admitted'[j] = admitted[j])
    BY <1>1, <2>2, <2>3 DEF Once, MemberInv, DataTypes
  <2>5. \A j \in Invitations : invs'[j].status # "accepted" =>
          admitted'[j] = 0 \/ \E v \in Workers : At(v, "spend")' /\ work'[v].inv = j
    BY <1>1, <1>2, <1>4, <2>1, <2>2, <2>4 DEF Once, At
  <2> QED BY <1>2, <1>4, <2>1, <2>4, <2>5 DEF Once, At
<1> QED BY <1>1, <1>6, <1>7 DEF MemberTurns

\* A request of the only worker that ends, and what it leaves of the invitations.
LEMMA MemberEndTurns ==
  ASSUME MemberInv, MemberTurns, NEW w \in Workers, Serve(w), ~ Admit(w)
  PROVE  MemberTurns'
<1>1. /\ ~ At(w, "idle") /\ UNCHANGED <<admitted, pool>>
      /\ work'[w].pc \notin {"admit", "spend"}
      /\ \A v \in Workers : v # w => work'[v] = work[v] \/ work'[v] = Idle
  <2>1. CASE Invite(w) \/ Spend(w)
    BY <2>1, MemberIdleOK DEF Invite, Spend, Done, Go, At, MemberInv, WorkInv
  <2>2. CASE ~ Invite(w) /\ ~ Spend(w)
    BY <2>2, Elsewhere DEF Serve, At, MemberInv
  <2> QED BY <2>1, <2>2
<1>2. w \in pool
  BY <1>1 DEF MemberTurns, MemberIdleOutside
<1>3. MemberIdleOutside'
  BY <1>1, <1>2, MemberIdleOK DEF MemberTurns, MemberIdleOutside, At
<1>4. ASSUME Cardinality(pool) = 1
      PROVE  Once'
  <2>1. /\ \A v \in Workers : v # w => At(v, "idle")
        /\ \A v \in Workers : ~ At(v, "admit")' /\ ~ At(v, "spend")'
    BY <1>1, <1>2, <1>4, MemberAloneInPool, MemberIdleOK DEF MemberTurns, At
  <2>2. Once
    BY <1>4 DEF MemberTurns
  <2>3. \A j \in Invitations : invs'[j].status # "accepted" =>
          invs[j].status # "accepted" /\ ~ (At(w, "spend") /\ work[w].inv = j)
    <3>1. CASE Spend(w)
      BY <3>1, MemberWorkerType DEF Spend, MemberInv, DataTypes, Invitation, WorkerOK, At
    <3>2. CASE Invite(w)
      BY <3>2 DEF Invite, At, MemberInv, DataTypes
    <3>3. CASE ~ Spend(w) /\ ~ Invite(w)
      BY <3>3, Elsewhere DEF Serve, MemberInv, At
    <3> QED BY <3>1, <3>2, <3>3
  <2> QED BY <1>1, <2>1, <2>2, <2>3 DEF Once, At
<1> QED BY <1>1, <1>3, <1>4 DEF MemberTurns

LEMMA ExpireTurns ==
  ASSUME MemberInv, MemberTurns, NEW i \in Invitations, Expire(i)
  PROVE  MemberTurns'
<1>1. /\ UNCHANGED <<admitted, pool, work>>
      /\ \A j \in Invitations : invs'[j].status = "accepted" <=> invs[j].status = "accepted"
  BY DEF Expire, MemberInv, DataTypes, Invitation
<1>2. \A w \in Workers : At(w, "admit") => work[w].inv \in Invitations
  BY MemberWorkerType DEF MemberInv, WorkerOK, At
<1> QED BY <1>1, <1>2 DEF MemberTurns, MemberIdleOutside, Once, At

\* While the server has one request at a time, an invitation makes at most one
\* Membership, however often it is accepted and its member removed: the marking
\* of acceptInvitation() comes before the next acceptance.
THEOREM InvitationsAdmitOnce == Spec => []InvitationAdmitsOnce
<1>1. Init => MemberTurns
  <2>1. ASSUME Init
        PROVE  /\ \A w \in Workers : At(w, "idle")
               /\ \A i \in Invitations : admitted[i] = 0
    BY <2>1, MemberIdleOK DEF Init, At
  <2> QED BY <2>1 DEF MemberTurns, MemberIdleOutside, Once, At
<1>2. MemberInv /\ MemberTurns /\ [Next]_vars => MemberTurns'
  <2> SUFFICES ASSUME MemberInv, MemberTurns, [Next]_vars
               PROVE  MemberTurns'
    OBVIOUS
  <2>1. CASE UNCHANGED vars
    BY <2>1 DEF vars, MemberTurns, MemberIdleOutside, Once, At
  <2> QED BY <2>1, MemberBeginTurns, AdmitTurns, MemberEndTurns, ExpireTurns DEF Next
<1>3. MemberTurns => InvitationAdmitsOnce
  BY DEF MemberTurns, Once, InvitationAdmitsOnce
<1> QED BY <1>1, <1>2, <1>3, MemberInvariance, PTL DEF Spec

-----------------------------------------------------------------------------
(* INITIATIVES                                                             *)

\* A document there is, with finitely many supporters.
FiniteDoc == {d \in Doc : d.status # "gone" /\ IsFiniteSet(d.supporters)}

Types ==
    /\ ini \in Doc /\ IsFiniteSet(ini.supporters)
    /\ comments \in Nat
    /\ pool \in SUBSET Workers
    /\ sent \in 0..IniRequests
    /\ iniWork \in [Workers -> IniWorker]
    /\ \A w \in Workers :
          /\ ~ IniAt(w, "idle") => iniWork[w].doc \in FiniteDoc
          /\ iniWork[w].pc \in {"support", "contribute"} => iniWork[w].user \in Members

\* What the version check of a save relies on: a version that is still the
\* document's has its supporters.
Versions ==
    IniExists => \A w \in Workers :
                 ~ IniAt(w, "idle") /\ iniWork[w].current =>
                     iniWork[w].doc.supporters = ini.supporters

IniInv == Types /\ Versions /\ CommentCountExact

-----------------------------------------------------------------------------
(* Documents and workers                                                   *)

LEMMA CreatedOK == Created \in Doc /\ IsFiniteSet(Created.supporters)
  BY FS_EmptySet DEF Created, Doc, IniStatus

LEMMA IniIdleOK == IniIdle \in IniWorker /\ IniIdle.pc = "idle"
  BY CreatedOK DEF IniIdle, IniWorker, IniPc

LEMMA CountedOK ==
  ASSUME NEW d \in Doc, NEW n \in Nat, NEW s \in IniStatus
  PROVE  /\ [d EXCEPT !.supporterCount = n] \in Doc
         /\ [d EXCEPT !.supporterCount = n, !.status = s] \in Doc
         /\ [d EXCEPT !.supporterCount = n, !.status = s].status = s
  BY DEF Doc

LEMMA PushOK ==
  ASSUME NEW S \in SUBSET (Members \X Nat), IsFiniteSet(S), NEW u \in Members
  PROVE  /\ Push(S, u) \in SUBSET (Members \X Nat)
         /\ IsFiniteSet(Push(S, u))
         /\ S \subseteq Push(S, u)
<1> DEFINE T == {e \in S : e[1] = u}
<1>1. IsFiniteSet(T)
  BY FS_Subset
<1>2. Cardinality(T) \in Nat
  BY <1>1, FS_CardinalityType
<1>3. Push(S, u) = S \cup {<<u, Cardinality(T)>>}
  BY DEF Push
<1> HIDE DEF T
<1>4. IsFiniteSet(S \cup {<<u, Cardinality(T)>>})
  BY FS_AddElement
<1> QED BY <1>2, <1>3, <1>4

LEMMA WithoutOK ==
  ASSUME NEW S \in SUBSET (Members \X Nat), IsFiniteSet(S), NEW u
  PROVE  /\ Without(S, u) \in SUBSET S
         /\ IsFiniteSet(Without(S, u))
         /\ Cardinality(Without(S, u)) \in Nat
         /\ \A e \in S : e[1] # u => e \in Without(S, u)
<1>1. Without(S, u) \in SUBSET S /\ \A e \in S : e[1] # u => e \in Without(S, u)
  BY DEF Without
<1>2. IsFiniteSet(Without(S, u))
  BY <1>1, FS_Subset
<1> QED BY <1>1, <1>2, FS_CardinalityType

\* The worker of a request that is under way.
LEMMA IniWorkerType ==
  ASSUME Types, NEW w \in Workers
  PROVE  /\ iniWork[w] \in IniWorker /\ ini \in Doc
         /\ ~ IniAt(w, "idle") => iniWork[w].doc \in FiniteDoc
         /\ ~ IniAt(w, "idle") => IsFiniteSet(iniWork[w].doc.supporters)
         /\ iniWork[w].pc \in {"support", "contribute"} => iniWork[w].user \in Members
  BY DEF Types, FiniteDoc

-----------------------------------------------------------------------------
(* How a step moves the workers                                            *)

\* Worker w is idle; the others are as they were, or found out of date.
IniEnds(w) ==
    /\ iniWork' \in [Workers -> IniWorker]
    /\ iniWork'[w] = IniIdle
    /\ \A v \in Workers \ {w} :
          /\ iniWork'[v].pc = iniWork[v].pc /\ iniWork'[v].doc = iniWork[v].doc
          /\ iniWork'[v].user = iniWork[v].user
          /\ iniWork'[v].current => iniWork[v].current

LEMMA DoneEnds ==
  ASSUME Types, NEW w \in Workers, IniDone(w)
  PROVE  IniEnds(w)
  BY IniIdleOK DEF Types, IniDone, IniEnds

LEMMA DoneRaisingEnds ==
  ASSUME Types, NEW w \in Workers, DoneRaising(w)
  PROVE  IniEnds(w) /\ \A v \in Workers \ {w} : ~ iniWork'[v].current
<1>1. \A v \in Workers : [iniWork[v] EXCEPT !.current = FALSE] \in IniWorker
  BY DEF Types, IniWorker
<1> QED BY <1>1, IniIdleOK DEF Types, DoneRaising, IniEnds, IniWorker

LEMMA IniBeginOK ==
  ASSUME IniInv, NEW w \in Workers, NEW pc \in IniPc \ {"deleteDoc"}, NEW u \in Members \cup {NoMember},
         IniBegin(w, pc, u), pc \in {"support", "contribute"} => u \in Members
  PROVE  IniInv'
<1> DEFINE q == [pc |-> pc, user |-> u, doc |-> ini, current |-> TRUE]
<1>1. ini \in FiniteDoc /\ q \in IniWorker
  BY DEF IniBegin, IniExists, IniInv, Types, FiniteDoc, IniWorker
<1>2. /\ iniWork' = [iniWork EXCEPT ![w] = q]
      /\ UNCHANGED <<ini, comments, pool>>
      /\ sent' \in 0..IniRequests
  BY IniRequestsAssumption DEF IniBegin, IniInv, Types
<1>3. Types'
  BY <1>1, <1>2 DEF IniInv, Types, IniAt
<1>4. Versions'
  BY <1>2 DEF IniInv, Types, Versions, IniAt, IniExists
<1>5. CommentCountExact'
  <2>1. \A v \in Workers : IniAt(v, "deleteDoc") => IniAt(v, "deleteDoc")'
    BY <1>2 DEF IniInv, Types, IniAt, IniBegin
  <2> QED BY <1>2, <2>1 DEF IniInv, CommentCountExact, IniExists
<1> QED BY <1>3, <1>4, <1>5 DEF IniInv

\* A save that leaves the number of comments alone.
LEMMA SaveOK ==
  ASSUME IniInv, NEW w \in Workers, ~ IniAt(w, "deleteDoc"), IniEnds(w),
         UNCHANGED <<comments, pool, sent>>,
         ini' \in Doc, IsFiniteSet(ini'.supporters),
         IniExists' => IniExists, ini'.commentCount = ini.commentCount,
         \/ ini'.supporters = ini.supporters
         \/ \A v \in Workers \ {w} : ~ iniWork'[v].current
  PROVE  IniInv'
<1>1. Types'
  BY IniIdleOK DEF IniInv, Types, IniEnds, IniAt
<1>2. Versions'
  BY IniIdleOK DEF IniInv, Types, Versions, IniEnds, IniAt, IniExists
<1>3. CommentCountExact'
  <2>1. \A v \in Workers : IniAt(v, "deleteDoc") => IniAt(v, "deleteDoc")'
    BY DEF IniEnds, IniAt
  <2> QED BY <2>1 DEF IniInv, CommentCountExact
<1> QED BY <1>1, <1>2, <1>3 DEF IniInv

-----------------------------------------------------------------------------
(* One lemma per handler                                                   *)

LEMMA IniReceiveOK ==
  ASSUME IniInv, NEW w \in Workers, IniReceive(w)
  PROVE  IniInv'
  BY IniBeginOK DEF IniReceive, BeginSubmit, BeginApprove, BeginReject, BeginComplete, BeginDelete,
     BeginSupport, BeginUnsupport, BeginContribute, BeginComment, IniPc

LEMMA SaveStatusOK ==
  ASSUME IniInv, NEW w \in Workers, NEW pc \in IniPc \ {"deleteDoc"}, NEW s \in IniStatus \ {"gone"},
         SaveStatus(w, pc, s)
  PROVE  IniInv'
<1>1. IniEnds(w) /\ ~ IniAt(w, "deleteDoc")
  BY DoneEnds DEF SaveStatus, IniAt, IniInv
<1>2. /\ ini' \in Doc /\ ini'.supporters = ini.supporters
      /\ ini'.commentCount = ini.commentCount /\ (IniExists' => IniExists)
  BY DEF SaveStatus, IniExists, IniInv, Types, Doc
<1> QED BY <1>1, <1>2, SaveOK DEF SaveStatus, IniInv, Types

LEMMA SaveReviewOK ==
  ASSUME IniInv, NEW w \in Workers, SaveReview(w)
  PROVE  IniInv'
  BY SaveStatusOK DEF SaveReview, IniPc, IniStatus

\* What addSupport() makes of the document.
LEMMA Supported ==
  ASSUME Types, NEW w \in Workers, SaveSupport(w)
  PROVE  /\ ini' \in Doc /\ IsFiniteSet(ini'.supporters)
         /\ ini.supporters \subseteq ini'.supporters
         /\ ini'.commentCount = ini.commentCount
         /\ IniExists' <=> IniExists
<1>1. CASE ~ IniExists
  BY <1>1 DEF SaveSupport, Types, IniExists
<1>2. CASE IniExists
  <2> DEFINE u == iniWork[w].user
             old == iniWork[w].doc
             n == Cardinality(old.supporters) + 1
             new == [old EXCEPT !.supporterCount = n, !.status = "active"]
  <2>1. old \in Doc /\ IsFiniteSet(old.supporters)
    BY IniWorkerType DEF SaveSupport, IniAt, FiniteDoc
  <2>2. Cardinality(old.supporters) \in Nat
    BY <2>1, FS_CardinalityType
  <2>3. new \in Doc /\ new.status = "active"
    <3>1. n \in Nat
      BY <2>2
    <3> HIDE DEF old, n
    <3> QED BY <2>1, <3>1, CountedOK DEF IniStatus
  <2>4. /\ Changed("supporterCount", old, new) \in Nat
        /\ Changed("status", old, new) \in IniStatus
        /\ Changed("status", old, new) = "gone" => ini.status = "gone"
    BY <2>1, <2>3 DEF Changed, Types, Doc
  <2>5. /\ Push(ini.supporters, u) \in SUBSET (Members \X Nat)
        /\ IsFiniteSet(Push(ini.supporters, u))
        /\ ini.supporters \subseteq Push(ini.supporters, u)
    BY PushOK, IniWorkerType DEF Types, Doc, SaveSupport, IniAt
  <2>6. ini' = [ini EXCEPT !.supporters = Push(ini.supporters, u),
                           !.supporterCount = Changed("supporterCount", old, new),
                           !.status = Changed("status", old, new)]
    BY <1>2 DEF SaveSupport
  <2> HIDE DEF u, old, new
  <2> QED BY <1>2, <2>4, <2>5, <2>6 DEF Types, Doc, IniExists
<1> QED BY <1>1, <1>2

\* What removeSupport() makes of it: only the entries of its user go.
LEMMA Unsupported ==
  ASSUME Types, Versions, NEW w \in Workers, SaveUnsupport(w)
  PROVE  /\ ini' \in Doc /\ IsFiniteSet(ini'.supporters)
         /\ \A e \in ini.supporters : e[1] # iniWork[w].user /\ IniExists => e \in ini'.supporters
         /\ ini'.commentCount = ini.commentCount
         /\ IniExists' <=> IniExists
<1>1. CASE ~ (IniExists /\ iniWork[w].current)
  BY <1>1 DEF SaveUnsupport, Types, IniExists
<1>2. CASE IniExists /\ iniWork[w].current
  <2> DEFINE u == iniWork[w].user
             old == iniWork[w].doc
             left == Without(old.supporters, u)
             n == Cardinality(left)
             new == [old EXCEPT !.supporterCount = n]
  <2>1. old \in Doc /\ IsFiniteSet(old.supporters) /\ old.supporters = ini.supporters
    BY <1>2, IniWorkerType DEF SaveUnsupport, IniAt, FiniteDoc, Versions
  <2>2. /\ left \in SUBSET ini.supporters /\ IsFiniteSet(left) /\ Cardinality(left) \in Nat
        /\ \A e \in ini.supporters : e[1] # u => e \in left
    BY <2>1, WithoutOK DEF Types, Doc
  <2>3. new \in Doc
    <3>1. n \in Nat
      BY <2>2
    <3> HIDE DEF old, n
    <3> QED BY <2>1, <3>1, CountedOK DEF IniStatus
  <2>4. Changed("supporterCount", old, new) \in Nat
    BY <2>1, <2>3 DEF Changed, Types, Doc
  <2>5. ini' = [ini EXCEPT !.supporters = left,
                           !.supporterCount = Changed("supporterCount", old, new)]
    BY <1>2 DEF SaveUnsupport
  <2>6. ini.supporters \in SUBSET (Members \X Nat)
    BY DEF Types, Doc
  <2> HIDE DEF u, old, left, new
  <2> QED BY <1>2, <2>2, <2>4, <2>5, <2>6 DEF Types, Doc, IniExists, u
<1> QED BY <1>1, <1>2

LEMMA SaveSupportOK ==
  ASSUME IniInv, NEW w \in Workers, SaveSupport(w)
  PROVE  IniInv'
<1>1. /\ IniEnds(w) /\ ~ IniAt(w, "deleteDoc")
      /\ ini' = ini \/ \A v \in Workers \ {w} : ~ iniWork'[v].current
  BY DoneEnds, DoneRaisingEnds DEF SaveSupport, IniAt, IniInv
<1> QED BY <1>1, Supported, SaveOK DEF SaveSupport, IniInv

LEMMA SaveUnsupportOK ==
  ASSUME IniInv, NEW w \in Workers, SaveUnsupport(w)
  PROVE  IniInv'
<1>1. /\ IniEnds(w) /\ ~ IniAt(w, "deleteDoc")
      /\ ini' = ini \/ \A v \in Workers \ {w} : ~ iniWork'[v].current
  BY DoneEnds, DoneRaisingEnds DEF SaveUnsupport, IniAt, IniInv
<1> QED BY <1>1, Unsupported, SaveOK DEF SaveUnsupport, IniInv

LEMMA SaveContributorOK ==
  ASSUME IniInv, NEW w \in Workers, SaveContributor(w)
  PROVE  IniInv'
<1>1. IniEnds(w) /\ ~ IniAt(w, "deleteDoc")
  BY DoneEnds, DoneRaisingEnds DEF SaveContributor, IniAt, IniInv
<1>2. /\ ini' \in Doc /\ ini'.supporters = ini.supporters
      /\ ini'.commentCount = ini.commentCount /\ (IniExists' => IniExists)
  BY IniWorkerType DEF SaveContributor, IniAt, IniExists, IniInv, Types, Doc
<1> QED BY <1>1, <1>2, SaveOK DEF SaveContributor, IniInv, Types

LEMMA AddCommentOK ==
  ASSUME IniInv, NEW w \in Workers, AddComment(w)
  PROVE  IniInv'
<1>1. IniEnds(w) /\ ~ IniAt(w, "deleteDoc")
  BY DoneEnds DEF AddComment, IniAt, IniInv
<1>2. /\ ini' \in Doc /\ ini'.supporters = ini.supporters
      /\ IniExists => ini'.commentCount = ini.commentCount + 1
      /\ (IniExists' <=> IniExists) /\ comments' = comments + 1 /\ UNCHANGED <<pool, sent>>
  BY DEF AddComment, IniExists, IniInv, Types, Doc
<1>3. Types'
  BY <1>1, <1>2, IniIdleOK DEF IniInv, Types, IniEnds, IniAt
<1>4. Versions'
  BY <1>1, <1>2, IniIdleOK DEF IniInv, Types, Versions, IniEnds, IniAt, IniExists
<1>5. CommentCountExact'
  <2>1. \A v \in Workers : IniAt(v, "deleteDoc") => IniAt(v, "deleteDoc")'
    BY <1>1 DEF IniEnds, IniAt
  <2> QED BY <1>2, <2>1 DEF IniInv, CommentCountExact
<1> QED BY <1>3, <1>4, <1>5 DEF IniInv

LEMMA DeleteCommentsOK ==
  ASSUME IniInv, NEW w \in Workers, DeleteComments(w)
  PROVE  IniInv'
<1> DEFINE q == [iniWork[w] EXCEPT !.pc = "deleteDoc"]
<1>1. q \in IniWorker /\ q.pc = "deleteDoc" /\ q.doc \in FiniteDoc
      /\ q.doc = iniWork[w].doc /\ q.current = iniWork[w].current
  BY IniWorkerType DEF DeleteComments, IniAt, IniInv, IniWorker, IniPc
<1>2. iniWork' = [iniWork EXCEPT ![w] = q] /\ comments' = 0 /\ UNCHANGED <<ini, pool, sent>>
  BY DEF DeleteComments
<1> HIDE DEF q
<1>3. Types'
  BY <1>1, <1>2 DEF IniInv, Types, IniAt
<1>4. Versions'
  BY <1>1, <1>2 DEF IniInv, Types, Versions, IniAt, IniExists, DeleteComments
<1>5. CommentCountExact'
  BY <1>1, <1>2 DEF CommentCountExact, IniAt, IniInv, Types
<1> QED BY <1>3, <1>4, <1>5 DEF IniInv

LEMMA DeleteDocOK ==
  ASSUME IniInv, NEW w \in Workers, DeleteDoc(w)
  PROVE  IniInv'
<1>1. IniEnds(w) /\ UNCHANGED <<comments, pool, sent>>
  BY DoneEnds DEF DeleteDoc, IniInv
<1>2. ini' \in Doc /\ IsFiniteSet(ini'.supporters) /\ ini'.status = "gone"
  BY CreatedOK DEF DeleteDoc, Created, Doc, IniStatus
<1>3. Types'
  BY <1>1, <1>2, IniIdleOK DEF IniInv, Types, IniEnds, IniAt
<1> QED BY <1>2, <1>3 DEF IniInv, Versions, CommentCountExact, IniExists

-----------------------------------------------------------------------------
(* The invariant and the theorems                                          *)

LEMMA IniInitOK == InitiativesInit => IniInv
<1> SUFFICES ASSUME InitiativesInit
             PROVE  IniInv
  OBVIOUS
<1>1. Types
  BY CreatedOK, IniIdleOK, PoolsAssumption, IniRequestsAssumption
     DEF InitiativesInit, Types, Created, Doc, IniStatus, IniAt
<1>2. Versions /\ CommentCountExact
  BY IniIdleOK DEF InitiativesInit, Versions, CommentCountExact, IniAt, Created
<1> QED BY <1>1, <1>2 DEF IniInv

LEMMA IniNextOK == IniInv /\ [InitiativesNext]_iniVars => IniInv'
<1> SUFFICES ASSUME IniInv, [InitiativesNext]_iniVars
             PROVE  IniInv'
  OBVIOUS
<1>1. CASE UNCHANGED iniVars
  BY <1>1 DEF iniVars, IniInv, Types, Versions, CommentCountExact, IniAt, IniExists
<1>2. ASSUME NEW w \in Workers, IniServe(w)
      PROVE  IniInv'
  BY <1>2, SaveReviewOK, SaveSupportOK, SaveUnsupportOK, SaveContributorOK, AddCommentOK,
     DeleteCommentsOK, DeleteDocOK DEF IniServe
<1> QED BY <1>1, <1>2, IniReceiveOK DEF InitiativesNext

LEMMA IniInvariance == InitiativesSpec => []IniInv
  BY IniInitOK, IniNextOK, PTL DEF InitiativesSpec

\* Every variable keeps its type, however the saves of loaded documents
\* overlap with each other and with deleteInitiative().
THEOREM InitiativesTypeCorrect == InitiativesSpec => []InitiativesTypeOK
<1>1. IniInv => InitiativesTypeOK
  BY DEF IniInv, Types, InitiativesTypeOK
<1> QED BY <1>1, IniInvariance, PTL

\* The transaction of addComment() keeps commentCount equal to the number of
\* Comment documents, for any number of comments and deletions that overlap.
THEOREM CommentCountIsExact == InitiativesSpec => []CommentCountExact
<1>1. IniInv => CommentCountExact
  BY DEF IniInv
<1> QED BY <1>1, IniInvariance, PTL

-----------------------------------------------------------------------------
(* No support is lost                                                      *)

LEMMA KeepsSupport ==
  ASSUME IniInv, NEW w \in Workers, IniReceive(w) \/ IniServe(w), NEW u \in Supporting(ini)
  PROVE  \/ u \in Supporting(ini')
         \/ ini'.status = "gone"
         \/ IniAt(w, "unsupport") /\ iniWork[w].user = u
<1>1. PICK e \in ini.supporters : e[1] = u
  BY DEF Supporting
<1>2. CASE e \in ini'.supporters
  BY <1>1, <1>2 DEF Supporting
<1>3. CASE IniReceive(w)
  BY <1>1, <1>3, <1>2 DEF IniReceive, BeginSubmit, BeginApprove, BeginReject, BeginComplete,
     BeginDelete, BeginSupport, BeginUnsupport, BeginContribute, BeginComment, IniBegin
<1>4. CASE SaveReview(w)
  BY <1>1, <1>2, <1>4 DEF SaveReview, SaveStatus, IniInv, Types, Doc
<1>5. CASE SaveSupport(w)
  BY <1>1, <1>2, <1>5, Supported DEF IniInv
<1>6. CASE SaveUnsupport(w)
  <2>1. IniAt(w, "unsupport")
    BY <1>6 DEF SaveUnsupport
  <2>2. CASE IniExists
    BY <1>1, <1>2, <1>6, <2>1, <2>2, Unsupported DEF IniInv
  <2>3. CASE ~ IniExists
    BY <1>6, <2>3 DEF SaveUnsupport, IniExists
  <2> QED BY <2>2, <2>3
<1>7. CASE SaveContributor(w)
  BY <1>1, <1>2, <1>7 DEF SaveContributor, IniInv, Types, Doc
<1>8. CASE AddComment(w) \/ DeleteComments(w)
  BY <1>1, <1>2, <1>8 DEF AddComment, DeleteComments, IniInv, Types, Doc
<1>9. CASE DeleteDoc(w)
  BY <1>9 DEF DeleteDoc, Created
<1> QED BY <1>3, <1>4, <1>5, <1>6, <1>7, <1>8, <1>9 DEF IniServe

\* However many requests overlap, a supporter goes only by his own
\* removeSupport() or with the initiative.
THEOREM SupportIsNotLost == InitiativesSpec => SupportNotLost
<1>1. IniInv /\ [InitiativesNext]_iniVars =>
        [\A u \in Supporting(ini) :
           \/ u \in Supporting(ini')
           \/ ini'.status = "gone"
           \/ \E w \in Workers : IniAt(w, "unsupport") /\ iniWork[w].user = u]_iniVars
  BY KeepsSupport DEF InitiativesNext
<1> QED BY <1>1, IniInvariance, PTL DEF InitiativesSpec, SupportNotLost

-----------------------------------------------------------------------------
(* One request at a time                                                   *)

InStep ==
    /\ IsFiniteSet(Supporting(ini))
    /\ ini.supporterCount = Cardinality(Supporting(ini))
    /\ ini.supporterCount = Cardinality(ini.supporters)
    /\ \A e \in ini.supporters : e[2] = 0
    /\ Supporting(ini) # {} => ini.status \in {"active", "completed"}

\* What a request has checked still holds.
Checked(w) ==
    /\ ~ IniAt(w, "idle") => iniWork[w].doc = ini /\ iniWork[w].current /\ IniExists
    /\ IniAt(w, "submit") => ini.status = "draft"
    /\ IniAt(w, "approve") => ini.status \in {"submitted", "rejected"}
    /\ IniAt(w, "reject") => ini.status \in {"submitted", "approved"}
    /\ IniAt(w, "complete") => ini.status \in {"approved", "active"}
    /\ IniAt(w, "support") =>
          ini.status \in {"approved", "active"} /\ iniWork[w].user \notin Supporting(ini)

IniIdleOutside == \A w \in Workers : w \notin pool => IniAt(w, "idle")

IniTurns ==
    /\ IniIdleOutside
    /\ Cardinality(pool) = 1 => InStep /\ \A w \in Workers : Checked(w)

LEMMA IniAloneInPool ==
  ASSUME IniInv, IniIdleOutside, Cardinality(pool) = 1, NEW w \in pool
  PROVE  \A v \in Workers : v # w => IniAt(v, "idle")
<1>1. IsFiniteSet(pool)
  BY WorkersFinite, FS_Subset DEF IniInv, Types
<1>2. PICK x : pool = {x}
  BY <1>1, FS_Singleton
<1> QED BY <1>2 DEF IniIdleOutside

LEMMA IniBeginTurns ==
  ASSUME IniInv, IniTurns, NEW w \in Workers, IniReceive(w)
  PROVE  IniTurns'
<1>1. PICK pc \in IniPc \ {"idle", "deleteDoc"}, u \in Members \cup {NoMember} :
        /\ IniBegin(w, pc, u)
        /\ pc = "submit" => ini.status = "draft"
        /\ pc = "approve" => ini.status \in {"submitted", "rejected"}
        /\ pc = "reject" => ini.status \in {"submitted", "approved"}
        /\ pc = "complete" => ini.status \in {"approved", "active"}
        /\ pc = "support" => ini.status \in {"approved", "active"} /\ u \notin Supporting(ini)
  BY DEF IniReceive, BeginSubmit, BeginApprove, BeginReject, BeginComplete, BeginDelete,
     BeginSupport, BeginUnsupport, BeginContribute, BeginComment, IniPc
<1> DEFINE q == [pc |-> pc, user |-> u, doc |-> ini, current |-> TRUE]
<1>2. /\ iniWork' = [iniWork EXCEPT ![w] = q] /\ w \in pool /\ IniExists
      /\ UNCHANGED <<ini, pool>>
  BY <1>1 DEF IniBegin
<1>3. IniIdleOutside'
  BY <1>2 DEF IniTurns, IniIdleOutside, IniAt, IniInv, Types
<1>4. ASSUME Cardinality(pool) = 1
      PROVE  InStep' /\ \A v \in Workers : Checked(v)'
  <2>1. InStep'
    BY <1>2, <1>4 DEF IniTurns, InStep, Supporting
  <2>2. Checked(w)'
    BY <1>1, <1>2 DEF Checked, IniAt, IniExists, IniInv, Types, Supporting
  <2>3. ASSUME NEW v \in Workers, v # w
        PROVE  Checked(v)'
    <3>1. iniWork'[v] = iniWork[v] /\ IniAt(v, "idle")
      BY <1>2, <1>4, <2>3, IniAloneInPool DEF IniTurns, IniInv, Types
    <3> QED BY <3>1 DEF Checked, IniAt
  <2> QED BY <2>1, <2>2, <2>3
<1> QED BY <1>2, <1>3, <1>4 DEF IniTurns

\* The end of a request.
LEMMA IniEndTurns ==
  ASSUME IniInv, IniTurns, NEW w \in Workers, ~ IniAt(w, "idle"), IniEnds(w), UNCHANGED pool,
         Cardinality(pool) = 1 /\ InStep /\ Checked(w) => InStep'
  PROVE  IniTurns'
<1>1. IniIdleOutside'
  BY IniIdleOK DEF IniTurns, IniIdleOutside, IniEnds, IniAt
<1>2. ASSUME Cardinality(pool) = 1
      PROVE  InStep' /\ \A v \in Workers : Checked(v)'
  <2>1. w \in pool /\ InStep /\ Checked(w)
    BY <1>2 DEF IniTurns, IniIdleOutside
  <2>2. \A v \in Workers : IniAt(v, "idle")'
    BY <1>2, <2>1, IniAloneInPool, IniIdleOK DEF IniTurns, IniEnds, IniAt
  <2> QED BY <1>2, <2>1, <2>2 DEF Checked, IniAt
<1> QED BY <1>1, <1>2 DEF IniTurns

\* The users a set of entries is of.
Firsts(S) == {e[1] : e \in S}

LEMMA FirstsPush ==
  ASSUME NEW S, IsFiniteSet(S), NEW u, u \notin Firsts(S)
  PROVE  /\ Firsts(S \cup {<<u, 0>>}) = Firsts(S) \cup {u}
         /\ Cardinality(S \cup {<<u, 0>>}) = Cardinality(S) + 1
<1>1. ASSUME NEW x \in Firsts(S) \cup {u}
      PROVE  x \in Firsts(S \cup {<<u, 0>>})
  <2>1. CASE x = u
    <3>1. <<u, 0>>[1] = u
      OBVIOUS
    <3> QED BY <2>1, <3>1 DEF Firsts
  <2>2. CASE x \in Firsts(S)
    BY <2>2 DEF Firsts
  <2> QED BY <2>1, <2>2
<1>2. Firsts(S \cup {<<u, 0>>}) \subseteq Firsts(S) \cup {u}
  BY DEF Firsts
<1>3. <<u, 0>> \notin S
  <2>1. <<u, 0>>[1] = u
    OBVIOUS
  <2> QED BY <2>1 DEF Firsts
<1>4. Cardinality(S \cup {<<u, 0>>}) = Cardinality(S) + 1
  <2> DEFINE x == <<u, 0>>
  <2> HIDE DEF x
  <2>1. x \notin S
    BY <1>3 DEF x
  <2>2. Cardinality(S \cup {x}) = Cardinality(S) + 1
    BY <2>1, FS_AddElement
  <2> QED BY <2>2 DEF x
<1> QED BY <1>1, <1>2, <1>4

LEMMA FirstsRemove ==
  ASSUME NEW S \in SUBSET (Members \X Nat), IsFiniteSet(S), \A e \in S : e[2] = 0, NEW u
  PROVE  /\ Firsts(S \ {<<u, 0>>}) = Firsts(S) \ {u}
         /\ <<u, 0>> \in S <=> u \in Firsts(S)
         /\ Cardinality(S \ {<<u, 0>>}) =
               IF u \in Firsts(S) THEN Cardinality(S) - 1 ELSE Cardinality(S)
<1>1. \A e \in S : e = <<e[1], 0>>
  OBVIOUS
<1>2. <<u, 0>>[1] = u
  OBVIOUS
<1>3. <<u, 0>> \in S <=> u \in Firsts(S)
  BY <1>1, <1>2 DEF Firsts
<1>4. \A e \in S : e[1] = u <=> e = <<u, 0>>
  BY <1>1, <1>2
<1>5. Firsts(S \ {<<u, 0>>}) = Firsts(S) \ {u}
  BY <1>4 DEF Firsts
<1>6. Cardinality(S \ {<<u, 0>>}) =
        IF <<u, 0>> \in S THEN Cardinality(S) - 1 ELSE Cardinality(S)
  <2> DEFINE x == <<u, 0>>
  <2> HIDE DEF x
  <2>1. Cardinality(S \ {x}) = IF x \in S THEN Cardinality(S) - 1 ELSE Cardinality(S)
    BY FS_RemoveElement
  <2> QED BY <2>1 DEF x
<1> QED BY <1>3, <1>5, <1>6

LEMMA SupportInStep ==
  ASSUME IniInv, InStep, NEW w \in Workers, Checked(w), SaveSupport(w)
  PROVE  InStep'
<1> DEFINE u == iniWork[w].user
           n == Cardinality(ini.supporters) + 1
           new == [ini EXCEPT !.supporterCount = n, !.status = "active"]
<1>1. /\ IniAt(w, "support") /\ IniExists /\ iniWork[w].doc = ini /\ u \notin Supporting(ini)
      /\ IsFiniteSet(ini.supporters) /\ ini \in Doc
  BY DEF Checked, SaveSupport, IniAt, IniInv, Types
<1>2. Push(ini.supporters, u) = ini.supporters \cup {<<u, 0>>}
  <2>1. {e \in ini.supporters : e[1] = u} = {}
    BY <1>1 DEF Supporting
  <2> QED BY <2>1, FS_EmptySet DEF Push
<1>3. n \in Nat
  BY <1>1, FS_CardinalityType
<1>4. ini' = [ini EXCEPT !.supporters = Push(ini.supporters, u),
                         !.supporterCount = Changed("supporterCount", ini, new),
                         !.status = Changed("status", ini, new)]
  BY <1>1 DEF SaveSupport
<1>5. /\ Changed("supporterCount", ini, new) = n
      /\ Changed("status", ini, new) = "active"
  BY <1>1 DEF Changed, Doc
<1>6. /\ ini'.supporters = ini.supporters \cup {<<u, 0>>}
      /\ ini'.supporterCount = n /\ ini'.status = "active"
  BY <1>1, <1>2, <1>4, <1>5 DEF Doc
<1> HIDE DEF u
<1>7. /\ Supporting(ini) = Firsts(ini.supporters)
      /\ Supporting(ini') = Firsts(ini'.supporters)
  BY DEF Supporting, Firsts
<1>8. /\ Supporting(ini') = Supporting(ini) \cup {u}
      /\ Cardinality(ini'.supporters) = n
  <2>1. u \notin Firsts(ini.supporters) /\ IsFiniteSet(ini.supporters)
    BY <1>1, <1>7
  <2>2. /\ Firsts(ini.supporters \cup {<<u, 0>>}) = Firsts(ini.supporters) \cup {u}
        /\ Cardinality(ini.supporters \cup {<<u, 0>>}) = n
    BY <2>1, FirstsPush
  <2> QED BY <1>6, <1>7, <2>2
<1> HIDE DEF n
<1>9. /\ IsFiniteSet(Supporting(ini) \cup {u})
      /\ Cardinality(Supporting(ini) \cup {u}) = Cardinality(Supporting(ini)) + 1
  BY <1>1, FS_AddElement DEF InStep
<1>10. \A e \in ini'.supporters : e[2] = 0
  BY <1>6 DEF InStep
<1> QED BY <1>6, <1>8, <1>9, <1>10 DEF InStep, n

LEMMA UnsupportInStep ==
  ASSUME IniInv, InStep, NEW w \in Workers, Checked(w), SaveUnsupport(w)
  PROVE  InStep'
<1> DEFINE u == iniWork[w].user
           left == Without(ini.supporters, u)
           new == [ini EXCEPT !.supporterCount = Cardinality(left)]
<1>1. /\ IniAt(w, "unsupport") /\ IniExists /\ iniWork[w].doc = ini /\ iniWork[w].current
      /\ IsFiniteSet(ini.supporters) /\ ini \in Doc
  BY DEF Checked, SaveUnsupport, IniAt, IniInv, Types
<1>2. left = ini.supporters \ {<<u, 0>>}
  <2>1. \A e \in ini.supporters : e = <<e[1], 0>>
    BY <1>1 DEF InStep, Doc
  <2> QED BY <2>1 DEF Without
<1>3. ini' = [ini EXCEPT !.supporters = left,
                         !.supporterCount = Changed("supporterCount", ini, new)]
  BY <1>1 DEF SaveUnsupport
<1>4. Changed("supporterCount", ini, new) = Cardinality(left)
  BY <1>1 DEF Changed, Doc
<1>5. /\ ini'.supporters = left /\ ini'.supporterCount = Cardinality(left)
      /\ ini'.status = ini.status
  BY <1>1, <1>3, <1>4 DEF Doc
<1> HIDE DEF u
<1>6. /\ Supporting(ini) = Firsts(ini.supporters)
      /\ Supporting(ini') = Firsts(ini'.supporters)
  BY DEF Supporting, Firsts
<1>7. /\ Supporting(ini') = Supporting(ini) \ {u}
      /\ Cardinality(left) =
            IF u \in Supporting(ini) THEN Cardinality(ini.supporters) - 1
                                      ELSE Cardinality(ini.supporters)
  <2> DEFINE S == ini.supporters
  <2>1. S \in SUBSET (Members \X Nat) /\ IsFiniteSet(S) /\ \A e \in S : e[2] = 0
    BY <1>1 DEF Doc, InStep
  <2> HIDE DEF S
  <2>2. /\ Firsts(S \ {<<u, 0>>}) = Firsts(S) \ {u}
        /\ Cardinality(S \ {<<u, 0>>}) =
              IF u \in Firsts(S) THEN Cardinality(S) - 1 ELSE Cardinality(S)
    BY <2>1, FirstsRemove
  <2>3. left = S \ {<<u, 0>>} /\ ini'.supporters = left
    BY <1>2, <1>5 DEF S
  <2> HIDE DEF left
  <2>4. Supporting(ini) = Firsts(S)
    BY <1>6 DEF S
  <2>5. Supporting(ini') = Firsts(S) \ {u}
    BY <1>6, <2>2, <2>3
  <2>6. Cardinality(left) = IF u \in Firsts(S) THEN Cardinality(S) - 1 ELSE Cardinality(S)
    BY <2>2, <2>3
  <2> QED BY <2>4, <2>5, <2>6 DEF S
<1>8. /\ IsFiniteSet(Supporting(ini) \ {u})
      /\ Cardinality(Supporting(ini) \ {u}) =
            IF u \in Supporting(ini) THEN Cardinality(Supporting(ini)) - 1
                                      ELSE Cardinality(Supporting(ini))
  BY FS_RemoveElement DEF InStep
<1> HIDE DEF left
<1>9. \A e \in left : e \in ini.supporters
  BY <1>2
<1> QED BY <1>5, <1>7, <1>8, <1>9 DEF InStep

LEMMA ServeTurns ==
  ASSUME IniInv, IniTurns, NEW w \in Workers, IniServe(w)
  PROVE  IniTurns'
<1>1. CASE SaveReview(w)
  <2>1. IniEnds(w) /\ UNCHANGED pool /\ ~ IniAt(w, "idle")
    BY <1>1, DoneEnds DEF SaveReview, SaveStatus, IniAt, IniInv
  <2>2. ASSUME InStep, Checked(w)
        PROVE  InStep'
    <3>1. /\ ini'.supporters = ini.supporters /\ ini'.supporterCount = ini.supporterCount
          /\ ini'.status \in {ini.status, "completed"} \/ ini.status \notin {"active", "completed"}
      BY <1>1, <2>2 DEF SaveReview, SaveStatus, Checked, IniInv, Types, Doc
    <3> QED BY <2>2, <3>1 DEF InStep, Supporting
  <2> QED BY <2>1, <2>2, IniEndTurns
<1>2. CASE SaveSupport(w)
  <2>1. IniEnds(w) /\ UNCHANGED pool /\ ~ IniAt(w, "idle")
    BY <1>2, DoneEnds, DoneRaisingEnds DEF SaveSupport, IniAt, IniInv
  <2> QED BY <1>2, <2>1, SupportInStep, IniEndTurns
<1>3. CASE SaveUnsupport(w)
  <2>1. IniEnds(w) /\ UNCHANGED pool /\ ~ IniAt(w, "idle")
    BY <1>3, DoneEnds, DoneRaisingEnds DEF SaveUnsupport, IniAt, IniInv
  <2> QED BY <1>3, <2>1, UnsupportInStep, IniEndTurns
<1>4. CASE SaveContributor(w) \/ AddComment(w)
  <2>1. IniEnds(w) /\ UNCHANGED pool /\ ~ IniAt(w, "idle")
    BY <1>4, DoneEnds, DoneRaisingEnds DEF SaveContributor, AddComment, IniAt, IniInv
  <2>2. /\ ini'.supporters = ini.supporters /\ ini'.supporterCount = ini.supporterCount
        /\ ini'.status = ini.status
    BY <1>4 DEF SaveContributor, AddComment, IniInv, Types, Doc
  <2> QED BY <2>1, <2>2, IniEndTurns DEF InStep, Supporting
<1>5. CASE DeleteComments(w)
  <2> DEFINE q == [iniWork[w] EXCEPT !.pc = "deleteDoc"]
  <2>1. /\ q.pc = "deleteDoc" /\ q.doc = iniWork[w].doc /\ q.current = iniWork[w].current
        /\ iniWork' = [iniWork EXCEPT ![w] = q] /\ ~ IniAt(w, "idle") /\ UNCHANGED <<ini, pool>>
    BY <1>5 DEF DeleteComments, IniAt, IniInv, Types, IniWorker
  <2> HIDE DEF q
  <2>2. IniIdleOutside'
    BY <2>1 DEF IniTurns, IniIdleOutside, IniAt, IniInv, Types
  <2>3. ASSUME Cardinality(pool) = 1
        PROVE  InStep' /\ \A v \in Workers : Checked(v)'
    <3>1. InStep /\ \A v \in Workers : Checked(v)
      BY <2>3 DEF IniTurns
    <3>2. InStep'
      BY <2>1, <3>1 DEF InStep, Supporting
    <3>3. Checked(w)'
      BY <2>1, <3>1 DEF Checked, IniAt, IniExists, IniInv, Types
    <3>4. ASSUME NEW v \in Workers, v # w
          PROVE  Checked(v)'
      <4>1. iniWork'[v] = iniWork[v]
        BY <2>1, <3>4 DEF IniInv, Types
      <4> QED BY <2>1, <3>1, <4>1 DEF Checked, IniAt, IniExists
    <3> QED BY <3>2, <3>3, <3>4
  <2> QED BY <2>1, <2>2, <2>3 DEF IniTurns
<1>6. CASE DeleteDoc(w)
  <2>1. IniEnds(w) /\ UNCHANGED pool /\ ~ IniAt(w, "idle")
    BY <1>6, DoneEnds DEF DeleteDoc, IniAt, IniInv
  <2>2. /\ ini'.supporters = {} /\ ini'.supporterCount = 0 /\ Supporting(ini') = {}
    BY <1>6 DEF DeleteDoc, Created, Supporting
  <2>3. InStep'
    BY <2>2, FS_EmptySet DEF InStep
  <2> QED BY <2>1, <2>3, IniEndTurns
<1> QED BY <1>1, <1>2, <1>3, <1>4, <1>5, <1>6 DEF IniServe

\* While the server has one request at a time, supporterCount is the number
\* of supporters, each of them once, and what has supporters is active or
\* completed, for any history of reviews, supports and withdrawals.
THEOREM SupportersCountedInTurn == InitiativesSpec => []SupportersInTurn
<1>1. InitiativesInit => IniTurns
  <2>1. ASSUME InitiativesInit
        PROVE  /\ \A w \in Workers : IniAt(w, "idle")
               /\ ini.supporters = {} /\ ini.supporterCount = 0 /\ Supporting(ini) = {}
    BY <2>1, IniIdleOK DEF InitiativesInit, IniAt, Created, Supporting
  <2> QED BY <2>1, FS_EmptySet DEF IniTurns, IniIdleOutside, InStep, Checked, IniAt
<1>2. IniInv /\ IniTurns /\ [InitiativesNext]_iniVars => IniTurns'
  <2> SUFFICES ASSUME IniInv, IniTurns, [InitiativesNext]_iniVars
               PROVE  IniTurns'
    OBVIOUS
  <2>1. CASE UNCHANGED iniVars
    BY <2>1 DEF iniVars, IniTurns, IniIdleOutside, InStep, Checked, IniAt, IniExists, Supporting
  <2> QED BY <2>1, IniBeginTurns, ServeTurns DEF InitiativesNext
<1>3. IniTurns => SupportersInTurn
  BY DEF IniTurns, InStep, SupportersInTurn
<1> QED BY <1>1, <1>2, <1>3, IniInvariance, PTL DEF InitiativesSpec

-----------------------------------------------------------------------------
(* RECURRING EVENTS                                                        *)

\* What a worker relies on.
Fit(q) ==
    /\ q.pc \in {"find", "insert"} => q.status # "none" /\ \A d \in q.dates : Wanted(d)
    /\ q.pc \in {"saveEdit", "snapshot", "commit"} => q.status # "none"
    /\ q.pc \in {"findDocs", "snapshot", "commit"} => q.scope # "this"
    /\ q.pc # "idle" => Exists(Parent)
    /\ \A i \in q.docs : Exists(i)

SeriesInv ==
    /\ RecurringTypeOK
    /\ DatesOfRule
    /\ \A i \in Docs : Exists(i) => Exists(Parent)
    /\ \A w \in Workers : Fit(task[w])

-----------------------------------------------------------------------------
(* Days and rules                                                          *)

LEMMA DaysFinite == IsFiniteSet(Days) /\ Days \subseteq Nat
  BY DaysAssumption, FS_Interval DEF Days

LEMMA OfFinite ==
  ASSUME NEW d
  PROVE  IsFiniteSet(Of(d)) /\ Cardinality(Of(d)) \in Nat
<1>1. IsFiniteSet(1..Copies) /\ Of(d) \in SUBSET (1..Copies)
  BY DaysAssumption, FS_Interval DEF Of
<1> QED BY <1>1, FS_Subset, FS_CardinalityType

LEMMA RuleType ==
  ASSUME RecurringTypeOK
  PROVE  /\ rule.interval \in Nat \ {0} /\ rule.limit \in Nat
         /\ rule.endType \in {"never", "until", "count"} /\ Step \in Nat \ {0}
  BY RulesAssumption DEF RecurringTypeOK, Rule, EndType, Step

LEMMA CandidateCounted ==
  ASSUME RecurringTypeOK, NEW d \in Days
  PROVE  /\ Candidate(d) => Counted(d)
         /\ Step = 1 /\ Counted(d) => Candidate(d)
<1>1. Candidate(d) => Counted(d)
  BY DEF Candidate, Counted
<1>2. ASSUME Step = 1, Counted(d)
      PROVE  Candidate(d)
  <2>1. d \in Nat /\ Start \in Nat /\ d >= Start /\ Weekday(d)
    BY <1>2, DaysFinite, DaysAssumption DEF Counted
  <2>2. (d - Start) % 1 = 0
    BY <2>1
  <2> QED BY <1>2, <2>1, <2>2 DEF Candidate
<1> QED BY <1>1, <1>2

\* The dates a run counts as past, and those of its window before d, against
\* the dates of the rule before d.
LEMMA CountingUp ==
  ASSUME RecurringTypeOK, NEW from \in Nat, NEW d \in Window(from)
  PROVE  LET before == Cardinality({e \in Days : Candidate(e) /\ e < d})
             counted == CountedBefore(from) + Cardinality({e \in Window(from) : e < d})
         IN  /\ before \in Nat /\ counted \in Nat
             /\ before <= counted
             /\ Step = 1 => before = counted
<1> DEFINE A == {e \in Days : Counted(e) /\ e < from}
           B == {e \in Window(from) : e < d}
           C == {e \in Days : Candidate(e) /\ e < d}
<1>1. d \in Nat /\ from <= d /\ d < from + Horizon /\ Horizon \in Nat
  BY DaysFinite, DaysAssumption DEF Window
<1>2. A \in SUBSET Days /\ B \in SUBSET Days /\ C \in SUBSET Days
  BY DEF Window
<1>3. /\ IsFiniteSet(A) /\ IsFiniteSet(B) /\ IsFiniteSet(C)
  BY <1>2, DaysFinite, FS_Subset
<1>4. Cardinality(A) \in Nat /\ Cardinality(B) \in Nat /\ Cardinality(C) \in Nat
  BY <1>3, FS_CardinalityType
<1>5. C \subseteq A \cup B
  <2> SUFFICES ASSUME NEW e \in Days, Candidate(e), e < d
               PROVE  e \in A \/ e \in B
    OBVIOUS
  <2>1. e \in Nat /\ Counted(e)
    BY CandidateCounted, DaysFinite
  <2> QED BY <1>1, <2>1 DEF Window
<1>6. A \cap B = {}
  <2>1. \A e \in Days : ~ (e < from /\ from <= e)
    BY DaysFinite
  <2> QED BY <2>1 DEF Window
<1>7. Step = 1 => A \cup B \subseteq C
  <2>1. ASSUME Step = 1, NEW e \in A
        PROVE  e \in C
    BY <1>1, <2>1, CandidateCounted, DaysFinite
  <2>2. B \subseteq C
    BY DEF Window
  <2> QED BY <2>1, <2>2
<1> HIDE DEF A, B, C
<1>8. /\ IsFiniteSet(A \cup B)
      /\ Cardinality(A \cup B) = Cardinality(A) + Cardinality(B)
  <2>1. /\ IsFiniteSet(A \cup B)
        /\ Cardinality(A \cup B) = Cardinality(A) + Cardinality(B) - Cardinality(A \cap B)
    BY <1>3, FS_Union
  <2>2. Cardinality(A \cap B) = 0
    BY <1>6, FS_EmptySet
  <2> QED BY <1>4, <2>1, <2>2
<1>9. Cardinality(C) <= Cardinality(A) + Cardinality(B)
  BY <1>5, <1>8, FS_Subset
<1>10. Step = 1 => C = A \cup B
  BY <1>5, <1>7
<1>11. Step = 1 => Cardinality(C) = Cardinality(A) + Cardinality(B)
  BY <1>8, <1>10
<1>12. CountedBefore(from) = Cardinality(A)
  BY DEF CountedBefore, A
<1> QED BY <1>4, <1>9, <1>11, <1>12 DEF B, C

\* What a run is about to create, the rule asks for; and if the count is kept,
\* that is all the rule asks for in the window.
LEMMA OccurrencesWanted ==
  ASSUME RecurringTypeOK, NEW from \in Nat, NEW d \in Days
  PROVE  /\ d \in Occurrences(from) => Wanted(d)
         /\ CountKept /\ Wanted(d) /\ from <= d /\ d < from + Horizon => d \in Occurrences(from)
<1>1. Window(from) = {e \in Days : Candidate(e) /\ from <= e /\ e < from + Horizon}
  BY DEF Window
<1>2. CASE rule.endType = "never"
  BY <1>1, <1>2 DEF Occurrences, Wanted
<1>3. CASE rule.endType = "until"
  BY <1>1, <1>3 DEF Occurrences, Wanted
<1>4. CASE rule.endType = "count"
  <2> DEFINE before == Cardinality({e \in Days : Candidate(e) /\ e < d})
             counted == CountedBefore(from) + Cardinality({e \in Window(from) : e < d})
  <2>1. Occurrences(from) =
          {e \in Window(from) :
             CountedBefore(from) + Cardinality({f \in Window(from) : f < e}) < rule.limit}
    BY <1>4 DEF Occurrences
  <2>2. d \in Occurrences(from) <=> d \in Window(from) /\ counted < rule.limit
    BY <2>1
  <2>3. Wanted(d) <=> Candidate(d) /\ before < rule.limit
    BY <1>4 DEF Wanted
  <2>4. d \in Window(from) =>
          before \in Nat /\ counted \in Nat /\ before <= counted /\ (Step = 1 => before = counted)
    BY CountingUp
  <2>5. rule.limit \in Nat
    BY RuleType
  <2> HIDE DEF before, counted
  <2>6. ASSUME d \in Occurrences(from)
        PROVE  Wanted(d)
    <3>1. d \in Window(from) /\ counted < rule.limit /\ Candidate(d)
      BY <1>1, <2>2, <2>6
    <3> QED BY <2>3, <2>4, <2>5, <3>1
  <2>7. ASSUME CountKept, Wanted(d), from <= d, d < from + Horizon
        PROVE  d \in Occurrences(from)
    <3>1. d \in Window(from) /\ Step = 1 /\ before < rule.limit
      BY <1>1, <1>4, <2>3, <2>7 DEF CountKept
    <3> QED BY <2>2, <2>4, <3>1
  <2> QED BY <2>6, <2>7
<1> QED BY <1>2, <1>3, <1>4, RuleType

LEMMA OccurrencesDays ==
  ASSUME RecurringTypeOK, NEW from
  PROVE  Occurrences(from) \in SUBSET Days
  BY RuleType DEF Occurrences, Window

LEMMA WantedStays ==
  ASSUME UNCHANGED rule, NEW d
  PROVE  Wanted(d)' <=> Wanted(d)
  BY DEF Wanted, Candidate, Weekday, Step

-----------------------------------------------------------------------------
(* Steps                                                                   *)

LEMMA SeriesIdleOK ==
  /\ EventIdle \in EventWorker
  /\ EventIdle.pc = "idle" /\ EventIdle.docs = {} /\ EventIdle.dates = {}
  BY DaysAssumption DEF EventIdle, EventWorker, EventPc, Scope, Status, Docs, NoEvents

LEMMA SeriesWorkerType ==
  ASSUME RecurringTypeOK, NEW w \in Workers
  PROVE  /\ task[w] \in EventWorker
         /\ task[w].status \in Status /\ task[w].target \in Docs
         /\ task[w].dates \in SUBSET Days /\ task[w].docs \in SUBSET Docs
         /\ task[w].day \in 0..Ticks /\ task[w].scope \in Scope
  BY DEF RecurringTypeOK, EventWorker

\* Worker w, and nobody else, goes on.
Moves(w) ==
    /\ task' \in [Workers -> EventWorker]
    /\ \A v \in Workers \ {w} : task'[v] = task[v]
    /\ UNCHANGED <<rule, pool>>

LEMMA EndMoves ==
  ASSUME RecurringTypeOK, NEW w \in Workers, EventDone(w), UNCHANGED <<rule, pool>>
  PROVE  Moves(w) /\ task'[w] = EventIdle
  BY SeriesIdleOK DEF RecurringTypeOK, EventDone, Moves

\* What every step does: it changes one worker, removes no document, and adds
\* instances of dates the rule asks for.
LEMMA MoveOK ==
  ASSUME SeriesInv, NEW w \in Workers, Moves(w), Fit(task[w])',
         today' \in 0..Ticks, ended' \in SUBSET Days, sent' \in 0..EventRequests,
         event' \in [Docs -> Status],
         \A i \in Docs : Exists(i) => Exists(i)',
         \A i \in Docs : Exists(i)' => Exists(Parent)',
         \A i \in Instances : Exists(i)' => Exists(i) \/ Wanted(i[1])
  PROVE  SeriesInv'
<1>1. RecurringTypeOK'
  BY DEF SeriesInv, RecurringTypeOK, Moves
<1>2. DatesOfRule'
  <2>1. \A d : Wanted(d)' <=> Wanted(d)
    BY WantedStays DEF Moves
  <2> QED BY <2>1 DEF SeriesInv, DatesOfRule
<1>3. ASSUME NEW v \in Workers, v # w
      PROVE  Fit(task[v])'
  <2>1. task'[v] = task[v] /\ task[v] \in EventWorker
    BY <1>3 DEF Moves, SeriesInv, RecurringTypeOK
  <2>2. \A d : Wanted(d)' <=> Wanted(d)
    BY WantedStays DEF Moves
  <2>3. Parent \in Docs /\ task[v].docs \subseteq Docs /\ Fit(task[v])
    BY <2>1 DEF Docs, EventWorker, SeriesInv
  <2> QED BY <2>1, <2>2, <2>3 DEF Fit
<1> QED BY <1>1, <1>2, <1>3 DEF SeriesInv

\* A worker moves and no document changes.
LEMMA ReadOK ==
  ASSUME SeriesInv, NEW w \in Workers, Moves(w), Fit(task[w])',
         UNCHANGED <<today, event, ended>>, sent' \in 0..EventRequests
  PROVE  SeriesInv'
<1>1. \A i \in Docs : Exists(i)' <=> Exists(i)
  BY DEF Exists
<1>2. Instances \subseteq Docs
  BY DEF Docs
<1>3. \A i \in Docs : Exists(i)' => Exists(Parent)'
  BY <1>1 DEF SeriesInv, Docs
<1>4. today' \in 0..Ticks /\ ended' \in SUBSET Days /\ event' \in [Docs -> Status]
  BY DEF SeriesInv, RecurringTypeOK
<1> QED BY <1>1, <1>2, <1>3, <1>4, MoveOK

LEMMA CreateEventOK ==
  ASSUME SeriesInv, NEW w \in Workers, CreateEvent(w)
  PROVE  SeriesInv' /\ Moves(w)
<1> DEFINE q == [task[w] EXCEPT !.pc = "load"]
<1>1. PICK s \in {"draft", "published"} : event' = [event EXCEPT ![Parent] = s]
  BY DEF CreateEvent
<1>2. /\ q \in EventWorker /\ q.pc = "load" /\ q.docs = task[w].docs
      /\ task' = [task EXCEPT ![w] = q]
  BY SeriesWorkerType DEF CreateEvent, Materialize, SeriesInv, RecurringTypeOK, EventWorker, EventPc
<1> HIDE DEF q
<1>3. Moves(w) /\ task'[w] = q
  BY <1>2 DEF SeriesInv, RecurringTypeOK, Moves, CreateEvent
<1>4. Parent \in Docs /\ Parent \notin Instances
  BY ParentAssumption DEF Docs, Instances
<1>5. /\ event' \in [Docs -> Status] /\ Exists(Parent)'
      /\ \A i \in Docs \ {Parent} : event'[i] = event[i]
  BY <1>1, <1>4 DEF SeriesInv, RecurringTypeOK, Status, Exists
<1>6. /\ \A i \in Docs : Exists(i) => Exists(i)'
      /\ \A i \in Instances : Exists(i)' => Exists(i)
  BY <1>4, <1>5 DEF Exists, Docs
<1>7. Fit(task[w])'
  <2>1. \A i \in task[w].docs : Exists(i)'
    BY <1>6, SeriesWorkerType DEF SeriesInv, Fit
  <2> QED BY <1>2, <1>3, <1>5, <2>1 DEF Fit
<1>8. today' \in 0..Ticks /\ ended' \in SUBSET Days /\ sent' \in 0..EventRequests
  BY DEF CreateEvent, SeriesInv, RecurringTypeOK
<1> QED BY <1>3, <1>5, <1>6, <1>7, <1>8, MoveOK

LEMMA BeginJobOK ==
  ASSUME SeriesInv, NEW w \in Workers, BeginJob(w)
  PROVE  SeriesInv' /\ Moves(w)
<1> DEFINE q == [task[w] EXCEPT !.pc = "load"]
<1>2. /\ q \in EventWorker /\ q.pc = "load" /\ q.docs = task[w].docs
      /\ task' = [task EXCEPT ![w] = q]
  BY SeriesWorkerType DEF BeginJob, Materialize, SeriesInv, RecurringTypeOK, EventWorker, EventPc
<1> HIDE DEF q
<1>3. Moves(w) /\ task'[w] = q
  BY <1>2 DEF SeriesInv, RecurringTypeOK, Moves, BeginJob
<1>4. Exists(Parent)
  BY DEF BeginJob, Exists
<1>5. Fit(task[w])'
  BY <1>2, <1>3, <1>4 DEF SeriesInv, Fit, BeginJob, Exists
<1> QED BY <1>3, <1>5, ReadOK DEF BeginJob, SeriesInv, RecurringTypeOK

LEMMA LoadParentOK ==
  ASSUME SeriesInv, NEW w \in Workers, LoadParent(w)
  PROVE  SeriesInv' /\ Moves(w)
<1> DEFINE q == [task[w] EXCEPT !.pc = "find", !.status = event[Parent], !.day = today,
                                !.dates = Occurrences(today)]
<1>1. event[Parent] \in Status /\ today \in Nat
  BY DaysAssumption DEF SeriesInv, RecurringTypeOK, Docs
<1>2. /\ q \in EventWorker /\ q.pc = "find" /\ q.docs = task[w].docs /\ q.dates = Occurrences(today)
      /\ q.status = event[Parent]
      /\ task' = [task EXCEPT ![w] = q]
  BY <1>1, SeriesWorkerType, OccurrencesDays DEF LoadParent, SeriesInv, RecurringTypeOK, EventWorker, EventPc
<1> HIDE DEF q
<1>3. Moves(w) /\ task'[w] = q
  <2>1. UNCHANGED <<rule, pool>> /\ task \in [Workers -> EventWorker]
    BY DEF LoadParent, SeriesInv, RecurringTypeOK
  <2> QED BY <1>2, <2>1 DEF Moves
<1>4. Exists(Parent)' /\ event[Parent] # "none"
  BY DEF LoadParent, EventAt, SeriesInv, Fit, Exists
<1>5. \A d \in Occurrences(today) : Wanted(d)'
  <2>1. \A d \in Occurrences(today) : Wanted(d)
    BY <1>1, OccurrencesWanted, OccurrencesDays DEF SeriesInv
  <2> QED BY <2>1, WantedStays DEF LoadParent
<1>6. Fit(task[w])'
  BY <1>2, <1>3, <1>4, <1>5 DEF SeriesInv, Fit, LoadParent, Exists
<1> QED BY <1>3, <1>6, ReadOK DEF LoadParent, SeriesInv, RecurringTypeOK

LEMMA FindExistingOK ==
  ASSUME SeriesInv, NEW w \in Workers, FindExisting(w)
  PROVE  SeriesInv' /\ Moves(w) /\ task'[w].dates = {d \in task[w].dates : Of(d) = {}}
         /\ task'[w].day = task[w].day /\ task'[w].pc = "insert"
<1> DEFINE D == {d \in task[w].dates : Of(d) = {}}
           q == [task[w] EXCEPT !.pc = "insert", !.dates = D]
<1>1. D \in SUBSET Days
  BY SeriesWorkerType DEF SeriesInv
<1> HIDE DEF D
<1>2. /\ q \in EventWorker /\ q.pc = "insert" /\ q.docs = task[w].docs /\ q.dates = D
      /\ q.status = task[w].status /\ q.day = task[w].day
  BY <1>1, SeriesWorkerType DEF SeriesInv, RecurringTypeOK, EventWorker, EventPc
<1>3. task' = [task EXCEPT ![w] = q]
  BY SeriesWorkerType DEF D, FindExisting, SeriesInv, RecurringTypeOK, EventWorker
<1> HIDE DEF q
<1>4. Moves(w) /\ task'[w] = q
  BY <1>2, <1>3 DEF SeriesInv, RecurringTypeOK, Moves, FindExisting
<1>5. D \subseteq task[w].dates /\ \A d : Wanted(d)' <=> Wanted(d)
  BY WantedStays DEF D, FindExisting
<1>6. Fit(task[w])'
  BY <1>2, <1>4, <1>5 DEF SeriesInv, Fit, FindExisting, EventAt, Exists
<1> QED BY <1>2, <1>4, <1>6, ReadOK DEF FindExisting, SeriesInv, RecurringTypeOK, D

\* What insertMany() adds.
LEMMA Inserted ==
  ASSUME SeriesInv, NEW w \in Workers, InsertMany(w)
  PROVE  /\ event' \in [Docs -> Status]
         /\ event'[Parent] = event[Parent]
         /\ \A i \in Docs : Exists(i) => Exists(i)'
         /\ \A i \in Instances : i[1] \notin task[w].dates => event'[i] = event[i]
         /\ \A d \in task[w].dates :
               /\ Cardinality(Of(d)) + 1 \in 1..Copies
               /\ \A n \in 1..Copies :
                     Exists(<<d, n>>)' <=> Exists(<<d, n>>) \/ n = Cardinality(Of(d)) + 1
<1>1. /\ event' = [i \in Docs |->
                     IF \E d \in task[w].dates : i = <<d, Cardinality(Of(d)) + 1>>
                     THEN task[w].status ELSE event[i]]
      /\ \A d \in task[w].dates : Cardinality(Of(d)) < Copies
      /\ task[w].status # "none"
  BY DEF InsertMany, SeriesInv, Fit, EventAt
<1>2. /\ task[w].status \in Status /\ task[w].dates \in SUBSET Days /\ event \in [Docs -> Status]
  BY SeriesWorkerType DEF SeriesInv, RecurringTypeOK
<1>3. event' \in [Docs -> Status]
  BY <1>1, <1>2
<1>4. ASSUME NEW d \in task[w].dates
      PROVE  Cardinality(Of(d)) + 1 \in 1..Copies
  BY <1>1, <1>4, OfFinite, DaysAssumption
<1>5. Parent \in Docs /\ Instances \subseteq Docs /\ Parent \notin Instances
  BY ParentAssumption DEF Docs, Instances
<1>6. event'[Parent] = event[Parent]
  <2>1. ASSUME NEW d \in task[w].dates
        PROVE  Parent # <<d, Cardinality(Of(d)) + 1>>
    BY <1>2, <1>4, <1>5 DEF Instances
  <2> QED BY <1>1, <1>5, <2>1
<1>7. \A i \in Docs : Exists(i) => Exists(i)'
  BY <1>1 DEF Exists
<1>8. ASSUME NEW i \in Instances, i[1] \notin task[w].dates
      PROVE  event'[i] = event[i]
  BY <1>1, <1>5, <1>8
<1>9. ASSUME NEW d \in task[w].dates, NEW n \in 1..Copies
      PROVE  Exists(<<d, n>>)' <=> Exists(<<d, n>>) \/ n = Cardinality(Of(d)) + 1
  <2>1. <<d, n>> \in Docs
    BY <1>2, <1>5 DEF Instances
  <2>2. \A e : <<d, n>> = <<e, Cardinality(Of(e)) + 1>>
               <=> e = d /\ n = Cardinality(Of(d)) + 1
    OBVIOUS
  <2> QED BY <1>1, <2>1, <2>2 DEF Exists
<1> QED BY <1>3, <1>4, <1>6, <1>7, <1>8, <1>9

LEMMA InsertManyOK ==
  ASSUME SeriesInv, NEW w \in Workers, InsertMany(w)
  PROVE  SeriesInv' /\ Moves(w) /\ task'[w] = EventIdle
<1>1. Moves(w) /\ task'[w] = EventIdle
  BY EndMoves DEF InsertMany, SeriesInv
<1>2. Fit(task[w])'
  BY <1>1, SeriesIdleOK DEF Fit
<1>3. \A d \in task[w].dates : Wanted(d)
  BY DEF InsertMany, EventAt, SeriesInv, Fit
<1>4. \A i \in Instances : Exists(i)' => Exists(i) \/ Wanted(i[1])
  BY <1>3, Inserted DEF Exists
<1>5. Exists(Parent)'
  BY Inserted DEF InsertMany, EventAt, SeriesInv, Fit, Exists
<1>6. today' \in 0..Ticks /\ ended' \in SUBSET Days /\ sent' \in 0..EventRequests
  BY DEF InsertMany, SeriesInv, RecurringTypeOK
<1> QED BY <1>1, <1>2, <1>4, <1>5, <1>6, Inserted, MoveOK

\* The documents a request is about are there.
LEMMA ConcernedOK ==
  ASSUME SeriesInv, Exists(Parent), NEW i \in Docs, NEW scope \in Scope
  PROVE  /\ Concerned(i, scope) \in SUBSET Docs
         /\ scope # "this" => \A j \in Concerned(i, scope) : Exists(j)
         /\ Exists(i) => \A j \in Concerned(i, scope) : Exists(j)
  BY DEF Concerned, Docs

LEMMA SeriesBeginOK ==
  ASSUME SeriesInv, NEW w \in Workers, NEW i \in Docs, EventBegin(w, i), NEW q \in EventWorker,
         task' = [task EXCEPT ![w] = q],
         q.pc \in {"cancel", "findDocs", "saveEdit", "snapshot"},
         q.pc \in {"saveEdit", "snapshot"} => q.status # "none",
         q.pc \in {"findDocs", "snapshot"} => q.scope # "this",
         q.docs \subseteq {i}
  PROVE  SeriesInv' /\ Moves(w)
<1>1. Moves(w) /\ task'[w] = q
  BY DEF EventBegin, SeriesInv, RecurringTypeOK, Moves
<1>2. Exists(i) /\ Exists(Parent)
  BY DEF EventBegin, SeriesInv
<1>3. Fit(task[w])'
  BY <1>1, <1>2 DEF Fit, EventBegin, Exists
<1>4. sent' \in 0..EventRequests
  BY EventRequestsAssumption DEF EventBegin, SeriesInv, RecurringTypeOK
<1> QED BY <1>1, <1>3, <1>4, ReadOK DEF EventBegin

LEMMA BeginCancelOK ==
  ASSUME SeriesInv, NEW w \in Workers, NEW i \in Docs, NEW scope \in Scope, BeginCancel(w, i, scope)
  PROVE  SeriesInv' /\ Moves(w)
<1> DEFINE q == [EventIdle EXCEPT !.pc = IF scope = "this" THEN "cancel" ELSE "findDocs",
                             !.target = i, !.scope = scope,
                             !.docs = IF scope = "this" THEN Live({i}) ELSE {}]
<1>1. Live({i}) \subseteq {i} /\ Live({i}) \subseteq Docs
  BY DEF Live
<1>2. /\ q \in EventWorker /\ q.pc \in {"cancel", "findDocs"} /\ q.docs \subseteq {i}
      /\ q.pc = "findDocs" => q.scope # "this"
  BY <1>1, SeriesIdleOK DEF EventWorker, EventPc
<1>3. task' = [task EXCEPT ![w] = q] /\ EventBegin(w, i)
  BY DEF BeginCancel
<1> HIDE DEF q
<1> QED BY <1>2, <1>3, SeriesBeginOK

LEMMA BeginEditOK ==
  ASSUME SeriesInv, NEW w \in Workers, NEW i \in Docs, NEW scope \in Scope,
         NEW s \in {"draft", "published", "completed"}, BeginEdit(w, i, scope, s)
  PROVE  SeriesInv' /\ Moves(w)
<1> DEFINE q == [EventIdle EXCEPT !.pc = IF scope = "this" THEN "saveEdit" ELSE "snapshot",
                             !.target = i, !.scope = scope, !.status = s,
                             !.docs = IF scope = "this" THEN Unlike({i}, s) ELSE {}]
<1>1. Unlike({i}, s) \subseteq {i} /\ Unlike({i}, s) \subseteq Docs
  BY DEF Unlike
<1>2. /\ q \in EventWorker /\ q.pc \in {"saveEdit", "snapshot"}
      /\ q.docs \subseteq {i} /\ q.status = s
      /\ q.pc = "snapshot" => q.scope # "this"
  BY <1>1, SeriesIdleOK DEF EventWorker, EventPc, Status
<1>3. task' = [task EXCEPT ![w] = q] /\ EventBegin(w, i)
  BY DEF BeginEdit
<1> HIDE DEF q
<1> QED BY <1>2, <1>3, SeriesBeginOK

LEMMA FindDocsOK ==
  ASSUME SeriesInv, NEW w \in Workers, FindDocs(w)
  PROVE  /\ SeriesInv' /\ Moves(w)
         /\ task'[w] = [task[w] EXCEPT !.pc = "cancel",
                                 !.docs = Live(Concerned(task[w].target, task[w].scope))]
<1> DEFINE D == Live(Concerned(task[w].target, task[w].scope))
           q == [task[w] EXCEPT !.pc = "cancel", !.docs = D]
<1>1. Exists(Parent)
  BY DEF FindDocs, EventAt, SeriesInv, Fit
<1>2. D \in SUBSET Docs /\ \A i \in D : Exists(i)
  <2>1. task[w].scope # "this"
    BY DEF FindDocs, EventAt, SeriesInv, Fit
  <2> QED BY <1>1, <2>1, SeriesWorkerType, ConcernedOK DEF SeriesInv, Live
<1> HIDE DEF D
<1>3. q \in EventWorker /\ q.pc = "cancel" /\ q.docs = D
  BY <1>2, SeriesWorkerType DEF SeriesInv, RecurringTypeOK, EventWorker, EventPc
<1>4. task' = [task EXCEPT ![w] = q]
  BY SeriesWorkerType DEF D, FindDocs, SeriesInv, RecurringTypeOK, EventWorker
<1>5. Moves(w) /\ task'[w] = q
  <2>1. UNCHANGED <<rule, pool>> /\ task \in [Workers -> EventWorker]
    BY DEF FindDocs, SeriesInv, RecurringTypeOK
  <2> HIDE DEF q
  <2> QED BY <1>3, <1>4, <2>1 DEF Moves
<1>6. Fit(task[w])'
  <2> HIDE DEF q
  <2> QED BY <1>1, <1>2, <1>3, <1>5 DEF Fit, FindDocs, Exists
<1>7. SeriesInv'
  BY <1>5, <1>6, ReadOK DEF FindDocs, SeriesInv, RecurringTypeOK
<1> QED BY <1>5, <1>7 DEF D

LEMMA CancelOneOK ==
  ASSUME SeriesInv, NEW w \in Workers, NEW i \in Docs, CancelOne(w, i)
  PROVE  /\ SeriesInv' /\ Moves(w)
         /\ task'[w] = [task[w] EXCEPT !.docs = @ \ {i}]
         /\ event'[i] = "cancelled" /\ \A j \in Docs \ {i} : event'[j] = event[j]
<1> DEFINE q == [task[w] EXCEPT !.docs = @ \ {i}]
<1>1. q \in EventWorker /\ q.docs = task[w].docs \ {i} /\ q.pc = "cancel"
  BY SeriesWorkerType DEF CancelOne, EventAt, SeriesInv, RecurringTypeOK, EventWorker
<1>2. task' = [task EXCEPT ![w] = q]
  BY SeriesWorkerType DEF CancelOne, SeriesInv, RecurringTypeOK, EventWorker
<1>3. Moves(w) /\ task'[w] = q
  <2>1. UNCHANGED <<rule, pool>> /\ task \in [Workers -> EventWorker]
    BY DEF CancelOne, SeriesInv, RecurringTypeOK
  <2> HIDE DEF q
  <2> QED BY <1>1, <1>2, <2>1 DEF Moves
<1>4. /\ event' \in [Docs -> Status] /\ event'[i] = "cancelled"
      /\ \A j \in Docs \ {i} : event'[j] = event[j]
  BY DEF CancelOne, SeriesInv, RecurringTypeOK, Status
<1>5. Exists(i) /\ Exists(Parent)
  BY DEF CancelOne, EventAt, SeriesInv, Fit
<1>6. Parent \in Docs /\ Instances \subseteq Docs
  BY DEF Docs
<1>7. \A j \in Docs : Exists(j)' <=> Exists(j)
  BY <1>4, <1>5 DEF Exists
<1>8. Fit(task[w])'
  <2> HIDE DEF q
  <2>1. \A j \in q.docs : j \in Docs /\ Exists(j)
    BY <1>1, SeriesWorkerType DEF SeriesInv, Fit
  <2> QED BY <1>1, <1>3, <1>5, <1>6, <1>7, <2>1 DEF Fit
<1>9. today' \in 0..Ticks /\ ended' \in SUBSET Days /\ sent' \in 0..EventRequests
  BY DEF CancelOne, SeriesInv, RecurringTypeOK
<1>10. SeriesInv'
  BY <1>3, <1>4, <1>5, <1>6, <1>7, <1>8, <1>9, MoveOK
<1> QED BY <1>3, <1>4, <1>10

LEMMA EndCancelOK ==
  ASSUME SeriesInv, NEW w \in Workers, EndCancel(w)
  PROVE  SeriesInv' /\ Moves(w) /\ task'[w] = EventIdle
<1>1. Moves(w) /\ task'[w] = EventIdle
  BY EndMoves DEF EndCancel, SeriesInv
<1>2. Fit(task[w])'
  BY <1>1, SeriesIdleOK DEF Fit
<1>3. ended' \in SUBSET Days
  BY DEF EndCancel, CalledOff, SeriesInv, RecurringTypeOK
<1>4. /\ \A i \in Docs : Exists(i)' <=> Exists(i)
      /\ event' \in [Docs -> Status] /\ today' \in 0..Ticks /\ sent' \in 0..EventRequests
  BY DEF EndCancel, Exists, SeriesInv, RecurringTypeOK
<1>5. Parent \in Docs /\ Instances \subseteq Docs
  BY DEF Docs
<1>6. \A i \in Docs : Exists(i)' => Exists(Parent)'
  BY <1>4, <1>5 DEF SeriesInv
<1> QED BY <1>1, <1>2, <1>3, <1>4, <1>5, <1>6, MoveOK

LEMMA PatchOK ==
  ASSUME SeriesInv, NEW w \in Workers, EventAt(w, "saveEdit") \/ EventAt(w, "commit"), Patch(w),
         UNCHANGED <<today, rule, pool, sent>>
  PROVE  SeriesInv' /\ Moves(w) /\ task'[w] = EventIdle
<1>1. Moves(w) /\ task'[w] = EventIdle
  BY EndMoves DEF Patch, SeriesInv
<1>2. Fit(task[w])'
  BY <1>1, SeriesIdleOK DEF Fit
<1>3. ended' \in SUBSET Days
  BY DEF Patch, SeriesInv, RecurringTypeOK
<1>4. task[w].status \in Status \ {"none"} /\ \A i \in task[w].docs : Exists(i)
  BY SeriesWorkerType DEF EventAt, SeriesInv, Fit
<1>5. event' \in [Docs -> Status] /\ \A i \in Docs : Exists(i)' <=> Exists(i)
  BY <1>4 DEF Patch, SeriesInv, RecurringTypeOK, Exists
<1>6. Parent \in Docs /\ Instances \subseteq Docs
  BY DEF Docs
<1>7. \A i \in Docs : Exists(i)' => Exists(Parent)'
  BY <1>5, <1>6 DEF SeriesInv
<1>8. today' \in 0..Ticks /\ sent' \in 0..EventRequests
  BY DEF SeriesInv, RecurringTypeOK
<1> QED BY <1>1, <1>2, <1>3, <1>5, <1>6, <1>7, <1>8, MoveOK

LEMMA SnapshotOK ==
  ASSUME SeriesInv, NEW w \in Workers, Snapshot(w)
  PROVE  SeriesInv' /\ Moves(w) /\ task'[w].pc = "commit"
<1> DEFINE D == Unlike(Concerned(task[w].target, task[w].scope), task[w].status)
           q == [task[w] EXCEPT !.pc = "commit", !.seen = event, !.docs = D]
<1>1. Exists(Parent) /\ task[w].scope # "this" /\ task[w].status # "none"
  BY DEF Snapshot, EventAt, SeriesInv, Fit
<1>2. D \in SUBSET Docs /\ \A i \in D : Exists(i)
  BY <1>1, SeriesWorkerType, ConcernedOK DEF SeriesInv, Unlike
<1> HIDE DEF D
<1>3. /\ q \in EventWorker /\ q.pc = "commit" /\ q.docs = D
      /\ q.status = task[w].status /\ q.scope = task[w].scope
  BY <1>2, SeriesWorkerType DEF SeriesInv, RecurringTypeOK, EventWorker, EventPc
<1>4. task' = [task EXCEPT ![w] = q]
  BY SeriesWorkerType DEF D, Snapshot, SeriesInv, RecurringTypeOK, EventWorker
<1> HIDE DEF q
<1>5. Moves(w) /\ task'[w] = q
  <2>1. UNCHANGED <<rule, pool>> /\ task \in [Workers -> EventWorker]
    BY DEF Snapshot, SeriesInv, RecurringTypeOK
  <2> QED BY <1>3, <1>4, <2>1 DEF Moves
<1>6. Fit(task[w])'
  BY <1>1, <1>2, <1>3, <1>5 DEF Fit, Snapshot, Exists
<1>7. SeriesInv'
  BY <1>5, <1>6, ReadOK DEF Snapshot, SeriesInv, RecurringTypeOK
<1> QED BY <1>3, <1>5, <1>7

\* The commit that is tried again.
Repeat(w) ==
    /\ EventAt(w, "commit")
    /\ task' = [task EXCEPT ![w].pc = "snapshot", ![w].docs = {}, ![w].seen = NoEvents]
    /\ UNCHANGED <<today, rule, event, ended, pool, sent>>

LEMMA RepeatOK ==
  ASSUME SeriesInv, NEW w \in Workers, Repeat(w)
  PROVE  SeriesInv' /\ Moves(w) /\ task'[w].pc = "snapshot"
<1> DEFINE q == [task[w] EXCEPT !.pc = "snapshot", !.docs = {}, !.seen = NoEvents]
<1>1. /\ q \in EventWorker /\ q.pc = "snapshot" /\ q.docs = {}
      /\ q.status = task[w].status /\ q.scope = task[w].scope
  BY SeriesWorkerType DEF SeriesInv, RecurringTypeOK, EventWorker, EventPc, NoEvents, Status
<1>2. task' = [task EXCEPT ![w] = q]
  BY SeriesWorkerType DEF Repeat, SeriesInv, RecurringTypeOK, EventWorker
<1> HIDE DEF q
<1>3. Moves(w) /\ task'[w] = q
  <2>1. UNCHANGED <<rule, pool>> /\ task \in [Workers -> EventWorker]
    BY DEF Repeat, SeriesInv, RecurringTypeOK
  <2> QED BY <1>1, <1>2, <2>1 DEF Moves
<1>4. Fit(task[w])'
  BY <1>1, <1>3 DEF Repeat, EventAt, SeriesInv, Fit, Exists
<1>5. SeriesInv'
  BY <1>3, <1>4, ReadOK DEF Repeat, SeriesInv, RecurringTypeOK
<1> QED BY <1>1, <1>3, <1>5

LEMMA SaveEditPatches ==
  ASSUME NEW w \in Workers, SaveEdit(w)
  PROVE  EventAt(w, "saveEdit") /\ Patch(w) /\ UNCHANGED <<today, rule, pool, sent>>
  BY DEF SaveEdit

LEMMA CommitPatches ==
  ASSUME NEW w \in Workers, Commit(w)
  PROVE  \/ EventAt(w, "commit") /\ Patch(w) /\ UNCHANGED <<today, rule, pool, sent>>
         \/ Repeat(w)
  BY DEF Commit, Repeat

LEMMA TickOK ==
  ASSUME SeriesInv, Tick
  PROVE  SeriesInv'
<1>1. RecurringTypeOK'
  BY DaysAssumption DEF Tick, SeriesInv, RecurringTypeOK
<1>2. \A d : Wanted(d)' <=> Wanted(d)
  BY WantedStays DEF Tick
<1>3. UNCHANGED <<event, task>>
  BY DEF Tick
<1> QED BY <1>1, <1>2, <1>3 DEF SeriesInv, DatesOfRule, Exists, Fit

\* Every step of a worker.
LEMMA SeriesNextOK ==
  ASSUME SeriesInv, [RecurringNext]_eventVars
  PROVE  SeriesInv'
<1>1. CASE UNCHANGED eventVars
  <2>1. \A d : Wanted(d)' <=> Wanted(d)
    BY <1>1, WantedStays DEF eventVars
  <2> QED BY <1>1, <2>1 DEF eventVars, SeriesInv, RecurringTypeOK, DatesOfRule, Exists, Fit
<1>2. CASE Tick
  BY <1>2, TickOK
<1>3. ASSUME NEW w \in Workers, EventReceive(w) \/ EventServe(w)
      PROVE  SeriesInv'
  <2>1. CASE CreateEvent(w) \/ BeginJob(w)
    BY <2>1, CreateEventOK, BeginJobOK
  <2>2. CASE \E i \in Docs, scope \in Scope :
               \/ BeginCancel(w, i, scope)
               \/ \E s \in {"draft", "published", "completed"} : BeginEdit(w, i, scope, s)
    BY <2>2, BeginCancelOK, BeginEditOK
  <2>3. CASE LoadParent(w) \/ FindExisting(w) \/ InsertMany(w)
    BY <2>3, LoadParentOK, FindExistingOK, InsertManyOK
  <2>4. CASE FindDocs(w) \/ EndCancel(w) \/ \E i \in Docs : CancelOne(w, i)
    BY <2>4, FindDocsOK, EndCancelOK, CancelOneOK
  <2>5. CASE SaveEdit(w) \/ Snapshot(w) \/ Commit(w)
    BY <2>5, SaveEditPatches, CommitPatches, PatchOK, SnapshotOK, RepeatOK
  <2> QED BY <1>3, <2>1, <2>2, <2>3, <2>4, <2>5 DEF EventReceive, EventServe
<1> QED BY <1>1, <1>2, <1>3 DEF RecurringNext

LEMMA SeriesInitOK == RecurringInit => SeriesInv
  BY SeriesIdleOK, PoolsAssumption, EventRequestsAssumption, DaysAssumption
  DEF RecurringInit, SeriesInv, RecurringTypeOK, DatesOfRule, Fit, NoEvents, Exists, Docs, Status

LEMMA SeriesInvariance == RecurringSpec => []SeriesInv
  BY SeriesInitOK, SeriesNextOK, PTL DEF RecurringSpec

\* The variables have their types, however requests and runs of the job overlap.
THEOREM RecurringTypeCorrect == RecurringSpec => []RecurringTypeOK
<1>1. SeriesInv => RecurringTypeOK
  BY DEF SeriesInv
<1> QED BY <1>1, SeriesInvariance, PTL

\* However often and from whatever day the window is topped up, and however
\* requests overlap, instances are on dates the rule asks for: a series that
\* ends after a number of occurrences, or on a date, gets no more of them.
THEOREM DatesFollowRule == RecurringSpec => []DatesOfRule
<1>1. SeriesInv => DatesOfRule
  BY DEF SeriesInv
<1> QED BY <1>1, SeriesInvariance, PTL

-----------------------------------------------------------------------------
(* The window is filled                                                    *)

InWindow(q, d) == Wanted(d) /\ q.day <= d /\ d < q.day + Horizon

\* What is left to insert, and what is there, make up the window.
Filling(q) ==
    /\ q.pc = "find" => \A d \in Days : InWindow(q, d) => d \in q.dates
    /\ q.pc = "insert" => \A d \in Days : InWindow(q, d) => d \in q.dates \/ Of(d) # {}

Fill == CountKept => \A w \in Workers : Filling(task[w])

\* Another's step leaves a run what it has.
LEMMA FillingStays ==
  ASSUME UNCHANGED rule, \A i \in Docs : Exists(i) => Exists(i)', NEW q, Filling(q)
  PROVE  Filling(q)'
<1>1. \A d : InWindow(q, d)' <=> InWindow(q, d)
  BY WantedStays DEF InWindow
<1>2. \A d \in Days : Of(d) # {} => Of(d)' # {}
  BY DEF Of, Docs, Instances
<1> QED BY <1>1, <1>2 DEF Filling

LEMMA KeptStays ==
  ASSUME UNCHANGED rule
  PROVE  CountKept' <=> CountKept
  BY DEF CountKept, Step

LEMMA MoveFill ==
  ASSUME SeriesInv, Fill, NEW w \in Workers, Moves(w), \A i \in Docs : Exists(i) => Exists(i)',
         CountKept => Filling(task[w])'
  PROVE  Fill'
<1> SUFFICES ASSUME CountKept', NEW v \in Workers
             PROVE  Filling(task[v])'
  BY DEF Fill
<1>1. UNCHANGED rule /\ CountKept
  BY KeptStays DEF Moves
<1>2. CASE v = w
  BY <1>1, <1>2
<1>3. CASE v # w
  <2>1. task'[v] = task[v] /\ Filling(task[v])
    BY <1>1, <1>3 DEF Moves, Fill
  <2>2. ASSUME NEW q, q = task[v]
        PROVE  Filling(q)'
    BY <1>1, <2>1, <2>2, FillingStays
  <2> QED BY <2>1, <2>2 DEF Filling, InWindow
<1> QED BY <1>2, <1>3

\* A worker that does not fill a window.
LEMMA OtherFill ==
  ASSUME SeriesInv, Fill, NEW w \in Workers, Moves(w), task'[w].pc \notin {"find", "insert"},
         \A i \in Docs : Exists(i) => Exists(i)'
  PROVE  Fill'
  BY MoveFill DEF Filling

LEMMA LoadParentFill ==
  ASSUME SeriesInv, Fill, NEW w \in Workers, LoadParent(w)
  PROVE  Fill'
<1> DEFINE q == [task[w] EXCEPT !.pc = "find", !.status = event[Parent], !.day = today,
                                !.dates = Occurrences(today)]
<1>1. /\ q.pc = "find" /\ q.day = today /\ q.dates = Occurrences(today)
      /\ task'[w] = q /\ today \in Nat /\ RecurringTypeOK
  BY DaysAssumption DEF LoadParent, SeriesInv, RecurringTypeOK, EventWorker
<1> HIDE DEF q
<1>2. \A d : Wanted(d)' <=> Wanted(d)
  BY WantedStays DEF LoadParent
<1>3. ASSUME CountKept, NEW d \in Days, InWindow(q, d)
      PROVE  d \in Occurrences(today)
  BY <1>1, <1>3, OccurrencesWanted DEF InWindow
<1>4. CountKept => Filling(task[w])'
  BY <1>1, <1>2, <1>3 DEF Filling, InWindow
<1>5. \A i \in Docs : Exists(i) => Exists(i)'
  BY DEF LoadParent, Exists
<1> QED BY <1>4, <1>5, LoadParentOK, MoveFill

LEMMA FindExistingFill ==
  ASSUME SeriesInv, Fill, NEW w \in Workers, FindExisting(w)
  PROVE  Fill'
<1>1. /\ Moves(w) /\ task'[w].pc = "insert" /\ task'[w].day = task[w].day
      /\ task'[w].dates = {d \in task[w].dates : Of(d) = {}}
  BY FindExistingOK
<1>2. \A d : Wanted(d)' <=> Wanted(d)
  BY WantedStays DEF FindExisting
<1>3. \A i : Exists(i)' <=> Exists(i)
  BY DEF FindExisting, Exists
<1>4. ASSUME CountKept
      PROVE  Filling(task[w])'
  <2>1. \A d \in Days : InWindow(task[w], d) => d \in task[w].dates
    BY <1>4 DEF Fill, Filling, FindExisting, EventAt
  <2>2. \A d \in Days : InWindow(task[w], d)' <=> InWindow(task[w], d)
    BY <1>1, <1>2 DEF InWindow
  <2>3. \A d : Of(d)' = Of(d)
    BY <1>3 DEF Of
  <2> QED BY <1>1, <2>1, <2>2, <2>3 DEF Filling
<1> QED BY <1>1, <1>3, <1>4, MoveFill

\* No step takes a document away.
LEMMA DocsStay ==
  ASSUME SeriesInv, RecurringNext, NEW i \in Docs, Exists(i)
  PROVE  Exists(i)'
<1>1. CASE Tick
  BY <1>1 DEF Tick, Exists
<1>2. ASSUME NEW w \in Workers, EventReceive(w) \/ EventServe(w)
      PROVE  Exists(i)'
  <2>1. CASE CreateEvent(w) \/ BeginJob(w)
    BY <2>1 DEF CreateEvent, BeginJob, Exists, SeriesInv, RecurringTypeOK
  <2>2. CASE \E j \in Docs, scope \in Scope :
               \/ BeginCancel(w, j, scope)
               \/ \E s \in {"draft", "published", "completed"} : BeginEdit(w, j, scope, s)
    BY <2>2 DEF BeginCancel, BeginEdit, EventBegin, Exists
  <2>3. CASE InsertMany(w)
    BY <2>3, Inserted
  <2>4. CASE LoadParent(w) \/ FindExisting(w) \/ FindDocs(w) \/ EndCancel(w) \/ Snapshot(w)
             \/ Repeat(w)
    BY <2>4 DEF LoadParent, FindExisting, FindDocs, EndCancel, Snapshot, Repeat, Exists
  <2>5. CASE \E j \in Docs : CancelOne(w, j)
    BY <2>5, CancelOneOK DEF Exists
  <2>6. ASSUME Patch(w), EventAt(w, "saveEdit") \/ EventAt(w, "commit")
        PROVE  Exists(i)'
    BY <2>6 DEF Patch, EventAt, SeriesInv, Fit, Exists
  <2> QED BY <1>2, <2>1, <2>2, <2>3, <2>4, <2>5, <2>6, SaveEditPatches, CommitPatches
          DEF EventReceive, EventServe
<1> QED BY <1>1, <1>2 DEF RecurringNext

LEMMA BegunPc ==
  ASSUME SeriesInv, NEW w \in Workers, EventReceive(w)
  PROVE  Moves(w) /\ task'[w].pc \in {"load", "cancel", "findDocs", "saveEdit", "snapshot"}
<1>1. CASE CreateEvent(w) \/ BeginJob(w)
  <2>1. task'[w].pc = "load"
    BY <1>1, SeriesWorkerType DEF CreateEvent, BeginJob, Materialize, SeriesInv, RecurringTypeOK, EventWorker
  <2> QED BY <1>1, <2>1, CreateEventOK, BeginJobOK
<1>2. ASSUME NEW i \in Docs, NEW scope \in Scope, BeginCancel(w, i, scope)
      PROVE  Moves(w) /\ task'[w].pc \in {"cancel", "findDocs"}
  <2>1. task'[w].pc \in {"cancel", "findDocs"}
    BY <1>2, SeriesIdleOK DEF BeginCancel, SeriesInv, RecurringTypeOK, EventWorker
  <2> QED BY <1>2, <2>1, BeginCancelOK
<1>3. ASSUME NEW i \in Docs, NEW scope \in Scope,
             NEW s \in {"draft", "published", "completed"}, BeginEdit(w, i, scope, s)
      PROVE  Moves(w) /\ task'[w].pc \in {"saveEdit", "snapshot"}
  <2>1. task'[w].pc \in {"saveEdit", "snapshot"}
    BY <1>3, SeriesIdleOK DEF BeginEdit, SeriesInv, RecurringTypeOK, EventWorker
  <2> QED BY <1>3, <2>1, BeginEditOK
<1> QED BY <1>1, <1>2, <1>3 DEF EventReceive

LEMMA NextFill ==
  ASSUME SeriesInv, Fill, [RecurringNext]_eventVars
  PROVE  Fill'
<1>1. CASE UNCHANGED eventVars
  <2>1. CountKept' <=> CountKept
    BY <1>1, KeptStays DEF eventVars
  <2> QED BY <1>1, <2>1, WantedStays DEF eventVars, Fill, Filling, InWindow, Of, Exists
<1>2. CASE Tick
  <2>1. (CountKept' <=> CountKept) /\ \A d : Wanted(d)' <=> Wanted(d)
    BY <1>2, KeptStays, WantedStays DEF Tick
  <2>2. UNCHANGED <<event, task>>
    BY <1>2 DEF Tick
  <2> QED BY <2>1, <2>2 DEF Fill, Filling, InWindow, Of, Exists
<1>3. ASSUME RecurringNext
      PROVE  \A i \in Docs : Exists(i) => Exists(i)'
  BY <1>3, DocsStay
<1>4. ASSUME RecurringNext, NEW w \in Workers, EventReceive(w) \/ EventServe(w)
      PROVE  Fill'
  <2>1. CASE EventReceive(w)
    BY <1>3, <1>4, <2>1, BegunPc, OtherFill
  <2>2. CASE LoadParent(w) \/ FindExisting(w)
    BY <2>2, LoadParentFill, FindExistingFill
  <2>3. CASE InsertMany(w)
    BY <1>3, <1>4, <2>3, InsertManyOK, SeriesIdleOK, OtherFill
  <2>4. CASE FindDocs(w)
    <3>1. Moves(w) /\ task'[w].pc = "cancel"
      BY <2>4, FindDocsOK, SeriesWorkerType DEF SeriesInv, EventWorker
    <3> QED BY <1>3, <1>4, <3>1, OtherFill
  <2>5. ASSUME NEW i \in Docs, CancelOne(w, i)
        PROVE  Fill'
    <3>1. task[w] \in EventWorker /\ task[w].pc = "cancel"
      BY <2>5, SeriesWorkerType DEF SeriesInv, CancelOne, EventAt
    <3>2. Moves(w) /\ task'[w].pc = "cancel"
      BY <2>5, <3>1, CancelOneOK DEF EventWorker
    <3> QED BY <1>3, <1>4, <3>2, OtherFill
  <2>6. CASE EndCancel(w)
    BY <1>3, <1>4, <2>6, EndCancelOK, SeriesIdleOK, OtherFill
  <2>7. CASE SaveEdit(w) \/ Commit(w)
    BY <1>3, <1>4, <2>7, SaveEditPatches, CommitPatches, PatchOK, RepeatOK, SeriesIdleOK, OtherFill
  <2>8. CASE Snapshot(w)
    BY <1>3, <1>4, <2>8, SnapshotOK, OtherFill
  <2> QED BY <1>4, <2>1, <2>2, <2>3, <2>4, <2>5, <2>6, <2>7, <2>8 DEF EventServe
<1> QED BY <1>1, <1>2, <1>4 DEF RecurringNext

\* Only insertMany() ends a run.
LEMMA EndsInserts ==
  ASSUME SeriesInv, RecurringNext, NEW w \in Workers, Ends(w)
  PROVE  InsertMany(w)
<1>1. CASE Tick
  BY <1>1 DEF Tick, Ends, EventAt
<1>2. ASSUME NEW v \in Workers, EventReceive(v) \/ EventServe(v)
      PROVE  v = w /\ InsertMany(v)
  <2>1. EventAt(w, "insert") /\ task'[w].pc = "idle"
    BY DEF Ends
  <2>2. EventReceive(v) => EventAt(v, "idle")
    BY DEF EventReceive, CreateEvent, BeginJob, BeginCancel, BeginEdit, EventBegin
  <2>3. EventServe(v) => ~ EventAt(v, "insert") \/ InsertMany(v)
    BY DEF EventServe, LoadParent, FindExisting, FindDocs, EndCancel, CancelOne, SaveEdit, Snapshot,
       Commit, EventAt
  <2>4. Moves(v)
    BY <1>2, BegunPc, LoadParentOK, FindExistingOK, InsertManyOK, FindDocsOK, EndCancelOK,
       CancelOneOK, SaveEditPatches, CommitPatches, PatchOK, SnapshotOK, RepeatOK DEF EventServe
  <2>5. v = w
    BY <2>1, <2>4 DEF Moves, EventAt
  <2> QED BY <1>2, <2>1, <2>2, <2>3, <2>5 DEF EventAt
<1> QED BY <1>1, <1>2 DEF RecurringNext

\* When materializeInstances() ends, every date the rule asks for in its window
\* has an instance, however requests and runs overlap, for every rule whose
\* count is kept.
THEOREM WindowsFilled == RecurringSpec => WindowFilled
<1>1. RecurringInit => Fill
  BY SeriesIdleOK DEF RecurringInit, Fill, Filling
<1>2. SeriesInv /\ Fill /\ [RecurringNext]_eventVars => Fill'
  BY NextFill
<1>3. SeriesInv /\ Fill /\ [RecurringNext]_eventVars
        => [\A w \in Workers : Ends(w) /\ CountKept => Filled(w)]_eventVars
  <2> SUFFICES ASSUME SeriesInv, Fill, RecurringNext, NEW w \in Workers, Ends(w), CountKept,
                      NEW d \in Days, Wanted(d), task[w].day <= d, d < task[w].day + Horizon
               PROVE  Of(d)' # {}
    BY DEF Filled
  <2>1. InsertMany(w)
    BY EndsInserts
  <2>2. d \in task[w].dates \/ Of(d) # {}
    BY DEF Fill, Filling, Ends, EventAt, InWindow
  <2>3. CASE Of(d) # {}
    <3>1. PICK n \in 1..Copies : Exists(<<d, n>>)
      BY <2>3 DEF Of
    <3>2. <<d, n>> \in Docs
      BY DEF Docs, Instances
    <3>3. Exists(<<d, n>>)'
      BY <2>1, <3>1, <3>2, Inserted
    <3> QED BY <3>3 DEF Of
  <2>4. CASE d \in task[w].dates
    BY <2>1, <2>4, Inserted DEF Of
  <2> QED BY <2>2, <2>3, <2>4
<1> QED BY <1>1, <1>2, <1>3, SeriesInvariance, PTL DEF RecurringSpec, WindowFilled

-----------------------------------------------------------------------------
(* One request at a time                                                   *)

SeriesIdleOutside == \A w \in Workers \ pool : EventAt(w, "idle")

\* What an alone worker finds unchanged since it looked.
Turn(w) ==
    /\ task[w].pc = "insert" => \A d \in task[w].dates : Of(d) = {}
    /\ task[w].pc \in {"load", "find", "insert"} => ended = {}
    /\ task[w].pc = "cancel" /\ task[w].scope # "this" =>
          \A j \in Concerned(task[w].target, task[w].scope) :
              j \in task[w].docs \/ event[j] = "cancelled"

OneEach == \A d \in Days : Cardinality(Of(d)) <= 1

\* What has been called off stays so, the parent included.
Over ==
    /\ ended # {} => event[Parent] = "cancelled"
    /\ \A i \in Instances : i[1] \in ended => event[i] \in {"none", "cancelled"}

SeriesTurns ==
    /\ SeriesIdleOutside
    /\ Cardinality(pool) = 1 => OneEach /\ Over /\ \A w \in Workers : Turn(w)

LEMMA SeriesAloneInPool ==
  ASSUME SeriesInv, Cardinality(pool) = 1, SeriesIdleOutside, NEW w \in Workers, w \in pool
  PROVE  \A v \in Workers \ {w} : EventAt(v, "idle")
<1>1. IsFiniteSet(pool)
  BY WorkersFinite, FS_Subset DEF SeriesInv, RecurringTypeOK
<1>2. PICK x : pool = {x}
  BY <1>1, FS_Singleton
<1> QED BY <1>2 DEF SeriesIdleOutside

\* A step of the only worker.
LEMMA MoveTurns ==
  ASSUME SeriesInv, SeriesTurns, NEW w \in pool, Moves(w),
         Cardinality(pool) = 1 /\ OneEach /\ Over /\ Turn(w) => OneEach' /\ Over' /\ Turn(w)'
  PROVE  SeriesTurns'
<1>1. w \in Workers
  BY DEF SeriesInv, RecurringTypeOK
<1>2. SeriesIdleOutside'
  BY DEF SeriesTurns, SeriesIdleOutside, Moves, EventAt
<1>3. ASSUME Cardinality(pool) = 1, NEW v \in Workers, v # w
      PROVE  Turn(v)'
  <2>1. EventAt(v, "idle") /\ task'[v] = task[v]
    BY <1>1, <1>3, SeriesAloneInPool DEF SeriesTurns, Moves
  <2> QED BY <2>1 DEF Turn, EventAt
<1> QED BY <1>1, <1>2, <1>3 DEF SeriesTurns, Moves

\* A step that leaves the documents alone.
LEMMA ReadTurns ==
  ASSUME SeriesInv, SeriesTurns, NEW w \in pool, Moves(w), UNCHANGED <<event, ended>>,
         Cardinality(pool) = 1 /\ OneEach /\ Over /\ Turn(w) => Turn(w)'
  PROVE  SeriesTurns'
<1>1. OneEach => OneEach'
  BY DEF OneEach, Of, Exists
<1>2. Over => Over'
  BY DEF Over
<1> QED BY <1>1, <1>2, MoveTurns

\* Who takes part in a step is in the pool.
LEMMA Working ==
  ASSUME SeriesInv, SeriesTurns, NEW w \in Workers, EventReceive(w) \/ EventServe(w)
  PROVE  w \in pool
<1>1. EventReceive(w) => w \in pool
  BY DEF EventReceive, CreateEvent, BeginJob, BeginCancel, BeginEdit, EventBegin
<1>2. EventServe(w) => ~ EventAt(w, "idle")
  BY DEF EventServe, LoadParent, FindExisting, InsertMany, FindDocs, EndCancel, CancelOne, SaveEdit,
     Snapshot, Commit, EventAt
<1> QED BY <1>1, <1>2 DEF SeriesTurns, SeriesIdleOutside

LEMMA ReceiveTurns ==
  ASSUME SeriesInv, SeriesTurns, NEW w \in Workers, EventReceive(w)
  PROVE  SeriesTurns'
<1>1. w \in pool
  BY Working
<1>2. CASE CreateEvent(w) \/ BeginJob(w)
  <2>1. Moves(w) /\ task'[w].pc = "load" /\ UNCHANGED ended
    <3>1. task'[w].pc = "load" /\ UNCHANGED ended
      BY <1>2, SeriesWorkerType DEF CreateEvent, BeginJob, Materialize, SeriesInv, RecurringTypeOK, EventWorker
    <3> QED BY <1>2, <3>1, CreateEventOK, BeginJobOK
  <2>2. ASSUME Over
        PROVE  ended = {}
    BY <1>2, <2>2 DEF Over, CreateEvent, BeginJob, Exists
  <2>3. \A i \in Instances : event'[i] = event[i]
    <3>1. Instances \subseteq Docs /\ Parent \notin Instances
      BY ParentAssumption DEF Docs, Instances
    <3> QED BY <1>2, <3>1 DEF CreateEvent, BeginJob, SeriesInv, RecurringTypeOK
  <2>4. OneEach => OneEach'
    <3>1. \A d \in Days : Of(d)' = Of(d)
      BY <2>3 DEF Of, Exists, Instances
    <3> QED BY <3>1 DEF OneEach
  <2>5. Over => Over' /\ Turn(w)'
    BY <2>1, <2>2 DEF Over, Turn
  <2> QED BY <1>1, <2>1, <2>4, <2>5, MoveTurns
<1>3. ASSUME NEW i \in Docs, NEW scope \in Scope, BeginCancel(w, i, scope)
      PROVE  SeriesTurns'
  <2>1. Moves(w) /\ UNCHANGED <<event, ended>>
    BY <1>3, BeginCancelOK DEF BeginCancel, EventBegin
  <2>2. /\ task'[w].pc = "cancel" => task'[w].scope = "this"
        /\ task'[w].pc \in {"cancel", "findDocs"}
    BY <1>3, SeriesIdleOK DEF BeginCancel, SeriesInv, RecurringTypeOK, EventWorker
  <2>3. Turn(w)'
    BY <2>2 DEF Turn
  <2> QED BY <1>1, <2>1, <2>3, ReadTurns
<1>4. ASSUME NEW i \in Docs, NEW scope \in Scope,
             NEW s \in {"draft", "published", "completed"}, BeginEdit(w, i, scope, s)
      PROVE  SeriesTurns'
  <2>1. Moves(w) /\ UNCHANGED <<event, ended>>
    BY <1>4, BeginEditOK DEF BeginEdit, EventBegin
  <2>2. task'[w].pc \in {"saveEdit", "snapshot"}
    BY <1>4, SeriesIdleOK DEF BeginEdit, SeriesInv, RecurringTypeOK, EventWorker
  <2>3. Turn(w)'
    BY <2>2 DEF Turn
  <2> QED BY <1>1, <2>1, <2>3, ReadTurns
<1> QED BY <1>2, <1>3, <1>4 DEF EventReceive

LEMMA FillTurns ==
  ASSUME SeriesInv, SeriesTurns, NEW w \in Workers, LoadParent(w) \/ FindExisting(w)
  PROVE  SeriesTurns'
<1>1. w \in pool
  BY Working DEF EventServe
<1>2. Moves(w) /\ UNCHANGED <<event, ended>>
  BY LoadParentOK, FindExistingOK DEF LoadParent, FindExisting
<1>3. \A d : Of(d)' = Of(d)
  BY <1>2 DEF Of, Exists
<1>4. CASE LoadParent(w)
  <2>1. task'[w].pc = "find" /\ task[w].pc = "load"
    BY <1>4, SeriesWorkerType DEF LoadParent, EventAt, SeriesInv, RecurringTypeOK, EventWorker
  <2>2. Turn(w) => Turn(w)'
    BY <1>2, <2>1 DEF Turn
  <2> QED BY <1>1, <1>2, <2>2, ReadTurns
<1>5. CASE FindExisting(w)
  <2>1. /\ task'[w].pc = "insert" /\ task[w].pc = "find"
        /\ \A d \in task'[w].dates : Of(d) = {}
    BY <1>5, FindExistingOK DEF FindExisting, EventAt
  <2>2. Turn(w) => Turn(w)'
    BY <1>2, <1>3, <2>1 DEF Turn
  <2> QED BY <1>1, <1>2, <2>2, ReadTurns
<1> QED BY <1>4, <1>5

\* The dates inserted had no instance.
LEMMA InsertTurns ==
  ASSUME SeriesInv, SeriesTurns, NEW w \in Workers, InsertMany(w)
  PROVE  SeriesTurns'
<1>1. w \in pool /\ EventAt(w, "insert") /\ UNCHANGED ended
  BY Working DEF EventServe, InsertMany
<1>2. Moves(w) /\ task'[w] = EventIdle
  BY InsertManyOK
<1>3. Turn(w)'
  BY <1>2, SeriesIdleOK DEF Turn
<1>4. ASSUME Turn(w), Over
      PROVE  Over'
  BY <1>1, <1>4 DEF Turn, EventAt, Over
<1>5. ASSUME Turn(w), OneEach
      PROVE  OneEach'
  <2> SUFFICES ASSUME NEW d \in Days
               PROVE  Cardinality(Of(d)') <= 1
    BY DEF OneEach
  <2>1. CASE d \in task[w].dates
    <3>1. Cardinality(Of(d)) = 0 /\ ~ \E n \in 1..Copies : Exists(<<d, n>>)
      BY <1>1, <1>5, <2>1, FS_EmptySet DEF Turn, EventAt, Of
    <3>2. Of(d)' = {1}
      <4>1. /\ 1 \in 1..Copies
            /\ \A n \in 1..Copies : Exists(<<d, n>>)' <=> n = 1
        BY <2>1, <3>1, Inserted
      <4> QED BY <4>1 DEF Of
    <3> QED BY <3>2, FS_Singleton
  <2>2. CASE d \notin task[w].dates
    <3>1. Of(d)' = Of(d)
      BY <2>2, Inserted DEF Of, Exists, Instances
    <3> QED BY <1>5, <3>1 DEF OneEach
  <2> QED BY <2>1, <2>2
<1> QED BY <1>1, <1>2, <1>3, <1>4, <1>5, MoveTurns

\* A step that writes documents but creates none.
LEMMA SameDocs ==
  ASSUME \A i \in Docs : Exists(i)' <=> Exists(i)
  PROVE  /\ OneEach => OneEach'
         /\ \A i, scope : Concerned(i, scope)' = Concerned(i, scope)
<1>1. Instances \subseteq Docs
  BY DEF Docs
<1>2. \A d \in Days : Of(d)' = Of(d)
  BY <1>1 DEF Of, Instances
<1> QED BY <1>1, <1>2 DEF OneEach, Concerned

LEMMA CancelTurns ==
  ASSUME SeriesInv, SeriesTurns, NEW w \in Workers,
         FindDocs(w) \/ EndCancel(w) \/ \E i \in Docs : CancelOne(w, i)
  PROVE  SeriesTurns'
<1>1. w \in pool
  BY Working DEF EventServe
<1>2. CASE FindDocs(w)
  <2> DEFINE D == Live(Concerned(task[w].target, task[w].scope))
  <2>1. /\ Moves(w) /\ UNCHANGED <<event, ended>>
        /\ task'[w] = [task[w] EXCEPT !.pc = "cancel", !.docs = D]
    BY <1>2, FindDocsOK DEF FindDocs
  <2>2. /\ task'[w].pc = "cancel" /\ task'[w].docs = D
        /\ task'[w].target = task[w].target /\ task'[w].scope = task[w].scope
    <3> HIDE DEF D
    <3> QED BY <2>1, SeriesWorkerType DEF SeriesInv, EventWorker
  <2>3. \A i, scope : Concerned(i, scope)' = Concerned(i, scope)
    BY <2>1 DEF Concerned, Exists
  <2>4. Turn(w)'
    BY <2>1, <2>2, <2>3 DEF Turn, Live
  <2> QED BY <1>1, <2>1, <2>4, ReadTurns
<1>3. ASSUME NEW i \in Docs, CancelOne(w, i)
      PROVE  SeriesTurns'
  <2>1. /\ Moves(w) /\ task'[w] = [task[w] EXCEPT !.docs = @ \ {i}]
        /\ event'[i] = "cancelled" /\ \A j \in Docs \ {i} : event'[j] = event[j]
        /\ UNCHANGED ended
    BY <1>3, CancelOneOK DEF CancelOne
  <2>2. \A j \in Docs : Exists(j)' <=> Exists(j)
    BY <1>3, <2>1 DEF CancelOne, EventAt, SeriesInv, Fit, Exists
  <2>3. Parent \in Docs /\ Instances \subseteq Docs
    BY DEF Docs
  <2>4. Over => Over'
    BY <2>1, <2>3 DEF Over
  <2>5. /\ task[w].pc = "cancel" /\ task'[w].pc = "cancel" /\ task'[w].docs = task[w].docs \ {i}
        /\ task'[w].target = task[w].target /\ task'[w].scope = task[w].scope
    BY <1>3, <2>1, SeriesWorkerType DEF SeriesInv, EventWorker, CancelOne, EventAt
  <2>6. Concerned(task[w].target, task[w].scope) \subseteq Docs
    BY SeriesWorkerType, <2>3 DEF SeriesInv, Concerned
  <2>7. Turn(w) => Turn(w)'
    BY <2>1, <2>2, <2>5, <2>6, SameDocs DEF Turn
  <2> QED BY <1>1, <2>1, <2>2, <2>4, <2>7, SameDocs, MoveTurns
<1>4. CASE EndCancel(w)
  <2>1. Moves(w) /\ task'[w] = EventIdle
    BY <1>4, EndCancelOK
  <2>2. Turn(w)'
    BY <2>1, SeriesIdleOK DEF Turn
  <2>3. UNCHANGED event /\ ended' = ended \cup CalledOff(w)
        /\ EventAt(w, "cancel") /\ task[w].docs = {}
    BY <1>4 DEF EndCancel
  <2>4. ASSUME Turn(w), Over
        PROVE  Over'
    <3>1. CASE task[w].scope = "this"
      BY <2>3, <2>4, <3>1 DEF Over, CalledOff
    <3>2. CASE task[w].scope # "this"
      <4>1. \A j \in Concerned(task[w].target, task[w].scope) : event[j] = "cancelled"
        BY <2>3, <2>4, <3>2 DEF Turn, EventAt
      <4>2. event[Parent] = "cancelled"
        BY <3>2, <4>1 DEF Concerned
      <4>3. ASSUME NEW i \in Instances, i[1] \in CalledOff(w), Exists(i)
            PROVE  event[i] = "cancelled"
        <5>1. DateOf(i) = i[1]
          BY ParentAssumption DEF DateOf, Instances
        <5> QED BY <3>2, <4>1, <4>3, <5>1 DEF Concerned, CalledOff
      <4> QED BY <2>3, <2>4, <4>2, <4>3 DEF Over, Exists
    <3> QED BY <3>1, <3>2
  <2>5. OneEach => OneEach'
    BY <2>3 DEF OneEach, Of, Exists
  <2> QED BY <1>1, <2>1, <2>2, <2>4, <2>5, MoveTurns
<1> QED BY <1>2, <1>3, <1>4

\* An edit of the status takes up again what it writes.
LEMMA PatchTurns ==
  ASSUME SeriesInv, SeriesTurns, NEW w \in pool, EventAt(w, "saveEdit") \/ EventAt(w, "commit"), Patch(w),
         UNCHANGED <<today, rule, pool, sent>>
  PROVE  SeriesTurns'
<1>1. w \in Workers
  BY DEF SeriesInv, RecurringTypeOK
<1>2. Moves(w) /\ task'[w] = EventIdle
  BY <1>1, PatchOK
<1>3. Turn(w)'
  BY <1>2, SeriesIdleOK DEF Turn
<1>4. Parent \in Docs /\ Instances \subseteq Docs
  BY DEF Docs
<1>5. \A i \in Docs : Exists(i)' <=> Exists(i)
  BY <1>1 DEF Patch, EventAt, SeriesInv, Fit, RecurringTypeOK, Exists
<1>6. ASSUME Over
      PROVE  Over'
  <2>1. CASE Parent \in task[w].docs
    BY <2>1 DEF Patch, Over
  <2>2. CASE Parent \notin task[w].docs
    <3>1. ended' = ended \ {DateOf(i) : i \in task[w].docs}
      BY <2>2 DEF Patch
    <3>2. \A i \in Docs : i \notin task[w].docs => event'[i] = event[i]
      BY DEF Patch
    <3>3. \A i \in Instances : DateOf(i) = i[1]
      BY ParentAssumption DEF DateOf, Instances
    <3> QED BY <1>4, <1>6, <2>2, <3>1, <3>2, <3>3 DEF Over
  <2> QED BY <2>1, <2>2
<1> QED BY <1>2, <1>3, <1>5, <1>6, SameDocs, MoveTurns

LEMMA EditTurns ==
  ASSUME SeriesInv, SeriesTurns, NEW w \in Workers, SaveEdit(w) \/ Snapshot(w) \/ Commit(w)
  PROVE  SeriesTurns'
<1>1. w \in pool
  BY Working DEF EventServe
<1>2. CASE Snapshot(w)
  <2>1. Moves(w) /\ task'[w].pc = "commit" /\ UNCHANGED <<event, ended>>
    BY <1>2, SnapshotOK DEF Snapshot
  <2>2. Turn(w)'
    BY <2>1 DEF Turn
  <2> QED BY <1>1, <2>1, <2>2, ReadTurns
<1>3. CASE Repeat(w)
  <2>1. Moves(w) /\ task'[w].pc = "snapshot" /\ UNCHANGED <<event, ended>>
    BY <1>3, RepeatOK DEF Repeat
  <2>2. Turn(w)'
    BY <2>1 DEF Turn
  <2> QED BY <1>1, <2>1, <2>2, ReadTurns
<1> QED BY <1>1, <1>2, <1>3, SaveEditPatches, CommitPatches, PatchTurns

LEMMA NextTurns ==
  ASSUME SeriesInv, SeriesTurns, [RecurringNext]_eventVars
  PROVE  SeriesTurns'
<1>1. ASSUME UNCHANGED <<event, ended, pool, task>>
      PROVE  SeriesTurns'
  BY <1>1 DEF SeriesTurns, SeriesIdleOutside, OneEach, Over, Turn, Concerned, Of, Exists, EventAt
<1>2. CASE UNCHANGED eventVars \/ Tick
  BY <1>1, <1>2 DEF eventVars, Tick
<1>3. ASSUME NEW w \in Workers, EventReceive(w) \/ EventServe(w)
      PROVE  SeriesTurns'
  BY <1>3, ReceiveTurns, FillTurns, InsertTurns, CancelTurns, EditTurns DEF EventServe
<1> QED BY <1>2, <1>3 DEF RecurringNext

LEMMA InTurns == RecurringSpec => []SeriesTurns
<1>1. RecurringInit => SeriesTurns
  <2>1. ASSUME RecurringInit
        PROVE  /\ \A w \in Workers : task[w].pc = "idle"
               /\ ended = {} /\ \A d \in Days : Of(d) = {}
    <3>1. \A w \in Workers : task[w].pc = "idle"
      BY <2>1, SeriesIdleOK DEF RecurringInit
    <3>2. \A i \in Docs : ~ Exists(i)
      BY <2>1 DEF RecurringInit, NoEvents, Exists
    <3>3. \A d \in Days, n \in 1..Copies : <<d, n>> \in Docs
      BY DEF Docs, Instances
    <3> QED BY <2>1, <3>1, <3>2, <3>3 DEF RecurringInit, Of
  <2>2. RecurringInit => OneEach
    BY <2>1, FS_EmptySet DEF OneEach
  <2>3. RecurringInit => Over
    BY <2>1 DEF Over
  <2>4. RecurringInit => \A w \in Workers : Turn(w)
    BY <2>1 DEF Turn
  <2> QED BY <2>1, <2>2, <2>3, <2>4 DEF SeriesTurns, SeriesIdleOutside, EventAt
<1> QED BY <1>1, NextTurns, SeriesInvariance, PTL DEF RecurringSpec

\* While requests and runs of the job do not overlap, a date has one instance.
THEOREM OneInstanceInTurn == RecurringSpec => []OneInstancePerDate
<1>1. SeriesTurns => OneInstancePerDate
  BY DEF SeriesTurns, OneEach, OneInstancePerDate
<1> QED BY <1>1, InTurns, PTL

\* While they do not overlap, what a cancellation has called off stays off
\* until someone edits the status: the job adds no live instance on its dates.
THEOREM EndedStaysInTurn == RecurringSpec => []EndedStays
<1>1. SeriesTurns => EndedStays
  BY DEF SeriesTurns, Over, EndedStays
<1> QED BY <1>1, InTurns, PTL
=============================================================================
