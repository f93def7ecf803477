-------------------------- MODULE EventRsvpProofs --------------------------
(***************************************************************************)
(* Theorems about EventRsvp for any number of members, seats and           *)
(* overlapping requests.                                                   *)
(***************************************************************************)
EXTENDS EventRsvp, FiniteSetTheorems, TLAPS

\* What a handler has when it reaches a round trip: the caller it serves, the
\* waitlister it promotes, and a limited event when it runs the transaction.
Engaged ==
    \A r \in Requests :
        /\ req[r].pc \notin {"idle", "close", "sweep"} => req[r].user \in Users
        /\ req[r].pc \in {"promote", "recount"} => req[r].next \in Users
        /\ req[r].pc \in {"snapshot", "commit"} => event.capacity # Unlimited

TypeInv == TypeOK /\ Engaged

Docs == Users \cup {EventDoc}

\* The other requests keep everything but the set of writes they missed,
\* and that set only grows.
SameButMissed(q, p) ==
    /\ q.pc = p.pc /\ q.user = p.user /\ q.want = p.want /\ q.seen = p.seen
    /\ q.cand = p.cand /\ q.next = p.next
    /\ p.missed \subseteq q.missed

-----------------------------------------------------------------------------
(* Requests.                                                               *)

LEMMA NoticeType ==
    ASSUME NEW p \in Request, NEW W \in SUBSET Docs
    PROVE  /\ Notice(p, W) \in Request
           /\ SameButMissed(Notice(p, W), p)
           /\ p.pc = "commit" /\ EventDoc \in W => EventDoc \in Notice(p, W).missed
<1>1. CASE p.pc = "commit"
  <2>1. p.missed \cup (W \cap {p.user, EventDoc}) \in SUBSET Docs
    BY DEF Request, Docs
  <2> QED BY <1>1, <2>1 DEF Notice, Request, SameButMissed, Docs
<1>2. CASE p.pc # "commit"
  BY <1>2 DEF Notice, SameButMissed
<1> QED BY <1>1, <1>2

LEMMA NoRequestType == NoRequest \in Request
BY DEF NoRequest, Request, Pc, Answer, RowOrNone, RowStatus

LEMMA GoEffect ==
    ASSUME req \in [Requests -> Request],
           NEW r \in Requests, NEW q \in Request, NEW W \in SUBSET Docs,
           Go(r, q, W)
    PROVE  /\ req' \in [Requests -> Request]
           /\ req'[r] = q
           /\ \A s \in Requests \ {r} :
                 /\ SameButMissed(req'[s], req[s])
                 /\ req[s].pc = "commit" /\ EventDoc \in W => EventDoc \in req'[s].missed
<1>1. \A s \in Requests : req[s] \in Request
  OBVIOUS
<1>2. \A s \in Requests : Notice(req[s], W) \in Request
  BY <1>1, NoticeType
<1>3. req' \in [Requests -> Request]
  BY <1>2 DEF Go
<1>4. req'[r] = q
  BY DEF Go
<1>5. ASSUME NEW s \in Requests \ {r}
      PROVE  /\ SameButMissed(req'[s], req[s])
             /\ req[s].pc = "commit" /\ EventDoc \in W => EventDoc \in req'[s].missed
  <2>1. req'[s] = Notice(req[s], W)
    BY DEF Go
  <2> QED BY <2>1, <1>1, NoticeType
<1> QED BY <1>3, <1>4, <1>5

-----------------------------------------------------------------------------
(* Type correctness.                                                       *)

\* A request that goes on as q leaves the requests typed and engaged.
LEMMA GoEngaged ==
    ASSUME TypeInv, event'.capacity = event.capacity,
           NEW r \in Requests, NEW q \in Request, NEW W \in SUBSET Docs,
           Go(r, q, W),
           q.pc \notin {"idle", "close", "sweep"} => q.user \in Users,
           q.pc \in {"promote", "recount"} => q.next \in Users,
           q.pc \in {"snapshot", "commit"} => event.capacity # Unlimited
    PROVE  req' \in [Requests -> Request] /\ Engaged'
<1>1. /\ req' \in [Requests -> Request]
      /\ req'[r] = q
      /\ \A s \in Requests \ {r} : SameButMissed(req'[s], req[s])
  BY GoEffect DEF TypeInv, TypeOK
<1>2. ASSUME NEW s \in Requests
      PROVE  /\ req'[s].pc \notin {"idle", "close", "sweep"} => req'[s].user \in Users
             /\ req'[s].pc \in {"promote", "recount"} => req'[s].next \in Users
             /\ req'[s].pc \in {"snapshot", "commit"} => event'.capacity # Unlimited
  <2>1. CASE s = r
    BY <1>1, <2>1
  <2>2. CASE s # r
    BY <1>1, <2>2 DEF SameButMissed, TypeInv, Engaged
  <2> QED BY <2>1, <2>2
<1> QED BY <1>1, <1>2 DEF Engaged

LEMMA SetRowType ==
    ASSUME TypeInv, NEW u \in Users, NEW status \in RowStatus, SetRow(u, status)
    PROVE  rows' \in [Users -> RowOrNone] /\ rank' \in [Users -> Nat] /\ fresh' \subseteq Users
BY DEF SetRow, TypeInv, TypeOK, RowOrNone

LEMMA CreateRowType ==
    ASSUME TypeInv, NEW u \in Users, NEW status \in RowStatus, CreateRow(u, status)
    PROVE  rows' \in [Users -> RowOrNone] /\ rank' \in [Users -> Nat]
<1> DEFINE Owners == {v \in Users : rows[v] # "none"}
<1>1. Cardinality(Owners) \in Nat
  BY UsersAssumption, FS_Subset, FS_CardinalityType
<1> HIDE DEF Owners
<1>2. rank' = [rank EXCEPT ![u] = 1 + Cardinality(Owners)]
  BY DEF CreateRow, Owners
<1> QED BY <1>1, <1>2 DEF CreateRow, TypeInv, TypeOK, RowOrNone

LEMMA InitType == Init => TypeInv
<1> SUFFICES ASSUME Init PROVE TypeInv
  OBVIOUS
<1>1. event \in [status : {"published", "cancelled"}, capacity : Capacities,
                 rsvpCount : Nat, waitlistCount : Int]
  BY DEF Init
<1>2. rows \in [Users -> RowOrNone] /\ rank \in [Users -> Nat] /\ fresh \subseteq Users
  BY DEF Init, RowOrNone
<1>3. req \in [Requests -> Request] /\ sent \in 0..MaxRequests
  BY NoRequestType, MaxRequestsAssumption DEF Init
<1>4. Engaged
  BY DEF Init, Engaged, NoRequest
<1> QED BY <1>1, <1>2, <1>3, <1>4 DEF TypeInv, TypeOK

LEMMA DoneEngaged ==
    ASSUME TypeInv, event'.capacity = event.capacity,
           NEW r \in Requests, NEW W \in SUBSET Docs, Done(r, W)
    PROVE  req' \in [Requests -> Request] /\ Engaged'
<1>1. Go(r, NoRequest, W)
  BY DEF Done
<1>2. NoRequest.pc = "idle"
  BY DEF NoRequest
<1> QED BY <1>1, <1>2, NoRequestType, GoEngaged

LEMMA GoToEngaged ==
    ASSUME TypeInv, event'.capacity = event.capacity,
           NEW r \in Requests, NEW pc \in Pc, NEW W \in SUBSET Docs, GoTo(r, pc, W),
           req[r].user \in Users,
           pc \in {"promote", "recount"} => req[r].next \in Users,
           pc \in {"snapshot", "commit"} => event.capacity # Unlimited
    PROVE  req' \in [Requests -> Request] /\ Engaged'
<1> DEFINE q == [req[r] EXCEPT !.pc = pc]
<1>1. req[r] \in Request
  BY DEF TypeInv, TypeOK
<1>2. q \in Request /\ q.pc = pc /\ q.user = req[r].user /\ q.next = req[r].next
  BY <1>1 DEF Request
<1>3. Go(r, q, W)
  BY DEF GoTo
<1> HIDE DEF q
<1> QED BY <1>2, <1>3, GoEngaged

\* What TypeInv says of a request that is not idle.
LEMMA RequestType ==
    ASSUME TypeInv, NEW r \in Requests
    PROVE  /\ req[r] \in Request
           /\ req[r].pc \notin {"idle", "close", "sweep"} => req[r].user \in Users
           /\ req[r].pc \in {"promote", "recount"} => req[r].next \in Users
           /\ req[r].pc \in {"snapshot", "commit"} => event.capacity # Unlimited
           /\ req[r].seen \in RowOrNone /\ req[r].want \in Answer
           /\ req[r].cand \in {"going", "waitlist"}
BY DEF TypeInv, TypeOK, Engaged, Request

LEMMA SendType ==
    ASSUME TypeInv, NEW r \in Requests, NEW q \in Request, Send(r, q),
           q.pc \notin {"idle", "close", "sweep"} => q.user \in Users,
           q.pc \notin {"promote", "recount", "commit"},
           q.pc = "snapshot" => event.capacity # Unlimited
    PROVE  TypeInv'
<1>1. req' \in [Requests -> Request] /\ Engaged'
  BY GoEngaged DEF Send
<1>2. sent' \in 0..MaxRequests
  BY MaxRequestsAssumption DEF Send, TypeInv, TypeOK
<1> QED BY <1>1, <1>2 DEF Send, TypeInv, TypeOK

LEMMA BeginType ==
    ASSUME TypeInv, NEW r \in Requests, Begin(r)
    PROVE  TypeInv'
<1>1. ASSUME NEW u \in Users, NEW want \in Answer, BeginRsvp(r, u, want)
      PROVE  TypeInv'
  <2> DEFINE capped == want = "going" /\ event.capacity # Unlimited
             q == [NoRequest EXCEPT !.pc = IF capped THEN "snapshot" ELSE "find",
                                    !.user = u, !.want = want]
  <2>1. q \in Request /\ q.pc \in {"snapshot", "find"} /\ q.user \in Users
    BY NoRequestType DEF Request, Pc
  <2>2. q.pc = "snapshot" => event.capacity # Unlimited
    BY DEF NoRequest
  <2>3. Send(r, q)
    BY <1>1 DEF BeginRsvp
  <2> HIDE DEF q
  <2> QED BY <2>1, <2>2, <2>3, SendType
<1>2. ASSUME NEW u \in Users, BeginCancel(r, u)
      PROVE  TypeInv'
  <2> DEFINE q == [NoRequest EXCEPT !.pc = "release", !.user = u, !.seen = rows[u]]
  <2>1. q \in Request /\ q.pc = "release" /\ q.user \in Users
    BY NoRequestType DEF Request, Pc, TypeInv, TypeOK
  <2>2. Send(r, q)
    BY <1>2 DEF BeginCancel
  <2> HIDE DEF q
  <2> QED BY <2>1, <2>2, SendType
<1>3. ASSUME BeginCancelEvent(r)
      PROVE  TypeInv'
  <2> DEFINE q == [NoRequest EXCEPT !.pc = "close"]
  <2>1. q \in Request /\ q.pc = "close"
    BY NoRequestType DEF Request, Pc
  <2>2. Send(r, q)
    BY <1>3 DEF BeginCancelEvent
  <2> HIDE DEF q
  <2> QED BY <2>1, <2>2, SendType
<1> QED BY <1>1, <1>2, <1>3 DEF Begin

EventType == [status : {"published", "cancelled"}, capacity : Capacities,
              rsvpCount : Nat, waitlistCount : Int]

\* A step of a request that is typed part by part is typed.
LEMMA StepParts ==
    ASSUME TypeInv, NEW r \in Requests, NEW pc, At(r, pc),
           event' \in EventType,
           rows' \in [Users -> RowOrNone] /\ rank' \in [Users -> Nat] /\ fresh' \subseteq Users,
           req' \in [Requests -> Request] /\ Engaged'
    PROVE  TypeInv'
BY DEF At, TypeInv, TypeOK, EventType

LEMMA NoRowChangeType ==
    ASSUME TypeInv, NoRowChange
    PROVE  rows' \in [Users -> RowOrNone] /\ rank' \in [Users -> Nat] /\ fresh' \subseteq Users
BY DEF NoRowChange, TypeInv, TypeOK

LEMMA RsvpStepType ==
    ASSUME TypeInv, NEW r \in Requests, RsvpStep(r)
    PROVE  TypeInv'
<1> DEFINE q == req[r]
<1>0. /\ q \in Request
      /\ q.pc \notin {"idle", "close", "sweep"} => q.user \in Users
      /\ q.seen \in RowOrNone /\ q.want \in Answer /\ q.cand \in {"going", "waitlist"}
  BY RequestType
<1>e. event \in EventType /\ Answer \subseteq RowStatus
  BY DEF TypeInv, TypeOK, EventType, Answer, RowStatus
<1>1. CASE Snapshot(r)
  <2> DEFINE full == Cardinality(Going) >= event.capacity
             p == [req[r] EXCEPT !.pc = "commit", !.seen = rows[req[r].user],
                                 !.cand = IF full THEN "waitlist" ELSE "going",
                                 !.missed = {}]
  <2>1. q.user \in Users /\ event.capacity # Unlimited
    BY <1>1, <1>0, RequestType DEF Snapshot, At
  <2>2. rows[q.user] \in RowOrNone
    BY <2>1 DEF TypeInv, TypeOK
  <2>3. p \in Request /\ p.pc = "commit" /\ p.user \in Users
    BY <1>0, <2>1, <2>2 DEF Request, Pc
  <2>4. Go(r, p, {}) /\ event' = event
    BY <1>1 DEF Snapshot
  <2> HIDE DEF p
  <2>5. req' \in [Requests -> Request] /\ Engaged'
    BY <2>1, <2>3, <2>4, GoEngaged
  <2> QED BY <1>1, <1>e, <2>4, <2>5, NoRowChangeType, StepParts DEF Snapshot
<1>2. CASE CommitExisting(r)
  <2>1. q.user \in Users /\ event' = event
    BY <1>2, <1>0 DEF CommitExisting, At
  <2>2. rows' \in [Users -> RowOrNone] /\ rank' \in [Users -> Nat] /\ fresh' \subseteq Users
    BY <1>2, <1>0, <2>1, NoRowChangeType, SetRowType DEF CommitExisting, RowStatus
  <2>3. PICK W \in SUBSET Docs : Done(r, W)
    BY <1>2, <2>1 DEF CommitExisting, Docs
  <2>4. req' \in [Requests -> Request] /\ Engaged'
    BY <2>1, <2>3, DoneEngaged
  <2> QED BY <1>2, <1>e, <2>1, <2>2, <2>4, StepParts DEF CommitExisting
<1>3. CASE CommitNew(r)
  <2>1. q.user \in Users /\ q.cand \in RowStatus
    BY <1>3, <1>0 DEF CommitNew, At, RowStatus
  <2>2. rows' \in [Users -> RowOrNone] /\ rank' \in [Users -> Nat]
    BY <1>3, <2>1, CreateRowType DEF CommitNew
  <2>3. fresh' \subseteq Users
    BY <1>3, <2>1 DEF CommitNew, TypeInv, TypeOK
  <2>4. event' \in EventType /\ event'.capacity = event.capacity
    BY <1>3, <1>e DEF CommitNew, BumpCreated, EventType
  <2>5. req' \in [Requests -> Request] /\ Engaged'
    BY <1>3, <2>1, <2>4, DoneEngaged DEF CommitNew, Docs
  <2> QED BY <1>3, <2>2, <2>3, <2>4, <2>5, StepParts DEF CommitNew
<1>4. CASE Retry(r)
  <2>1. q.user \in Users /\ event.capacity # Unlimited /\ event' = event
    BY <1>4, <1>0, RequestType DEF Retry, At
  <2>2. req' \in [Requests -> Request] /\ Engaged'
    BY <1>4, <2>1, GoToEngaged DEF Retry, Pc
  <2> QED BY <1>4, <1>e, <2>1, <2>2, NoRowChangeType, StepParts DEF Retry
<1>5. CASE DuplicateInTxn(r)
  <2>1. req' \in [Requests -> Request] /\ Engaged'
    BY <1>5, DoneEngaged DEF DuplicateInTxn
  <2> QED BY <1>5, <1>e, <2>1, NoRowChangeType, StepParts DEF DuplicateInTxn
<1>6. CASE Find(r)
  <2> DEFINE p == [req[r] EXCEPT !.pc = "save", !.seen = rows[req[r].user]]
  <2>1. q.user \in Users
    BY <1>6, <1>0 DEF Find, At
  <2>2. rows[q.user] \in RowOrNone
    BY <2>1 DEF TypeInv, TypeOK
  <2>3. p \in Request /\ p.pc = "save" /\ p.user \in Users
    BY <1>0, <2>1, <2>2 DEF Request, Pc
  <2>4. Go(r, p, {}) /\ event' = event
    BY <1>6 DEF Find
  <2> HIDE DEF p
  <2>5. req' \in [Requests -> Request] /\ Engaged'
    BY <2>3, <2>4, GoEngaged
  <2> QED BY <1>6, <1>e, <2>4, <2>5, NoRowChangeType, StepParts DEF Find
<1>7. CASE SaveExisting(r)
  <2>1. q.user \in Users /\ event' = event
    BY <1>7, <1>0 DEF SaveExisting, At
  <2>2. rows' \in [Users -> RowOrNone] /\ rank' \in [Users -> Nat] /\ fresh' \subseteq Users
    BY <1>7, <1>0, <1>e, <2>1, NoRowChangeType, SetRowType DEF SaveExisting
  <2>3. PICK W \in SUBSET Docs : Done(r, W)
    BY <1>7, <2>1 DEF SaveExisting, Docs
  <2>4. req' \in [Requests -> Request] /\ Engaged'
    BY <2>1, <2>3, DoneEngaged
  <2> QED BY <1>7, <1>e, <2>1, <2>2, <2>4, StepParts DEF SaveExisting
<1>8. CASE SaveNew(r)
  <2>1. q.user \in Users /\ event' = event
    BY <1>8, <1>0 DEF SaveNew, At
  <2>2. CASE rows[q.user] = "none"
    <3>1. rows' \in [Users -> RowOrNone] /\ rank' \in [Users -> Nat] /\ fresh' \subseteq Users
      BY <1>8, <1>0, <1>e, <2>1, <2>2, CreateRowType DEF SaveNew, TypeInv, TypeOK
    <3>2. GoTo(r, "bump", {q.user}) \/ Done(r, {q.user})
      BY <1>8, <2>2 DEF SaveNew
    <3>3. req' \in [Requests -> Request] /\ Engaged'
      BY <2>1, <3>2, GoToEngaged, DoneEngaged DEF Docs, Pc
    <3> QED BY <1>8, <1>e, <2>1, <3>1, <3>3, StepParts DEF SaveNew
  <2>3. CASE rows[q.user] # "none"
    <3>1. NoRowChange /\ Done(r, {})
      BY <1>8, <2>3 DEF SaveNew
    <3>2. req' \in [Requests -> Request] /\ Engaged'
      BY <2>1, <3>1, DoneEngaged
    <3> QED BY <1>8, <1>e, <2>1, <3>1, <3>2, NoRowChangeType, StepParts DEF SaveNew
  <2> QED BY <2>2, <2>3
<1>9. CASE Bump(r)
  <2>1. event' \in EventType /\ event'.capacity = event.capacity
    BY <1>9, <1>e DEF Bump, EventType
  <2>2. req' \in [Requests -> Request] /\ Engaged'
    BY <1>9, <2>1, DoneEngaged DEF Bump, Docs
  <2> QED BY <1>9, <2>1, <2>2, NoRowChangeType, StepParts DEF Bump
<1> QED BY <1>1, <1>2, <1>3, <1>4, <1>5, <1>6, <1>7, <1>8, <1>9 DEF RsvpStep

LEMMA CancelStepType ==
    ASSUME TypeInv, NEW r \in Requests, CancelStep(r)
    PROVE  TypeInv'
<1> DEFINE q == req[r]
<1>0. /\ q \in Request
      /\ q.pc \notin {"idle", "close", "sweep"} => q.user \in Users
      /\ q.pc \in {"promote", "recount"} => q.next \in Users
  BY RequestType
<1>e. event \in EventType
  BY DEF TypeInv, TypeOK, EventType
<1>1. CASE Release(r)
  <2>1. q.user \in Users /\ event' = event
    BY <1>1, <1>0 DEF Release, At
  <2>2. rows' \in [Users -> RowOrNone] /\ rank' \in [Users -> Nat] /\ fresh' \subseteq Users
    BY <1>1, <2>1, NoRowChangeType, SetRowType DEF Release, RowStatus
  <2>3. PICK W \in SUBSET Docs : GoTo(r, "decrement", W)
    BY <1>1, <2>1 DEF Release, Docs
  <2>4. req' \in [Requests -> Request] /\ Engaged'
    BY <2>1, <2>3, GoToEngaged DEF Pc
  <2> QED BY <1>1, <1>e, <2>1, <2>2, <2>4, StepParts DEF Release
<1>2. CASE Decrement(r)
  <2>1. q.user \in Users
    BY <1>2, <1>0 DEF Decrement, At
  <2>2. event' \in EventType /\ event'.capacity = event.capacity
    BY <1>2, <1>e DEF Decrement, EventType
  <2>3. PICK W \in SUBSET Docs : GoTo(r, "pick", W) \/ Done(r, W)
    BY <1>2 DEF Decrement, Docs
  <2>4. req' \in [Requests -> Request] /\ Engaged'
    BY <2>1, <2>2, <2>3, GoToEngaged, DoneEngaged DEF Pc
  <2> QED BY <1>2, <2>2, <2>4, NoRowChangeType, StepParts DEF Decrement
<1>3. CASE Pick(r)
  <2>1. q.user \in Users /\ event' = event
    BY <1>3, <1>0 DEF Pick, At
  <2>2. CASE Done(r, {})
    <3>1. req' \in [Requests -> Request] /\ Engaged'
      BY <2>1, <2>2, DoneEngaged
    <3> QED BY <1>3, <1>e, <2>1, <3>1, NoRowChangeType, StepParts DEF Pick
  <2>3. ASSUME NEW u \in Oldest(Waitlisted),
               Go(r, [req[r] EXCEPT !.pc = "promote", !.next = u], {})
        PROVE  TypeInv'
    <3> DEFINE p == [req[r] EXCEPT !.pc = "promote", !.next = u]
    <3>1. u \in Users
      BY DEF Oldest, Waitlisted
    <3>2. p \in Request /\ p.pc = "promote" /\ p.user \in Users /\ p.next \in Users
      BY <1>0, <2>1, <3>1 DEF Request, Pc
    <3>3. Go(r, p, {})
      BY <2>3
    <3> HIDE DEF p
    <3>4. req' \in [Requests -> Request] /\ Engaged'
      BY <2>1, <3>2, <3>3, GoEngaged
    <3> QED BY <1>3, <1>e, <2>1, <3>4, NoRowChangeType, StepParts DEF Pick
  <2> QED BY <1>3, <2>2, <2>3 DEF Pick
<1>4. CASE Promote(r)
  <2>1. q.user \in Users /\ q.next \in Users /\ event' = event
    BY <1>4, <1>0 DEF Promote, At
  <2>2. rows' \in [Users -> RowOrNone] /\ rank' \in [Users -> Nat] /\ fresh' \subseteq Users
    BY <1>4, <2>1, SetRowType DEF Promote, RowStatus
  <2>3. req' \in [Requests -> Request] /\ Engaged'
    BY <1>4, <2>1, GoToEngaged DEF Promote, Docs, Pc
  <2> QED BY <1>4, <1>e, <2>1, <2>2, <2>3, StepParts DEF Promote
<1>5. CASE Recount(r)
  <2> DEFINE n == event.rsvpCount + 1
             w == event.waitlistCount - 1
  <2>a. n \in Nat /\ w \in Int
    BY <1>e DEF EventType
  <2>b. event' = [event EXCEPT !.rsvpCount = n, !.waitlistCount = w]
    BY <1>5 DEF Recount
  <2> HIDE DEF n, w
  <2>1. event' \in EventType /\ event'.capacity = event.capacity
    BY <2>a, <2>b, <1>e DEF EventType
  <2>2. req' \in [Requests -> Request] /\ Engaged'
    BY <1>5, <2>1, DoneEngaged DEF Recount, Docs
  <2> QED BY <1>5, <2>1, <2>2, NoRowChangeType, StepParts DEF Recount
<1> QED BY <1>1, <1>2, <1>3, <1>4, <1>5 DEF CancelStep

LEMMA CancelEventStepType ==
    ASSUME TypeInv, NEW r \in Requests, CancelEventStep(r)
    PROVE  TypeInv'
<1>0. req[r] \in Request /\ event \in EventType
  BY RequestType DEF TypeInv, TypeOK, EventType
<1>1. CASE Close(r)
  <2> DEFINE p == [req[r] EXCEPT !.pc = "sweep"]
  <2>1. event' \in EventType /\ event'.capacity = event.capacity
    BY <1>1, <1>0 DEF Close, EventType
  <2>2. p \in Request /\ p.pc = "sweep"
    BY <1>0 DEF Request, Pc
  <2>3. Go(r, p, {EventDoc})
    BY <1>1 DEF Close, GoTo
  <2> HIDE DEF p
  <2>4. req' \in [Requests -> Request] /\ Engaged'
    BY <2>1, <2>2, <2>3, GoEngaged DEF Docs
  <2> QED BY <1>1, <2>1, <2>4, NoRowChangeType, StepParts DEF Close
<1>2. CASE Sweep(r)
  <2> DEFINE swept == {u \in Users : rows[u] \in Attending}
  <2>1. rows' \in [Users -> RowOrNone] /\ rank' \in [Users -> Nat] /\ fresh' \subseteq Users
    BY <1>2 DEF Sweep, TypeInv, TypeOK, RowOrNone, RowStatus
  <2>2. swept \in SUBSET Docs /\ Done(r, swept) /\ event' = event
    BY <1>2 DEF Sweep, Docs
  <2>3. req' \in [Requests -> Request] /\ Engaged'
    BY <2>2, DoneEngaged
  <2> QED BY <1>2, <1>0, <2>1, <2>2, <2>3, StepParts DEF Sweep
<1> QED BY <1>1, <1>2 DEF CancelEventStep

LEMMA NextType == TypeInv /\ [Next]_vars => TypeInv'
<1> SUFFICES ASSUME TypeInv, [Next]_vars
             PROVE  TypeInv'
  OBVIOUS
<1>1. ASSUME NEW r \in Requests, Begin(r) \/ Step(r)
      PROVE  TypeInv'
  BY <1>1, BeginType, RsvpStepType, CancelStepType, CancelEventStepType DEF Step
<1>2. CASE UNCHANGED vars
  BY <1>2 DEF vars, TypeInv, TypeOK, Engaged
<1> QED BY <1>1, <1>2 DEF Next

\* In every reachable state the rows, the counters and the requests in
\* flight have their types, for any number of users and requests.
THEOREM TypeCorrect == Spec => []TypeOK
<1>1. Init => TypeInv
  BY InitType
<1>2. TypeInv /\ [Next]_vars => TypeInv'
  BY NextType
<1>3. TypeInv => TypeOK
  BY DEF TypeInv
<1> QED BY <1>1, <1>2, <1>3, PTL DEF Spec

-----------------------------------------------------------------------------
(* Seats handed out by the capacity transaction.                           *)

\* A transaction that is about to create a row with "going", and whose
\* write of the Event document will not conflict, still has a seat for it:
\* every other transaction that took one would have written that document.
SeatReserved ==
    \A r \in Requests :
        /\ req[r].pc = "commit" /\ req[r].seen = "none"
        /\ req[r].cand = "going" /\ EventDoc \notin req[r].missed
        => Cardinality(fresh) < event.capacity

FreshInv ==
    /\ TypeInv
    /\ fresh \subseteq Going
    /\ SeatReserved
    /\ FreshSeatsWithinCapacity

\* What all steps but Snapshot and CommitNew have in common: no fresh seat is
\* added, and no transaction is opened.
Shrinks(r) ==
    /\ event'.capacity = event.capacity
    /\ \A u \in fresh' : u \in fresh /\ rows'[u] = rows[u]
    /\ \E q \in Request, W \in SUBSET Docs : q.pc # "commit" /\ Go(r, q, W)

LEMMA FreshCardinality ==
    ASSUME TypeInv
    PROVE  IsFiniteSet(fresh) /\ Cardinality(fresh) \in Nat
BY UsersAssumption, FS_Subset, FS_CardinalityType DEF TypeInv, TypeOK

LEMMA LimitedCapacity ==
    ASSUME TypeInv, event.capacity # Unlimited
    PROVE  event.capacity \in Nat
BY CapacityAssumption DEF TypeInv, TypeOK

LEMMA ShrinksPreserves ==
    ASSUME FreshInv, TypeInv', NEW r \in Requests, Shrinks(r)
    PROVE  FreshInv'
<1>1. fresh' \subseteq Going'
  <2> SUFFICES ASSUME NEW u \in fresh' PROVE u \in Users /\ rows'[u] = "going"
    BY DEF Going
  <2> QED BY DEF Shrinks, FreshInv, Going
<1>2. /\ Cardinality(fresh) \in Nat /\ Cardinality(fresh') \in Nat
      /\ Cardinality(fresh') <= Cardinality(fresh)
  <2>1. IsFiniteSet(fresh) /\ Cardinality(fresh) \in Nat
    BY FreshCardinality DEF FreshInv
  <2>2. fresh' \in SUBSET fresh
    BY DEF Shrinks
  <2> QED BY <2>1, <2>2, FS_Subset, FS_CardinalityType
<1>3. PICK q \in Request, W \in SUBSET Docs : q.pc # "commit" /\ Go(r, q, W)
  BY DEF Shrinks
<1>4. /\ req'[r] = q
      /\ \A s \in Requests \ {r} : SameButMissed(req'[s], req[s])
  BY <1>3, GoEffect DEF FreshInv, TypeInv, TypeOK
<1>5. SeatReserved'
  <2> SUFFICES ASSUME NEW s \in Requests,
                      req'[s].pc = "commit", req'[s].seen = "none",
                      req'[s].cand = "going", EventDoc \notin req'[s].missed
               PROVE  Cardinality(fresh') < event'.capacity
    BY DEF SeatReserved
  <2>1. s # r /\ SameButMissed(req'[s], req[s])
    BY <1>3, <1>4
  <2>2. Cardinality(fresh) < event.capacity
    BY <2>1 DEF SameButMissed, FreshInv, SeatReserved
  <2>3. req[s].pc = "commit"
    BY <2>1 DEF SameButMissed
  <2>4. event.capacity \in Nat
    BY <2>3, LimitedCapacity DEF FreshInv, TypeInv, Engaged
  <2> QED BY <1>2, <2>2, <2>4 DEF Shrinks
<1>6. FreshSeatsWithinCapacity'
  <2> SUFFICES ASSUME event'.capacity # Unlimited
               PROVE  Cardinality(fresh') <= event'.capacity
    BY DEF FreshSeatsWithinCapacity
  <2>1. event'.capacity = event.capacity /\ event.capacity \in Nat
    BY LimitedCapacity DEF Shrinks, FreshInv
  <2> QED BY <1>2, <2>1 DEF FreshInv, FreshSeatsWithinCapacity
<1> QED BY <1>1, <1>5, <1>6 DEF FreshInv

LEMMA DoneShrinks ==
    ASSUME TypeInv, NEW r \in Requests, NEW W \in SUBSET Docs, Done(r, W),
           event'.capacity = event.capacity,
           \A u \in fresh' : u \in fresh /\ rows'[u] = rows[u]
    PROVE  Shrinks(r)
<1>1. NoRequest.pc # "commit" /\ Go(r, NoRequest, W)
  BY DEF NoRequest, Done
<1> QED BY <1>1, NoRequestType DEF Shrinks

LEMMA GoToShrinks ==
    ASSUME TypeInv, NEW r \in Requests, NEW W \in SUBSET Docs,
           NEW pc \in Pc \ {"commit"}, GoTo(r, pc, W),
           event'.capacity = event.capacity,
           \A u \in fresh' : u \in fresh /\ rows'[u] = rows[u]
    PROVE  Shrinks(r)
<1> DEFINE q == [req[r] EXCEPT !.pc = pc]
<1>1. req[r] \in Request
  BY RequestType
<1>2. q \in Request /\ q.pc # "commit"
  BY <1>1 DEF Request
<1>3. Go(r, q, W)
  BY DEF GoTo
<1> HIDE DEF q
<1> QED BY <1>2, <1>3 DEF Shrinks

LEMMA SetRowKeeps ==
    ASSUME TypeInv, NEW u \in Users, NEW status, SetRow(u, status)
    PROVE  \A v \in fresh' : v \in fresh /\ rows'[v] = rows[v]
BY DEF SetRow, TypeInv, TypeOK

LEMMA NoRowChangeKeeps ==
    ASSUME NoRowChange
    PROVE  \A v \in fresh' : v \in fresh /\ rows'[v] = rows[v]
BY DEF NoRowChange

LEMMA SendShrinks ==
    ASSUME NEW r \in Requests, NEW q \in Request, q.pc # "commit", Send(r, q)
    PROVE  Shrinks(r)
<1>1. {} \in SUBSET Docs /\ Go(r, q, {})
  BY DEF Send
<1> QED BY <1>1 DEF Send, Shrinks

LEMMA BeginShrinks ==
    ASSUME TypeInv, NEW r \in Requests, Begin(r)
    PROVE  Shrinks(r)
<1>1. ASSUME NEW u \in Users, NEW want \in Answer, BeginRsvp(r, u, want)
      PROVE  Shrinks(r)
  <2> DEFINE capped == want = "going" /\ event.capacity # Unlimited
             q == [NoRequest EXCEPT !.pc = IF capped THEN "snapshot" ELSE "find",
                                    !.user = u, !.want = want]
  <2>1. q \in Request /\ q.pc # "commit"
    BY NoRequestType DEF Request, Pc
  <2>2. Send(r, q)
    BY <1>1 DEF BeginRsvp
  <2> HIDE DEF q
  <2> QED BY <2>1, <2>2, SendShrinks
<1>2. ASSUME NEW u \in Users, BeginCancel(r, u)
      PROVE  Shrinks(r)
  <2> DEFINE q == [NoRequest EXCEPT !.pc = "release", !.user = u, !.seen = rows[u]]
  <2>1. q \in Request /\ q.pc # "commit"
    BY NoRequestType DEF Request, Pc, TypeInv, TypeOK
  <2>2. Send(r, q)
    BY <1>2 DEF BeginCancel
  <2> HIDE DEF q
  <2> QED BY <2>1, <2>2, SendShrinks
<1>3. ASSUME BeginCancelEvent(r)
      PROVE  Shrinks(r)
  <2> DEFINE q == [NoRequest EXCEPT !.pc = "close"]
  <2>1. q \in Request /\ q.pc # "commit"
    BY NoRequestType DEF Request, Pc
  <2>2. Send(r, q)
    BY <1>3 DEF BeginCancelEvent
  <2> HIDE DEF q
  <2> QED BY <2>1, <2>2, SendShrinks
<1> QED BY <1>1, <1>2, <1>3 DEF Begin

LEMMA RsvpStepShrinks ==
    ASSUME FreshInv, NEW r \in Requests, RsvpStep(r), ~ Snapshot(r), ~ CommitNew(r)
    PROVE  Shrinks(r)
<1> USE DEF FreshInv
<1> DEFINE q == req[r]
<1>0. /\ q \in Request
      /\ q.pc \notin {"idle", "close", "sweep"} => q.user \in Users
  BY RequestType
<1>1. CASE CommitExisting(r)
  <2>1. q.user \in Users /\ event' = event
    BY <1>1, <1>0 DEF CommitExisting, At
  <2>2. \A v \in fresh' : v \in fresh /\ rows'[v] = rows[v]
    BY <1>1, <2>1, SetRowKeeps, NoRowChangeKeeps DEF CommitExisting
  <2>3. PICK W \in SUBSET Docs : Done(r, W)
    BY <1>1, <2>1 DEF CommitExisting, Docs
  <2> QED BY <2>1, <2>2, <2>3, DoneShrinks
<1>2. CASE Retry(r)
  BY <1>2, GoToShrinks, NoRowChangeKeeps DEF Retry, Pc
<1>3. CASE DuplicateInTxn(r)
  BY <1>3, DoneShrinks, NoRowChangeKeeps DEF DuplicateInTxn
<1>4. CASE Find(r)
  <2> DEFINE p == [req[r] EXCEPT !.pc = "save", !.seen = rows[req[r].user]]
  <2>1. rows[q.user] \in RowOrNone
    BY <1>4, <1>0 DEF Find, At, TypeInv, TypeOK
  <2>2. p \in Request /\ p.pc # "commit"
    BY <1>0, <2>1 DEF Request, Pc
  <2>3. Go(r, p, {}) /\ event' = event /\ {} \in SUBSET Docs
    BY <1>4 DEF Find
  <2> HIDE DEF p
  <2> QED BY <1>4, <2>2, <2>3, NoRowChangeKeeps DEF Find, Shrinks
<1>5. CASE SaveExisting(r)
  <2>1. q.user \in Users /\ event' = event
    BY <1>5, <1>0 DEF SaveExisting, At
  <2>2. \A v \in fresh' : v \in fresh /\ rows'[v] = rows[v]
    BY <1>5, <2>1, SetRowKeeps, NoRowChangeKeeps DEF SaveExisting
  <2>3. PICK W \in SUBSET Docs : Done(r, W)
    BY <1>5, <2>1 DEF SaveExisting, Docs
  <2> QED BY <2>1, <2>2, <2>3, DoneShrinks
<1>6. CASE SaveNew(r)
  <2>1. q.user \in Users /\ event' = event
    BY <1>6, <1>0 DEF SaveNew, At
  <2>2. \A v \in fresh' : v \in fresh /\ rows'[v] = rows[v]
    BY <1>6, <2>1, NoRowChangeKeeps DEF SaveNew, CreateRow, TypeInv, TypeOK, Going
  <2>3. PICK W \in SUBSET Docs : GoTo(r, "bump", W) \/ Done(r, W)
    BY <1>6, <2>1 DEF SaveNew, Docs
  <2> QED BY <2>1, <2>2, <2>3, GoToShrinks, DoneShrinks DEF Pc
<1>7. CASE Bump(r)
  <2>1. event'.capacity = event.capacity
    BY <1>7 DEF Bump, TypeInv, TypeOK
  <2> QED BY <1>7, <2>1, DoneShrinks, NoRowChangeKeeps DEF Bump, Docs
<1> QED BY <1>1, <1>2, <1>3, <1>4, <1>5, <1>6, <1>7 DEF RsvpStep

LEMMA CancelStepShrinks ==
    ASSUME TypeInv, NEW r \in Requests, CancelStep(r) \/ CancelEventStep(r)
    PROVE  Shrinks(r)
<1> DEFINE q == req[r]
<1>0. /\ q \in Request
      /\ q.pc \notin {"idle", "close", "sweep"} => q.user \in Users
      /\ q.pc \in {"promote", "recount"} => q.next \in Users
  BY RequestType
<1>1. CASE Release(r)
  <2>1. q.user \in Users /\ event' = event
    BY <1>1, <1>0 DEF Release, At
  <2>2. \A v \in fresh' : v \in fresh /\ rows'[v] = rows[v]
    BY <1>1, <2>1, SetRowKeeps, NoRowChangeKeeps DEF Release
  <2>3. PICK W \in SUBSET Docs : GoTo(r, "decrement", W)
    BY <1>1, <2>1 DEF Release, Docs
  <2> QED BY <2>1, <2>2, <2>3, GoToShrinks DEF Pc
<1>2. CASE Decrement(r)
  <2>1. event'.capacity = event.capacity
    BY <1>2 DEF Decrement, TypeInv, TypeOK
  <2>2. PICK W \in SUBSET Docs : GoTo(r, "pick", W) \/ Done(r, W)
    BY <1>2 DEF Decrement, Docs
  <2>3. NoRowChange
    BY <1>2 DEF Decrement
  <2> QED BY <2>1, <2>2, <2>3, GoToShrinks, DoneShrinks, NoRowChangeKeeps DEF Pc
<1>3. CASE Pick(r)
  <2>1. q.user \in Users /\ event' = event /\ NoRowChange
    BY <1>3, <1>0 DEF Pick, At
  <2>2. CASE Done(r, {})
    BY <2>1, <2>2, DoneShrinks, NoRowChangeKeeps
  <2>3. ASSUME NEW u \in Oldest(Waitlisted),
               Go(r, [req[r] EXCEPT !.pc = "promote", !.next = u], {})
        PROVE  Shrinks(r)
    <3> DEFINE p == [req[r] EXCEPT !.pc = "promote", !.next = u]
    <3>1. u \in Users
      BY DEF Oldest, Waitlisted
    <3>2. p \in Request /\ p.pc # "commit"
      BY <1>0, <3>1 DEF Request, Pc
    <3>3. Go(r, p, {}) /\ {} \in SUBSET Docs
      BY <2>3
    <3> HIDE DEF p
    <3> QED BY <2>1, <3>2, <3>3, NoRowChangeKeeps DEF Shrinks
  <2> QED BY <1>3, <2>2, <2>3 DEF Pick
<1>4. CASE Promote(r)
  <2>1. q.next \in Users /\ event' = event
    BY <1>4, <1>0 DEF Promote, At
  <2>2. \A v \in fresh' : v \in fresh /\ rows'[v] = rows[v]
    BY <1>4, <2>1, SetRowKeeps DEF Promote
  <2>3. GoTo(r, "recount", {q.next}) /\ {q.next} \in SUBSET Docs
    BY <1>4, <2>1 DEF Promote, Docs
  <2> QED BY <2>1, <2>2, <2>3, GoToShrinks DEF Pc
<1>5. CASE Recount(r)
  <2>1. event'.capacity = event.capacity
    BY <1>5 DEF Recount, TypeInv, TypeOK
  <2> QED BY <1>5, <2>1, DoneShrinks, NoRowChangeKeeps DEF Recount, Docs
<1>6. CASE Close(r)
  <2> DEFINE p == [req[r] EXCEPT !.pc = "sweep"]
  <2>1. event'.capacity = event.capacity
    BY <1>6 DEF Close, TypeInv, TypeOK
  <2>2. GoTo(r, "sweep", {EventDoc}) /\ {EventDoc} \in SUBSET Docs
    BY <1>6 DEF Close, Docs
  <2> QED BY <1>6, <2>1, <2>2, GoToShrinks, NoRowChangeKeeps DEF Close, Pc
<1>7. CASE Sweep(r)
  <2> DEFINE swept == {u \in Users : rows[u] \in Attending}
  <2>1. \A v \in fresh' : v \in fresh /\ rows'[v] = rows[v]
    BY <1>7 DEF Sweep, TypeInv, TypeOK
  <2>2. Done(r, swept) /\ swept \in SUBSET Docs /\ event' = event
    BY <1>7 DEF Sweep, Docs
  <2> QED BY <2>1, <2>2, DoneShrinks
<1> QED BY <1>1, <1>2, <1>3, <1>4, <1>5, <1>6, <1>7 DEF CancelStep, CancelEventStep

\* The transaction reads how many members are going: at least the fresh ones.
LEMMA SnapshotPreserves ==
    ASSUME FreshInv, TypeInv', NEW r \in Requests, Snapshot(r)
    PROVE  FreshInv'
<1> DEFINE full == Cardinality(Going) >= event.capacity
           p == [req[r] EXCEPT !.pc = "commit", !.seen = rows[req[r].user],
                               !.cand = IF full THEN "waitlist" ELSE "going",
                               !.missed = {}]
<1>1. UNCHANGED <<event, rows, rank, fresh>>
  BY DEF Snapshot, NoRowChange
<1>2. req[r] \in Request /\ req[r].pc = "snapshot"
  BY RequestType DEF FreshInv, Snapshot, At
<1>3. event.capacity \in Nat
  BY <1>2, RequestType, LimitedCapacity DEF FreshInv
<1>4. /\ Cardinality(fresh) <= Cardinality(Going)
      /\ Cardinality(fresh) \in Nat /\ Cardinality(Going) \in Nat
  <2>1. IsFiniteSet(Going) /\ Cardinality(Going) \in Nat
    BY UsersAssumption, FS_Subset, FS_CardinalityType DEF Going
  <2>2. fresh \in SUBSET Going
    BY DEF FreshInv
  <2> QED BY <2>1, <2>2, FS_Subset, FreshCardinality DEF FreshInv
<1>5. p \in Request /\ p.cand = IF full THEN "waitlist" ELSE "going"
  <2>1. rows[req[r].user] \in RowOrNone
    BY <1>2, RequestType DEF FreshInv, TypeInv, TypeOK
  <2> QED BY <1>2, <2>1 DEF Request, Pc
<1>6. Go(r, p, {}) /\ {} \in SUBSET Docs
  BY DEF Snapshot
<1> HIDE DEF p
<1>7. /\ req'[r] = p
      /\ \A s \in Requests \ {r} : SameButMissed(req'[s], req[s])
  BY <1>5, <1>6, GoEffect DEF FreshInv, TypeInv, TypeOK
<1>8. SeatReserved'
  <2> SUFFICES ASSUME NEW s \in Requests,
                      req'[s].pc = "commit", req'[s].seen = "none",
                      req'[s].cand = "going", EventDoc \notin req'[s].missed
               PROVE  Cardinality(fresh') < event'.capacity
    BY DEF SeatReserved
  <2>1. CASE s = r
    <3>1. ~ full
      BY <1>5, <1>7, <2>1
    <3> QED BY <1>1, <1>3, <1>4, <3>1
  <2>2. CASE s # r
    BY <1>1, <1>7, <2>2 DEF SameButMissed, FreshInv, SeatReserved
  <2> QED BY <2>1, <2>2
<1> QED BY <1>1, <1>8 DEF FreshInv, FreshSeatsWithinCapacity, Going

\* A transaction that commits a new row writes the Event document: it had a
\* seat left, and no other open transaction keeps its reservation.
LEMMA CommitNewPreserves ==
    ASSUME FreshInv, TypeInv', NEW r \in Requests, CommitNew(r)
    PROVE  FreshInv'
<1> DEFINE q == req[r]
<1>1. /\ q \in Request /\ q.pc = "commit" /\ q.seen = "none" /\ q.user \in Users
      /\ q.cand \in {"going", "waitlist"} /\ EventDoc \notin q.missed
  BY RequestType DEF FreshInv, CommitNew, At
<1>2. event.capacity \in Nat /\ event'.capacity = event.capacity
  <2>1. event.capacity \in Nat
    BY <1>1, RequestType, LimitedCapacity DEF FreshInv
  <2>2. event'.capacity = event.capacity
    BY DEF CommitNew, BumpCreated, FreshInv, TypeInv, TypeOK
  <2> QED BY <2>1, <2>2
<1>3. fresh' = IF q.cand = "going" THEN fresh \cup {q.user} ELSE fresh \ {q.user}
  BY DEF CommitNew
<1>4. /\ IsFiniteSet(fresh) /\ Cardinality(fresh) \in Nat
      /\ Cardinality(fresh) <= event.capacity
  BY <1>1, RequestType, FreshCardinality DEF FreshInv, FreshSeatsWithinCapacity
<1>5. Cardinality(fresh') \in Nat /\ Cardinality(fresh') <= event.capacity
  <2>1. CASE q.cand = "going"
    <3>1. Cardinality(fresh) < event.capacity
      BY <1>1, <2>1 DEF FreshInv, SeatReserved
    <3>2. Cardinality(fresh \cup {q.user}) \in {Cardinality(fresh), Cardinality(fresh) + 1}
      BY <1>4, FS_AddElement
    <3> QED BY <1>2, <1>3, <1>4, <2>1, <3>1, <3>2
  <2>2. CASE q.cand # "going"
    <3>1. fresh' \subseteq fresh
      BY <1>3, <2>2
    <3>2. Cardinality(fresh') \in Nat /\ Cardinality(fresh') <= Cardinality(fresh)
      BY <1>4, <3>1, FS_Subset, FS_CardinalityType
    <3> QED BY <1>2, <1>4, <3>2
  <2> QED BY <2>1, <2>2
<1>6. fresh' \subseteq Going'
  <2> SUFFICES ASSUME NEW u \in fresh' PROVE u \in Users /\ rows'[u] = "going"
    BY DEF Going
  <2>1. rows' = [rows EXCEPT ![q.user] = q.cand]
    BY DEF CommitNew, CreateRow
  <2>2. CASE u = q.user
    BY <1>1, <1>3, <2>1, <2>2 DEF FreshInv, TypeInv, TypeOK
  <2>3. CASE u # q.user
    BY <1>1, <1>3, <2>1, <2>3 DEF FreshInv, Going, TypeInv, TypeOK
  <2> QED BY <2>2, <2>3
<1>7. SeatReserved'
  <2> DEFINE W == {q.user, EventDoc}
  <2>1. Go(r, NoRequest, W) /\ W \in SUBSET Docs
    BY <1>1 DEF CommitNew, Done, Docs
  <2>2. /\ req'[r] = NoRequest
        /\ \A s \in Requests \ {r} :
              /\ SameButMissed(req'[s], req[s])
              /\ req[s].pc = "commit" /\ EventDoc \in W => EventDoc \in req'[s].missed
    BY <2>1, NoRequestType, GoEffect DEF FreshInv, TypeInv, TypeOK
  <2>3. \A s \in Requests : req'[s].pc = "commit" => EventDoc \in req'[s].missed
    BY <2>2 DEF SameButMissed, NoRequest
  <2> QED BY <2>3 DEF SeatReserved
<1> QED BY <1>2, <1>5, <1>6, <1>7 DEF FreshInv, FreshSeatsWithinCapacity

LEMMA StepPreserves ==
    ASSUME FreshInv, [Next]_vars
    PROVE  FreshInv'
<1>1. TypeInv'
  BY NextType DEF FreshInv
<1>2. ASSUME NEW r \in Requests, Begin(r) \/ Step(r)
      PROVE  FreshInv'
  <2>1. CASE Snapshot(r)
    BY <1>1, <2>1, SnapshotPreserves
  <2>2. CASE CommitNew(r)
    BY <1>1, <2>2, CommitNewPreserves
  <2>3. CASE ~ Snapshot(r) /\ ~ CommitNew(r)
    <3>1. Shrinks(r)
      BY <1>2, <2>3, BeginShrinks, RsvpStepShrinks, CancelStepShrinks DEF Step, FreshInv
    <3> QED BY <1>1, <3>1, ShrinksPreserves
  <2> QED BY <2>1, <2>2, <2>3
<1>3. CASE UNCHANGED vars
  BY <1>1, <1>3 DEF vars, FreshInv, FreshSeatsWithinCapacity, SeatReserved, Going
<1> QED BY <1>2, <1>3 DEF Next

LEMMA InitFresh == Init => FreshInv
<1> SUFFICES ASSUME Init PROVE FreshInv
  OBVIOUS
<1>1. Cardinality(fresh) = 0 /\ fresh \subseteq Going
  BY FS_EmptySet DEF Init
<1>2. event.capacity # Unlimited => event.capacity \in Nat
  BY CapacityAssumption DEF Init
<1>3. SeatReserved
  BY DEF Init, SeatReserved, NoRequest
<1> QED BY <1>1, <1>2, <1>3, InitType DEF FreshInv, FreshSeatsWithinCapacity

\* First-time RSVPs through the capacity transaction never hand out more
\* seats than the event has, for any number of members and of overlapping
\* requests of every kind.
THEOREM FreshSeats == Spec => []FreshSeatsWithinCapacity
<1>1. Init => FreshInv
  BY InitFresh
<1>2. FreshInv /\ [Next]_vars => FreshInv'
  BY StepPreserves
<1>3. FreshInv => FreshSeatsWithinCapacity
  BY DEF FreshInv
<1> QED BY <1>1, <1>2, <1>3, PTL DEF Spec

-----------------------------------------------------------------------------
(* Refinement.                                                             *)

\* Seats given back: any step that keeps the capacity and adds no holder.
LEMMA ShrinkIsGiveBack ==
    ASSUME fresh' \subseteq fresh, event'.capacity = event.capacity
    PROVE  FreshBook!Next
<1>1. fresh' = fresh \ (fresh \ fresh') /\ fresh \ fresh' \in SUBSET fresh
  OBVIOUS
<1> QED BY <1>1 DEF FreshBook!Next, FreshBook!GiveBack

LEMMA StepRefines ==
    ASSUME FreshInv, [Next]_vars
    PROVE  [FreshBook!Next]_(FreshBook!seatVars)
<1>1. ASSUME NEW r \in Requests, Begin(r) \/ Step(r)
      PROVE  [FreshBook!Next]_(FreshBook!seatVars)
  <2>1. CASE Snapshot(r)
    BY <2>1 DEF Snapshot, NoRowChange, FreshBook!seatVars
  <2>2. CASE CommitNew(r)
    <3> DEFINE q == req[r]
    <3>1. /\ q.pc = "commit" /\ q.seen = "none" /\ q.user \in Users
          /\ EventDoc \notin q.missed
      BY <2>2, RequestType DEF FreshInv, CommitNew, At
    <3>2. event'.capacity = event.capacity
      BY <2>2 DEF CommitNew, BumpCreated, FreshInv, TypeInv, TypeOK
    <3>3. CASE q.cand = "going"
      <4>1. fresh' = fresh \cup {q.user}
        BY <2>2, <3>3 DEF CommitNew
      <4>2. Cardinality(fresh) < event.capacity
        BY <3>1, <3>3 DEF FreshInv, SeatReserved
      <4>3. FreshBook!Grant(q.user)
        <5>1. FreshBook!Cardinality(fresh) = Cardinality(fresh)
          BY DEF FreshBook!Cardinality, Cardinality
        <5> QED BY <4>1, <4>2, <5>1 DEF FreshBook!Grant, FreshBook!Free
      <4> QED BY <3>1, <3>2, <4>3 DEF FreshBook!Next
    <3>4. CASE q.cand # "going"
      <4>1. fresh' \subseteq fresh
        BY <2>2, <3>4 DEF CommitNew
      <4> QED BY <3>2, <4>1, ShrinkIsGiveBack
    <3> QED BY <3>3, <3>4
  <2>3. CASE ~ Snapshot(r) /\ ~ CommitNew(r)
    <3>1. Shrinks(r)
      BY <1>1, <2>3, BeginShrinks, RsvpStepShrinks, CancelStepShrinks DEF Step, FreshInv
    <3> QED BY <3>1, ShrinkIsGiveBack DEF Shrinks
  <2> QED BY <2>1, <2>2, <2>3
<1>2. CASE UNCHANGED vars
  BY <1>2 DEF vars, FreshBook!seatVars
<1> QED BY <1>1, <1>2 DEF Next

\* The capacity transaction implements Seats: however requests of members
\* overlap, a first-time RSVP takes a seat only while one is free.
THEOREM FreshSeatsRefine == Spec => FreshSeatsImplementSeats
<1>1. Init => FreshInv
  BY InitFresh
<1>2. Init => FreshBook!Init
  BY DEF Init, FreshBook!Init
<1>3. FreshInv /\ [Next]_vars => FreshInv'
  BY StepPreserves
<1>4. FreshInv /\ [Next]_vars => [FreshBook!Next]_(FreshBook!seatVars)
  BY StepRefines
<1> QED BY <1>1, <1>2, <1>3, <1>4, PTL DEF Spec, FreshSeatsImplementSeats, FreshBook!Spec

-----------------------------------------------------------------------------
(* Requests served one at a time.                                          *)

InTurn == \A r, s \in Requests : r = s

SeatFree(rs, ev) ==
    \/ ev.capacity = Unlimited
    \/ Cardinality({u \in Users : rs[u] = "going"}) < ev.capacity

NobodyAttends(rs) == \A u \in Users : rs[u] \notin Attending

\* What the handler that is at q has read still holds: the caller's row, the
\* free seat it gives away, the oldest waitlister.  When the event is
\* cancelled nobody attends it, or the sweep is next.
Knows(q, rs, rk, ev) ==
    /\ q.pc \in {"commit", "save", "release"} => q.seen = rs[q.user]
    /\ q.pc = "commit" /\ q.cand = "going" => SeatFree(rs, ev)
    /\ q.pc \in {"find", "save"} /\ q.want = "going" => ev.capacity = Unlimited
    /\ q.pc = "decrement" /\ q.seen = "going" => SeatFree(rs, ev)
    /\ q.pc \in {"pick", "promote"} => SeatFree(rs, ev)
    /\ q.pc = "promote" =>
          /\ rs[q.next] = "waitlist"
          /\ \A v \in Users : rs[v] = "waitlist" => rk[q.next] <= rk[v]
    /\ ev.status = "cancelled" /\ q.pc # "sweep" =>
          /\ NobodyAttends(rs)
          /\ q.pc \in {"idle", "release", "decrement"}
          /\ q.pc = "decrement" => q.seen # "going"

TurnInv ==
    /\ TypeInv
    /\ CapacityRespected
    /\ \A r \in Requests : Knows(req[r], rows, rank, event)

\* A step gives seats back, or hands out one that is free.
SeatMove ==
    /\ event'.capacity = event.capacity
    /\ \/ Going' \subseteq Going
       \/ SeatFree(rows, event) /\ \E u \in Users : Going' = Going \cup {u}

\* The one request there is goes on as q.
LEMMA TurnOf ==
    ASSUME InTurn, NEW r \in Requests, NEW q, NEW W, Go(r, q, W),
           Knows(q, rows', rank', event')
    PROVE  \A s \in Requests : Knows(req'[s], rows', rank', event')
<1>1. \A s \in Requests : req'[s] = q
  BY DEF InTurn, Go
<1> QED BY <1>1

LEMMA IdleKnows ==
    ASSUME NEW rs, NEW rk, NEW ev, ev.status = "cancelled" => NobodyAttends(rs)
    PROVE  Knows(NoRequest, rs, rk, ev)
BY DEF Knows, NoRequest

LEMMA RowMoves ==
    ASSUME TypeInv, NEW u \in Users, NEW status,
           rows' = [rows EXCEPT ![u] = status],
           event'.capacity = event.capacity,
           status = "going" => SeatFree(rows, event)
    PROVE  /\ SeatMove
           /\ rows'[u] = status
           /\ \A v \in Users : v # u => rows'[v] = rows[v]
<1>1. rows'[u] = status /\ \A v \in Users : v # u => rows'[v] = rows[v]
  BY DEF TypeInv, TypeOK
<1>2. CASE status = "going"
  <2>1. Going' = Going \cup {u}
    BY <1>1, <1>2 DEF Going
  <2> QED BY <1>1, <1>2, <2>1 DEF SeatMove
<1>3. CASE status # "going"
  <2>1. Going' \subseteq Going
    BY <1>1, <1>3 DEF Going
  <2> QED BY <1>1, <2>1 DEF SeatMove
<1> QED BY <1>2, <1>3

LEMMA RowsRest ==
    ASSUME rows' = rows, event'.capacity = event.capacity
    PROVE  SeatMove /\ (SeatFree(rows, event) => SeatFree(rows', event'))
BY DEF SeatMove, Going, SeatFree

LEMMA GoingFinite ==
    IsFiniteSet(Going) /\ Cardinality(Going) \in Nat
BY UsersAssumption, FS_Subset, FS_CardinalityType DEF Going

\* A seat that is given up is free.
LEMMA SeatGivenUp ==
    ASSUME TypeInv, CapacityRespected, NEW u \in Users, rows[u] = "going",
           rows' = [rows EXCEPT ![u] = "cancelled"], event' = event
    PROVE  SeatFree(rows', event')
<1>1. CASE event.capacity = Unlimited
  BY <1>1 DEF SeatFree
<1>2. CASE event.capacity # Unlimited
  <2>1. event.capacity \in Nat /\ Cardinality(Going) <= event.capacity
    BY <1>2, LimitedCapacity DEF CapacityRespected
  <2>2. {v \in Users : rows'[v] = "going"} = Going \ {u} /\ u \in Going
    BY DEF TypeInv, TypeOK, Going
  <2>3. Cardinality(Going \ {u}) = Cardinality(Going) - 1
    BY <2>2, GoingFinite, FS_RemoveElement
  <2>4. Cardinality(Going \ {u}) < event'.capacity
    BY <2>1, <2>3, GoingFinite
  <2> QED BY <2>2, <2>4 DEF SeatFree
<1> QED BY <1>1, <1>2

LEMMA SeatsRespected ==
    ASSUME TypeInv, CapacityRespected, SeatMove
    PROVE  CapacityRespected'
<1> SUFFICES ASSUME event.capacity # Unlimited
             PROVE  Cardinality(Going') <= event.capacity
  BY DEF CapacityRespected, SeatMove
<1>1. event.capacity \in Nat /\ Cardinality(Going) <= event.capacity
  BY LimitedCapacity DEF CapacityRespected
<1>2. CASE Going' \subseteq Going
  <2>1. Cardinality(Going') \in Nat /\ Cardinality(Going') <= Cardinality(Going)
    BY <1>2, GoingFinite, FS_Subset, FS_CardinalityType
  <2> QED BY <1>1, <2>1, GoingFinite
<1>3. ASSUME SeatFree(rows, event), NEW u \in Users, Going' = Going \cup {u}
      PROVE  Cardinality(Going') <= event.capacity
  <2>1. Cardinality(Going) < event.capacity
    BY <1>3 DEF SeatFree, Going
  <2>2. Cardinality(Going \cup {u}) \in {Cardinality(Going), Cardinality(Going) + 1}
    BY GoingFinite, FS_AddElement
  <2> QED BY <1>1, <1>3, <2>1, <2>2, GoingFinite
<1> QED BY <1>2, <1>3 DEF SeatMove

\* What a step leaves to be shown.
TurnStep == SeatMove /\ \A s \in Requests : Knows(req'[s], rows', rank', event')

LEMMA TurnHeld ==
    ASSUME TurnInv, NEW r \in Requests
    PROVE  /\ TypeInv /\ Knows(req[r], rows, rank, event)
           /\ req[r] \in Request
           /\ req[r].pc \notin {"idle", "close", "sweep"} => req[r].user \in Users
           /\ req[r].pc \in {"promote", "recount"} => req[r].next \in Users
           /\ req[r].cand \in {"going", "waitlist"} /\ req[r].want \in Answer
           /\ req[r].pc \notin {"idle", "release", "decrement", "sweep"} =>
                 event.status # "cancelled"
BY RequestType DEF TurnInv, Knows

\* A handler that ends, or goes on to a step that relies on nothing.
LEMMA DoneTurn ==
    ASSUME InTurn, NEW r \in Requests, NEW W, Done(r, W), SeatMove,
           event'.status = "cancelled" => NobodyAttends(rows')
    PROVE  TurnStep
BY IdleKnows, TurnOf DEF Done, TurnStep

LEMMA GoToTurn ==
    ASSUME InTurn, TurnInv, NEW r \in Requests, NEW pc, NEW W, GoTo(r, pc, W), SeatMove,
           pc \in {"snapshot", "bump", "recount", "sweep"},
           event'.status = "cancelled" => pc = "sweep"
    PROVE  TurnStep
<1> DEFINE q == [req[r] EXCEPT !.pc = pc]
<1>1. q.pc = pc
  BY TurnHeld DEF Request
<1>2. Go(r, q, W)
  BY DEF GoTo
<1> HIDE DEF q
<1>3. Knows(q, rows', rank', event')
  BY <1>1 DEF Knows
<1> QED BY <1>2, <1>3, TurnOf DEF TurnStep

LEMMA BeginTurn ==
    ASSUME InTurn, TurnInv, NEW r \in Requests, Begin(r)
    PROVE  TurnStep
<1>1. ASSUME NEW u \in Users, NEW want \in Answer, BeginRsvp(r, u, want)
      PROVE  TurnStep
  <2> DEFINE capped == want = "going" /\ event.capacity # Unlimited
             q == [NoRequest EXCEPT !.pc = IF capped THEN "snapshot" ELSE "find",
                                    !.user = u, !.want = want]
  <2>1. /\ q.pc \in {"snapshot", "find"} /\ q.want = want
        /\ q.pc = "find" /\ want = "going" => event.capacity = Unlimited
    BY DEF NoRequest
  <2>2. Go(r, q, {}) /\ UNCHANGED <<event, rows>> /\ event.status = "published"
    BY <1>1 DEF BeginRsvp, Send
  <2> HIDE DEF q
  <2>3. Knows(q, rows', rank', event')
    BY <2>1, <2>2 DEF Knows
  <2> QED BY <2>2, <2>3, RowsRest, TurnOf DEF TurnStep
<1>2. ASSUME NEW u \in Users, BeginCancel(r, u)
      PROVE  TurnStep
  <2> DEFINE q == [NoRequest EXCEPT !.pc = "release", !.user = u, !.seen = rows[u]]
  <2>1. q.pc = "release" /\ q.user = u /\ q.seen = rows[u]
    BY DEF NoRequest
  <2>2. Go(r, q, {}) /\ UNCHANGED <<event, rows>> /\ req[r].pc = "idle"
    BY <1>2 DEF BeginCancel, Send
  <2> HIDE DEF q
  <2>3. event.status = "cancelled" => NobodyAttends(rows)
    BY <2>2, TurnHeld DEF Knows
  <2>4. Knows(q, rows', rank', event')
    BY <2>1, <2>2, <2>3 DEF Knows
  <2> QED BY <2>2, <2>4, RowsRest, TurnOf DEF TurnStep
<1>3. ASSUME BeginCancelEvent(r)
      PROVE  TurnStep
  <2> DEFINE q == [NoRequest EXCEPT !.pc = "close"]
  <2>1. q.pc = "close"
    BY DEF NoRequest
  <2>2. Go(r, q, {}) /\ UNCHANGED <<event, rows>> /\ event.status # "cancelled"
    BY <1>3 DEF BeginCancelEvent, Send
  <2> HIDE DEF q
  <2>3. Knows(q, rows', rank', event')
    BY <2>1, <2>2 DEF Knows
  <2> QED BY <2>2, <2>3, RowsRest, TurnOf DEF TurnStep
<1> QED BY <1>1, <1>2, <1>3 DEF Begin

\* The transaction: what it read is what there is when it commits.
LEMMA TransactionTurn ==
    ASSUME InTurn, TurnInv, NEW r \in Requests,
           \/ Snapshot(r) \/ CommitExisting(r) \/ CommitNew(r) \/ Retry(r)
           \/ DuplicateInTxn(r)
    PROVE  TurnStep
<1> DEFINE p == req[r]
<1>0. /\ TypeInv /\ Knows(p, rows, rank, event) /\ p \in Request
      /\ p.user \in Users /\ p.cand \in {"going", "waitlist"}
      /\ event.status # "cancelled"
  BY TurnHeld DEF Snapshot, CommitExisting, CommitNew, Retry, DuplicateInTxn, At
<1>1. CASE Snapshot(r)
  <2> DEFINE full == Cardinality(Going) >= event.capacity
             cand == IF full THEN "waitlist" ELSE "going"
             q == [p EXCEPT !.pc = "commit", !.seen = rows[p.user], !.cand = cand,
                            !.missed = {}]
  <2>1. Go(r, q, {}) /\ UNCHANGED <<event, rows>>
    BY <1>1 DEF Snapshot, NoRowChange
  <2>2. q.pc = "commit" /\ q.user = p.user /\ q.seen = rows[p.user] /\ q.cand = cand
    BY <1>0 DEF Request
  <2> HIDE DEF q
  <2>3. event.capacity # Unlimited /\ event.capacity \in Nat
    BY <1>0, <1>1, RequestType, LimitedCapacity DEF Snapshot, At
  <2>4. cand = "going" => SeatFree(rows, event)
    BY <2>3, GoingFinite DEF SeatFree, Going
  <2>5. Knows(q, rows', rank', event')
    BY <1>0, <2>1, <2>2, <2>4 DEF Knows
  <2> QED BY <2>1, <2>5, RowsRest, TurnOf DEF TurnStep
<1>2. CASE CommitExisting(r)
  <2>1. p.cand = "going" => SeatFree(rows, event)
    BY <1>0, <1>2 DEF Knows, CommitExisting, At
  <2>2. CASE NoRowChange
    BY <1>0, <1>2, <2>2, RowsRest, DoneTurn DEF NoRowChange, CommitExisting
  <2>3. CASE SetRow(p.user, p.cand)
    <3>1. SeatMove
      BY <1>0, <1>2, <2>1, <2>3, RowMoves DEF SetRow, CommitExisting
    <3> QED BY <1>0, <1>2, <3>1, DoneTurn DEF CommitExisting
  <2> QED BY <1>2, <2>2, <2>3 DEF CommitExisting
<1>3. CASE CommitNew(r)
  <2>1. p.cand = "going" => SeatFree(rows, event)
    BY <1>0, <1>3 DEF Knows, CommitNew, At
  <2>2. event'.capacity = event.capacity /\ event'.status = event.status
    BY <1>0, <1>3 DEF CommitNew, BumpCreated, TypeInv, TypeOK
  <2>3. SeatMove
    BY <1>0, <1>3, <2>1, <2>2, RowMoves DEF CreateRow, CommitNew
  <2> QED BY <1>0, <1>3, <2>2, <2>3, DoneTurn DEF CommitNew
<1>4. CASE Retry(r)
  BY <1>0, <1>4, RowsRest, GoToTurn DEF Retry, NoRowChange
<1>5. CASE DuplicateInTxn(r)
  BY <1>0, <1>5, RowsRest, DoneTurn DEF DuplicateInTxn, NoRowChange
<1> QED BY <1>1, <1>2, <1>3, <1>4, <1>5

\* Without the transaction nobody is turned away: the event has no limit, or
\* no seat is asked for.
LEMMA AnswerTurn ==
    ASSUME InTurn, TurnInv, NEW r \in Requests,
           Find(r) \/ SaveExisting(r) \/ SaveNew(r) \/ Bump(r)
    PROVE  TurnStep
<1> DEFINE p == req[r]
<1>0. /\ TypeInv /\ Knows(p, rows, rank, event) /\ p \in Request
      /\ p.user \in Users /\ event.status # "cancelled"
  BY TurnHeld DEF Find, SaveExisting, SaveNew, Bump, At
<1>1. p.pc \in {"find", "save"} /\ p.want = "going" => event.capacity = Unlimited
  BY <1>0 DEF Knows
<1>2. CASE Find(r)
  <2> DEFINE q == [p EXCEPT !.pc = "save", !.seen = rows[p.user]]
  <2>1. Go(r, q, {}) /\ UNCHANGED <<event, rows>> /\ p.pc = "find"
    BY <1>2 DEF Find, NoRowChange, At
  <2>2. q.pc = "save" /\ q.user = p.user /\ q.seen = rows[p.user] /\ q.want = p.want
    BY <1>0 DEF Request
  <2> HIDE DEF q
  <2>3. Knows(q, rows', rank', event')
    BY <1>0, <1>1, <2>1, <2>2 DEF Knows
  <2> QED BY <2>1, <2>3, RowsRest, TurnOf DEF TurnStep
<1>3. CASE SaveExisting(r) \/ SaveNew(r)
  <2>1. p.want = "going" => SeatFree(rows, event)
    BY <1>1, <1>3 DEF SaveExisting, SaveNew, At, SeatFree
  <2>2. /\ UNCHANGED event
        /\ UNCHANGED rows \/ rows' = [rows EXCEPT ![p.user] = p.want]
    BY <1>3 DEF SaveExisting, SaveNew, NoRowChange, SetRow, CreateRow
  <2>3. SeatMove
    BY <1>0, <2>1, <2>2, RowsRest, RowMoves
  <2>4. \E W : Done(r, W) \/ GoTo(r, "bump", W)
    BY <1>3 DEF SaveExisting, SaveNew
  <2> QED BY <1>0, <2>2, <2>3, <2>4, DoneTurn, GoToTurn
<1>4. CASE Bump(r)
  <2>1. event'.capacity = event.capacity /\ event'.status = event.status
    BY <1>0, <1>4 DEF Bump, TypeInv, TypeOK
  <2> QED BY <1>0, <1>4, <2>1, RowsRest, DoneTurn DEF Bump, NoRowChange
<1> QED BY <1>2, <1>3, <1>4

\* A seat that is given up goes to the member who has waited longest.
LEMMA ReleaseTurn ==
    ASSUME InTurn, TurnInv, NEW r \in Requests, Release(r)
    PROVE  TurnStep
<1> DEFINE p == req[r]
           q == [p EXCEPT !.pc = "decrement"]
<1>1. /\ TypeInv /\ Knows(p, rows, rank, event) /\ p \in Request
      /\ p.user \in Users /\ p.pc = "release" /\ UNCHANGED event /\ CapacityRespected
  BY TurnHeld DEF Release, At, TurnInv
<1>2. p.seen = rows[p.user]
  BY <1>1 DEF Knows
<1>3. event.status = "cancelled" => NobodyAttends(rows) /\ p.seen # "going"
  BY <1>1, <1>2 DEF Knows, NobodyAttends, Attending
<1>4. q.pc = "decrement" /\ q.seen = p.seen
  BY <1>1 DEF Request
<1>5. \E W : Go(r, q, W)
  BY DEF Release, GoTo
<1> HIDE DEF q
<1>6. CASE NoRowChange
  <2>1. p.seen # "going"
    BY <1>1, <1>2, <1>6 DEF Release, NoRowChange, SetRow, TypeInv, TypeOK
  <2>2. Knows(q, rows', rank', event')
    BY <1>1, <1>3, <1>4, <1>6, <2>1 DEF Knows, NoRowChange
  <2> QED BY <1>1, <1>5, <1>6, <2>2, RowsRest, TurnOf DEF TurnStep, NoRowChange
<1>7. CASE SetRow(p.user, "cancelled")
  <2>1. rows' = [rows EXCEPT ![p.user] = "cancelled"]
    BY <1>7 DEF SetRow
  <2>2. /\ SeatMove /\ rows'[p.user] = "cancelled"
        /\ \A v \in Users : v # p.user => rows'[v] = rows[v]
    BY <1>1, <2>1, RowMoves
  <2>3. q.seen = "going" => SeatFree(rows', event')
    BY <1>1, <1>2, <1>4, <2>1, SeatGivenUp
  <2>4. event'.status = "cancelled" => NobodyAttends(rows') /\ q.seen # "going"
    BY <1>1, <1>3, <1>4, <2>2 DEF NobodyAttends, Attending
  <2>5. Knows(q, rows', rank', event')
    BY <1>4, <2>3, <2>4 DEF Knows
  <2> QED BY <1>5, <2>2, <2>5, TurnOf DEF TurnStep
<1> QED BY <1>6, <1>7 DEF Release

LEMMA PromotionTurn ==
    ASSUME InTurn, TurnInv, NEW r \in Requests,
           Decrement(r) \/ Pick(r) \/ Promote(r) \/ Recount(r)
    PROVE  TurnStep
<1> DEFINE p == req[r]
<1>0. /\ TypeInv /\ Knows(p, rows, rank, event) /\ p \in Request
  BY TurnHeld
<1>1. CASE Decrement(r)
  <2>1. /\ event'.capacity = event.capacity /\ event'.status = event.status
        /\ rows' = rows /\ p.pc = "decrement"
    BY <1>0, <1>1 DEF Decrement, NoRowChange, At, TypeInv, TypeOK
  <2>2. event.status = "cancelled" => NobodyAttends(rows) /\ p.seen # "going"
    BY <1>0, <2>1 DEF Knows
  <2>3. CASE p.seen = "going"
    <3> DEFINE q == [p EXCEPT !.pc = "pick"]
    <3>1. q.pc = "pick"
      BY <1>0 DEF Request
    <3>2. \E W : Go(r, q, W)
      BY <1>1, <2>3 DEF Decrement, GoTo
    <3> HIDE DEF q
    <3>3. SeatFree(rows', event')
      BY <1>0, <2>1, <2>3, RowsRest DEF Knows
    <3>4. Knows(q, rows', rank', event')
      BY <2>1, <2>2, <2>3, <3>1, <3>3 DEF Knows
    <3> QED BY <2>1, <3>2, <3>4, RowsRest, TurnOf DEF TurnStep
  <2>4. CASE p.seen # "going"
    BY <1>1, <2>1, <2>2, <2>4, RowsRest, DoneTurn DEF Decrement
  <2> QED BY <2>3, <2>4
<1>2. CASE Pick(r)
  <2>1. /\ UNCHANGED <<event, rows, rank>> /\ p.pc = "pick" /\ SeatFree(rows, event)
        /\ event.status # "cancelled"
    BY <1>0, <1>2, TurnHeld DEF Pick, NoRowChange, At, Knows
  <2>2. CASE Done(r, {})
    BY <2>1, <2>2, RowsRest, DoneTurn
  <2>3. ASSUME NEW u \in Oldest(Waitlisted),
               Go(r, [p EXCEPT !.pc = "promote", !.next = u], {})
        PROVE  TurnStep
    <3> DEFINE q == [p EXCEPT !.pc = "promote", !.next = u]
    <3>1. q.pc = "promote" /\ q.next = u
      BY <1>0 DEF Request
    <3>2. Go(r, q, {})
      BY <2>3
    <3> HIDE DEF q
    <3>3. rows[u] = "waitlist" /\ \A v \in Users : rows[v] = "waitlist" => rank[u] <= rank[v]
      BY DEF Oldest, Waitlisted
    <3>4. Knows(q, rows', rank', event')
      BY <2>1, <3>1, <3>3 DEF Knows
    <3> QED BY <2>1, <3>2, <3>4, RowsRest, TurnOf DEF TurnStep
  <2> QED BY <1>2, <2>2, <2>3 DEF Pick
<1>3. CASE Promote(r)
  <2>1. /\ p.pc = "promote" /\ UNCHANGED event /\ SeatFree(rows, event)
        /\ event.status # "cancelled" /\ p.next \in Users
    BY <1>0, <1>3, TurnHeld DEF Promote, At, Knows
  <2>2. SeatMove
    BY <1>0, <1>3, <2>1, RowMoves DEF Promote, SetRow
  <2> QED BY <1>3, <2>1, <2>2, GoToTurn DEF Promote
<1>4. CASE Recount(r)
  <2>1. event'.capacity = event.capacity /\ event'.status = event.status
        /\ event.status # "cancelled"
    BY <1>0, <1>4, TurnHeld DEF Recount, At, TypeInv, TypeOK
  <2> QED BY <1>4, <2>1, RowsRest, DoneTurn DEF Recount, NoRowChange
<1> QED BY <1>1, <1>2, <1>3, <1>4

LEMMA CloseTurn ==
    ASSUME InTurn, TurnInv, NEW r \in Requests, CancelEventStep(r)
    PROVE  TurnStep
<1>1. CASE Close(r)
  <2>1. event'.capacity = event.capacity
    BY <1>1 DEF Close, TurnInv, TypeInv, TypeOK
  <2> QED BY <1>1, <2>1, RowsRest, GoToTurn DEF Close, NoRowChange
<1>2. CASE Sweep(r)
  <2>1. \A u \in Users : rows'[u] = IF rows[u] \in Attending THEN "cancelled" ELSE rows[u]
    BY <1>2 DEF Sweep
  <2>2. NobodyAttends(rows')
    BY <2>1 DEF NobodyAttends, Attending
  <2>3. Going' \subseteq Going /\ UNCHANGED event
    BY <1>2, <2>1 DEF Going, Sweep
  <2>4. SeatMove
    BY <2>3 DEF SeatMove
  <2> QED BY <1>2, <2>2, <2>4, DoneTurn DEF Sweep
<1> QED BY <1>1, <1>2 DEF CancelEventStep

LEMMA NextTurn ==
    ASSUME InTurn, TurnInv, [Next]_vars
    PROVE  TurnInv' /\ (SeatMove \/ UNCHANGED vars)
<1>1. TypeInv'
  BY NextType DEF TurnInv
<1>2. CASE UNCHANGED vars
  BY <1>1, <1>2 DEF vars, TurnInv, CapacityRespected, Going
<1>3. ASSUME NEW r \in Requests, Begin(r) \/ Step(r)
      PROVE  TurnInv' /\ SeatMove
  <2>1. TurnStep
    BY <1>3, BeginTurn, TransactionTurn, AnswerTurn, ReleaseTurn, PromotionTurn, CloseTurn
       DEF Step, RsvpStep, CancelStep
  <2>2. CapacityRespected'
    BY <2>1, SeatsRespected DEF TurnStep, TurnInv
  <2> QED BY <1>1, <2>1, <2>2 DEF TurnStep, TurnInv
<1> QED BY <1>2, <1>3 DEF Next

LEMMA InitTurn == Init => TurnInv
<1> SUFFICES ASSUME Init PROVE TurnInv
  OBVIOUS
<1>1. Going = {} /\ TypeInv
  BY InitType DEF Init, Going
<1>2. CapacityRespected
  <2> SUFFICES ASSUME event.capacity # Unlimited
               PROVE  Cardinality(Going) <= event.capacity
    BY DEF CapacityRespected
  <2>1. event.capacity \in Nat /\ Cardinality(Going) = 0
    BY <1>1, LimitedCapacity, FS_EmptySet
  <2> QED BY <2>1
<1>3. event.status # "cancelled" /\ \A r \in Requests : req[r] = NoRequest
  BY DEF Init
<1>4. \A r \in Requests : Knows(req[r], rows, rank, event)
  BY <1>3, IdleKnows
<1> QED BY <1>1, <1>2, <1>4 DEF TurnInv

LEMMA TurnInvariance ==
    ASSUME InTurn
    PROVE  Spec => []TurnInv
<1>1. TurnInv /\ [Next]_vars => TurnInv'
  BY NextTurn
<1> QED BY <1>1, InitTurn, PTL DEF Spec

\* While requests do not overlap, no more members are going than the event
\* has seats ("capacity: Max attendees", prds/08-event-system.md:54), on every
\* path of rsvp() and with every promotion.
THEOREM SeatsWithinCapacity ==
    ASSUME InTurn
    PROVE  Spec => []CapacityRespected
<1>1. TurnInv => CapacityRespected
  BY DEF TurnInv
<1> QED BY <1>1, TurnInvariance, PTL

\* While requests do not overlap, a cancelled event keeps no going, maybe or
\* waitlisted row (cancelEvent() of event.service.ts): no answer comes after
\* the sweep, and a cancellation of a row promotes nobody any more.
THEOREM CancelledEventsEmpty ==
    ASSUME InTurn
    PROVE  Spec => []CancelledEventIsEmpty
<1>1. CASE Requests = {}
  <2>1. Init => event.status = "published"
    BY DEF Init
  <2>2. event.status = "published" /\ [Next]_vars => (event.status = "published")'
    BY <1>1 DEF Next, vars
  <2>3. event.status = "published" => CancelledEventIsEmpty
    BY DEF CancelledEventIsEmpty
  <2> QED BY <2>1, <2>2, <2>3, PTL DEF Spec
<1>2. CASE Requests # {}
  <2>1. TurnInv => CancelledEventIsEmpty
    BY <1>2 DEF TurnInv, Knows, CancelledEventIsEmpty, Quiet, NobodyAttends
  <2> QED BY <2>1, TurnInvariance, PTL
<1> QED BY <1>1, <1>2

\* While requests do not overlap, a member promoted by another's cancellation
\* has waited longest (event.service.ts:318).
THEOREM OldestPromoted ==
    ASSUME InTurn
    PROVE  Spec => PromotesOldest
<1>1. ASSUME TurnInv, [Next]_vars
      PROVE  [\A u \in Waitlisted :
                 rows'[u] = "going" /\ (\A r \in Requests : req[r].user # u) =>
                     \A v \in Waitlisted : rank[u] <= rank[v]]_vars
  <2> SUFFICES ASSUME NEW r \in Requests, Begin(r) \/ Step(r),
                      NEW u \in Waitlisted, rows'[u] = "going", req[r].user # u
               PROVE  \A v \in Waitlisted : rank[u] <= rank[v]
    BY <1>1 DEF Next
  <2>1. u \in Users /\ rows[u] = "waitlist"
    BY DEF Waitlisted
  <2>2. CASE Promote(r)
    <3>1. /\ Knows(req[r], rows, rank, event) /\ req[r].pc = "promote"
          /\ req[r].next \in Users
      BY <1>1, <2>2, TurnHeld DEF Promote, At
    <3>2. u = req[r].next
      BY <1>1, <2>1, <2>2, <3>1 DEF Promote, SetRow, TurnInv, TypeInv, TypeOK
    <3> QED BY <3>1, <3>2 DEF Knows, Waitlisted
  <2>3. CASE Sweep(r)
    BY <2>1, <2>3 DEF Sweep, Attending
  <2>4. CASE ~ Promote(r) /\ ~ Sweep(r)
    <3>1. \/ rows' = rows
          \/ \E status : rows' = [rows EXCEPT ![req[r].user] = status]
      BY <2>4 DEF Begin, BeginRsvp, BeginCancel, BeginCancelEvent, Send, Step, RsvpStep,
                  CancelStep, CancelEventStep, Snapshot, CommitExisting, CommitNew, Retry,
                  DuplicateInTxn, Find, SaveExisting, SaveNew, Bump, Release, Decrement,
                  Pick, Recount, Close, NoRowChange, SetRow, CreateRow
    <3>2. rows'[u] = rows[u]
      BY <1>1, <2>1, <3>1 DEF TurnInv, TypeInv, TypeOK
    <3> QED BY <2>1, <3>2
  <2> QED BY <2>2, <2>3, <2>4
<1> QED BY <1>1, TurnInvariance, PTL DEF Spec, PromotesOldest

\* While requests do not overlap, all the members going together implement
\* Seats: an answer and a promotion only ever fill a seat that is free.
THEOREM GoingSeatsRefine ==
    ASSUME InTurn
    PROVE  Spec => GoingImplementsSeats
<1>1. Init => GoingBook!Init
  BY DEF Init, GoingBook!Init, Going
<1>2. ASSUME TurnInv, [Next]_vars
      PROVE  [GoingBook!Next]_(GoingBook!seatVars)
  <2>1. CASE UNCHANGED vars
    BY <2>1 DEF vars, GoingBook!seatVars, Going
  <2>2. CASE SeatMove
    <3>1. CASE Going' \subseteq Going
      <4>1. Going' = Going \ (Going \ Going') /\ Going \ Going' \in SUBSET Going
        BY <3>1
      <4> QED BY <2>2, <4>1 DEF SeatMove, GoingBook!Next, GoingBook!GiveBack
    <3>2. ASSUME SeatFree(rows, event), NEW u \in Users, Going' = Going \cup {u}
          PROVE  GoingBook!Next
      <4>1. GoingBook!Cardinality(Going) = Cardinality(Going)
        BY DEF GoingBook!Cardinality, Cardinality
      <4>2. GoingBook!Free
        BY <3>2, <4>1 DEF GoingBook!Free, SeatFree, Going
      <4> QED BY <2>2, <3>2, <4>2 DEF SeatMove, GoingBook!Next, GoingBook!Grant
    <3> QED BY <2>2, <3>1, <3>2 DEF SeatMove
  <2> QED BY <1>2, <2>1, <2>2, NextTurn
<1> QED BY <1>1, <1>2, TurnInvariance, PTL
        DEF Spec, GoingImplementsSeats, GoingBook!Spec
=============================================================================
