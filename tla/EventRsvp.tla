----------------------------- MODULE EventRsvp -----------------------------
(***************************************************************************)
(* RSVPs to one event of a community: backend/src/services/                *)
(* event.service.ts, functions rsvp, cancelRsvp and cancelEvent.           *)
(*                                                                         *)
(* A handler is a Node.js async function; every `await` on the database    *)
(* lets other requests run.  A request in flight is therefore a record     *)
(* that remembers what its handler has read so far, and every database     *)
(* round trip is one step.  The capacity path of rsvp() is a MongoDB       *)
(* transaction: it reads from a snapshot, and it is aborted and retried    *)
(* by withTransaction when a document it writes was written by somebody    *)
(* else after that snapshot; documents it only reads are not checked.      *)
(*                                                                         *)
(* The event is free, or the caller's subscription covers it, and the      *)
(* caller is an active member: the other outcomes of rsvp() (402, 403)     *)
(* leave this state alone.  One event, so cancelEvent has scope 'this'.    *)
(***************************************************************************)
EXTENDS Naturals, Integers, FiniteSets

CONSTANTS
    Users,        \* members of the community
    Requests,     \* HTTP requests the server may be serving at a time
    Capacities,   \* event.capacity, a positive number, or Unlimited (null)
    Unlimited,
    NoUser,
    EventDoc,     \* names the Event document in a transaction's write set
    MaxRequests   \* bound: requests the clients send in all

ASSUME UsersAssumption == IsFiniteSet(Users) /\ NoUser \notin Users
ASSUME EventDocAssumption == EventDoc \notin Users
ASSUME CapacityAssumption ==
    /\ Unlimited \notin Nat
    /\ Capacities \subseteq (Nat \ {0}) \cup {Unlimited}
ASSUME MaxRequestsAssumption == MaxRequests \in Nat

VARIABLES
    event,    \* the Event document
    rows,     \* the EventRSVP row of each user: its status, or "none"
    rank,     \* the order of the rows' createdAt, 0 for a user without row
    req,      \* the requests in flight
    sent,     \* how many requests the clients have sent
    fresh     \* history: the users whose row still has the "going" it was
              \* created with by the capacity transaction
vars == <<event, rows, rank, req, sent, fresh>>

RowStatus == {"going", "not_going", "maybe", "waitlist", "cancelled"}
Answer == {"going", "not_going", "maybe"}     \* rsvpSchema
RowOrNone == RowStatus \cup {"none"}

\* Where a handler stands: the round trip it is about to make.
Pc == {"idle",
       "snapshot", "commit",                                   \* rsvp, capacity
       "find", "save", "bump",                                 \* rsvp, otherwise
       "release", "decrement", "pick", "promote", "recount",   \* cancelRsvp
       "close", "sweep"}                                       \* cancelEvent

Request == [pc : Pc,
            user : Users \cup {NoUser},     \* who sent it
            want : Answer,                  \* input.status of rsvp()
            seen : RowOrNone,               \* the caller's row as read
            cand : {"going", "waitlist"},   \* candidateStatus
            next : Users \cup {NoUser},     \* the waitlister to promote
            missed : SUBSET (Users \cup {EventDoc})]
                    \* documents committed by others since the snapshot

NoRequest == [pc |-> "idle", user |-> NoUser, want |-> "going",
              seen |-> "none", cand |-> "going", next |-> NoUser,
              missed |-> {}]

Going == {u \in Users : rows[u] = "going"}
Waitlisted == {u \in Users : rows[u] = "waitlist"}
Attending == {"going", "waitlist", "maybe"}

\* rsvpCount, which managers are shown, is never below zero, however many
\* cancellations of a row overlap; waitlistCount may be.
TypeOK ==
    /\ event \in [status : {"published", "cancelled"},
                  capacity : Capacities,
                  rsvpCount : Nat, waitlistCount : Int]
    /\ rows \in [Users -> RowOrNone]
    /\ rank \in [Users -> Nat]
    /\ req \in [Requests -> Request]
    /\ sent \in 0..MaxRequests
    /\ fresh \subseteq Users

Init ==
    /\ event \in [status : {"published"}, capacity : Capacities,
                  rsvpCount : {0}, waitlistCount : {0}]
    /\ rows = [u \in Users |-> "none"]
    /\ rank = [u \in Users |-> 0]
    /\ req = [r \in Requests |-> NoRequest]
    /\ sent = 0
    /\ fresh = {}

-----------------------------------------------------------------------------
(* Steps of requests and what they write.                                  *)

\* A write of the documents W is noticed by the open transactions.
Notice(q, W) ==
    IF q.pc = "commit"
    THEN [q EXCEPT !.missed = @ \cup (W \cap {q.user, EventDoc})]
    ELSE q

\* Request r goes on as q after writing the documents W.
Go(r, q, W) == req' = [s \in Requests |-> IF s = r THEN q ELSE Notice(req[s], W)]
GoTo(r, pc, W) == Go(r, [req[r] EXCEPT !.pc = pc], W)
Done(r, W) == Go(r, NoRequest, W)

At(r, pc) == req[r].pc = pc /\ UNCHANGED sent

\* A client sends a request; q is the state in which the handler first waits.
Send(r, q) ==
    /\ req[r].pc = "idle"
    /\ sent < MaxRequests
    /\ sent' = sent + 1
    /\ Go(r, q, {})
    /\ UNCHANGED <<event, rows, rank, fresh>>

SetRow(u, status) ==
    /\ rows' = [rows EXCEPT ![u] = status]
    /\ fresh' = fresh \ {u}
    /\ UNCHANGED rank

\* rows are never deleted, so their number orders their createdAt
CreateRow(u, status) ==
    /\ rows' = [rows EXCEPT ![u] = status]
    /\ rank' = [rank EXCEPT ![u] = 1 + Cardinality({v \in Users : rows[v] # "none"})]

NoRowChange == UNCHANGED <<rows, rank, fresh>>

-----------------------------------------------------------------------------
(* rsvp()                                                                  *)

BeginRsvp(r, u, want) ==
    /\ event.status = "published"
    /\ LET capped == want = "going" /\ event.capacity # Unlimited
       IN  Send(r, [NoRequest EXCEPT !.pc = IF capped THEN "snapshot" ELSE "find",
                                     !.user = u, !.want = want])

\* Mutant of Snapshot: one seat too many.
SnapshotOffByOne(r) ==
    /\ At(r, "snapshot")
    /\ LET full == Cardinality(Going) > event.capacity
       IN  Go(r, [req[r] EXCEPT !.pc = "commit",
                                !.seen = rows[req[r].user],
                                !.cand = IF full THEN "waitlist" ELSE "going",
                                !.missed = {}], {})
    /\ UNCHANGED event /\ NoRowChange

\* First reads of the transaction: both come from one snapshot.
Snapshot(r) ==
    /\ At(r, "snapshot")
    /\ LET full == Cardinality(Going) >= event.capacity
       IN  Go(r, [req[r] EXCEPT !.pc = "commit",
                                !.seen = rows[req[r].user],
                                !.cand = IF full THEN "waitlist" ELSE "going",
                                !.missed = {}], {})
    /\ UNCHANGED event /\ NoRowChange

\* The caller had a row: only that row is written, and not even that when
\* its status does not change.
CommitExisting(r) ==
    LET q == req[r] IN
    /\ At(r, "commit") /\ q.seen # "none"
    /\ \/ q.seen = q.cand /\ Done(r, {}) /\ NoRowChange
       \/ /\ q.seen # q.cand /\ q.user \notin q.missed
          /\ SetRow(q.user, q.cand) /\ Done(r, {q.user})
    /\ UNCHANGED event

\* bumpMetricsForRsvpCreate
BumpCreated(status) ==
    IF status = "going"
    THEN event' = [event EXCEPT !.rsvpCount = @ + 1]
    ELSE event' = [event EXCEPT !.waitlistCount = @ + 1]

\* Mutant of CommitNew: the counters are bumped outside the transaction, so
\* it does not conflict with the others.
CommitNewUncounted(r) ==
    LET q == req[r] IN
    /\ At(r, "commit") /\ q.seen = "none" /\ q.user \notin q.missed
    /\ CreateRow(q.user, q.cand)
    /\ fresh' = IF q.cand = "going" THEN fresh \cup {q.user} ELSE fresh \ {q.user}
    /\ BumpCreated(q.cand)
    /\ Done(r, {q.user, EventDoc})

\* The caller had no row: the row and the event's counters are written.
CommitNew(r) ==
    LET q == req[r] IN
    /\ At(r, "commit") /\ q.seen = "none" /\ q.missed = {}
    /\ CreateRow(q.user, q.cand)
    /\ fresh' = IF q.cand = "going" THEN fresh \cup {q.user} ELSE fresh \ {q.user}
    /\ BumpCreated(q.cand)
    /\ Done(r, {q.user, EventDoc})

\* Mutant of Retry: only the commit is tried again, not the callback.
RetryCommitOnly(r) ==
    LET q == req[r] IN
    /\ At(r, "commit")
    /\ IF q.seen = "none" THEN q.missed # {}
                          ELSE q.seen # q.cand /\ q.user \in q.missed
    /\ GoTo(r, "commit", {})
    /\ UNCHANGED event /\ NoRowChange

\* A write conflict: withTransaction runs the callback again.
Retry(r) ==
    LET q == req[r] IN
    /\ At(r, "commit")
    /\ IF q.seen = "none" THEN q.missed # {}
                          ELSE q.seen # q.cand /\ q.user \in q.missed
    /\ GoTo(r, "snapshot", {})
    /\ UNCHANGED event /\ NoRowChange

\* The conflict was on the unique (eventId, userId) index: 409 instead.
DuplicateInTxn(r) ==
    /\ At(r, "commit") /\ req[r].seen = "none" /\ req[r].user \in req[r].missed
    /\ Done(r, {})
    /\ UNCHANGED event /\ NoRowChange

\* No capacity, or the answer is maybe / not_going: no transaction.
Find(r) ==
    /\ At(r, "find")
    /\ Go(r, [req[r] EXCEPT !.pc = "save", !.seen = rows[req[r].user]], {})
    /\ UNCHANGED event /\ NoRowChange

SaveExisting(r) ==
    LET q == req[r] IN
    /\ At(r, "save") /\ q.seen # "none"
    /\ IF q.seen = q.want THEN NoRowChange /\ Done(r, {})
                          ELSE SetRow(q.user, q.want) /\ Done(r, {q.user})
    /\ UNCHANGED event

SaveNew(r) ==
    LET q == req[r] IN
    /\ At(r, "save") /\ q.seen = "none"
    /\ IF rows[q.user] = "none"
       THEN /\ CreateRow(q.user, q.want)
            /\ UNCHANGED fresh
            /\ IF q.want = "going" THEN GoTo(r, "bump", {q.user}) ELSE Done(r, {q.user})
       ELSE NoRowChange /\ Done(r, {})       \* E11000, 409
    /\ UNCHANGED event

Bump(r) ==
    /\ At(r, "bump")
    /\ event' = [event EXCEPT !.rsvpCount = @ + 1]
    /\ Done(r, {EventDoc})
    /\ NoRowChange

-----------------------------------------------------------------------------
(* cancelRsvp()                                                            *)

BeginCancel(r, u) ==
    /\ rows[u] # "none"
    /\ Send(r, [NoRequest EXCEPT !.pc = "release", !.user = u, !.seen = rows[u]])

Release(r) ==
    LET q == req[r] IN
    /\ At(r, "release")
    /\ IF q.seen = "cancelled"
       THEN NoRowChange /\ GoTo(r, "decrement", {})
       ELSE SetRow(q.user, "cancelled") /\ GoTo(r, "decrement", {q.user})
    /\ UNCHANGED event

\* Mutant of Decrement: no filter on the counter.
DecrementUnfiltered(r) ==
    LET wasGoing == req[r].seen = "going" IN
    /\ At(r, "decrement")
    /\ event' = IF wasGoing THEN [event EXCEPT !.rsvpCount = @ - 1] ELSE event
    /\ IF wasGoing THEN GoTo(r, "pick", {EventDoc}) ELSE Done(r, {EventDoc})
    /\ NoRowChange

\* Mutant of Decrement: the waitlist moves up although no seat was freed.
DecrementAlwaysPromotes(r) ==
    LET wasGoing == req[r].seen = "going"
        W == IF event.rsvpCount > 0 THEN {EventDoc} ELSE {} IN
    /\ At(r, "decrement")
    /\ event' = IF event.rsvpCount > 0 /\ wasGoing
                THEN [event EXCEPT !.rsvpCount = @ - 1] ELSE event
    /\ GoTo(r, "pick", W)
    /\ NoRowChange

\* The update is filtered by rsvpCount > 0.
Decrement(r) ==
    LET wasGoing == req[r].seen = "going"
        W == IF event.rsvpCount > 0 THEN {EventDoc} ELSE {} IN
    /\ At(r, "decrement")
    /\ event' = IF event.rsvpCount > 0 /\ wasGoing
                THEN [event EXCEPT !.rsvpCount = @ - 1] ELSE event
    /\ IF wasGoing THEN GoTo(r, "pick", W) ELSE Done(r, W)
    /\ NoRowChange

\* Mutant of Oldest: the sort order the wrong way round.
Newest(S) == {u \in S : \A v \in S : rank[v] <= rank[u]}

Oldest(S) == {u \in S : \A v \in S : rank[u] <= rank[v]}

Pick(r) ==
    /\ At(r, "pick")
    /\ \/ Waitlisted = {} /\ Done(r, {})
       \/ \E u \in Oldest(Waitlisted) :
             Go(r, [req[r] EXCEPT !.pc = "promote", !.next = u], {})
    /\ UNCHANGED event /\ NoRowChange

\* The document picked is saved as it was read, whatever became of the row.
Promote(r) ==
    /\ At(r, "promote")
    /\ SetRow(req[r].next, "going")
    /\ GoTo(r, "recount", {req[r].next})
    /\ UNCHANGED event

Recount(r) ==
    /\ At(r, "recount")
    /\ event' = [event EXCEPT !.rsvpCount = @ + 1, !.waitlistCount = @ - 1]
    /\ Done(r, {EventDoc})
    /\ NoRowChange

-----------------------------------------------------------------------------
(* cancelEvent(), scope 'this'                                             *)

BeginCancelEvent(r) ==
    /\ event.status # "cancelled"
    /\ Send(r, [NoRequest EXCEPT !.pc = "close"])

Close(r) ==
    /\ At(r, "close")
    /\ event' = [event EXCEPT !.status = "cancelled"]
    /\ GoTo(r, "sweep", {EventDoc})
    /\ NoRowChange

\* Mutant of Sweep: the waitlist is forgotten.
SweepGoingOnly(r) ==
    LET swept == {u \in Users : rows[u] \in {"going", "maybe"}} IN
    /\ At(r, "sweep")
    /\ rows' = [u \in Users |-> IF u \in swept THEN "cancelled" ELSE rows[u]]
    /\ fresh' = fresh \ swept
    /\ Done(r, swept)
    /\ UNCHANGED <<event, rank>>

Sweep(r) ==
    LET swept == {u \in Users : rows[u] \in Attending} IN
    /\ At(r, "sweep")
    /\ rows' = [u \in Users |-> IF u \in swept THEN "cancelled" ELSE rows[u]]
    /\ fresh' = fresh \ swept
    /\ Done(r, swept)
    /\ UNCHANGED <<event, rank>>

-----------------------------------------------------------------------------

RsvpStep(r) ==
    \/ Snapshot(r) \/ CommitExisting(r) \/ CommitNew(r) \/ Retry(r)
    \/ DuplicateInTxn(r) \/ Find(r) \/ SaveExisting(r) \/ SaveNew(r) \/ Bump(r)
CancelStep(r) ==
    Release(r) \/ Decrement(r) \/ Pick(r) \/ Promote(r) \/ Recount(r)
CancelEventStep(r) == Close(r) \/ Sweep(r)
Step(r) == RsvpStep(r) \/ CancelStep(r) \/ CancelEventStep(r)

Begin(r) ==
    \/ \E u \in Users, want \in Answer : BeginRsvp(r, u, want)
    \/ \E u \in Users : BeginCancel(r, u)
    \/ BeginCancelEvent(r)

Next == \E r \in Requests : Begin(r) \/ Step(r)

\* The event loop runs every handler to its end; nobody has to send one.
Fairness == \A r \in Requests : WF_vars(Step(r))
Spec == Init /\ [][Next]_vars
FairSpec == Spec /\ Fairness

-----------------------------------------------------------------------------
(* Properties.                                                             *)

Quiet == \A r \in Requests : req[r].pc = "idle"

\* Whatever else runs at the same time (cancellations, promotions, answers
\* changed by other members), first-time RSVPs that go through the capacity
\* transaction never hand out more seats than the event has: the counters
\* they bump on the Event document (event.service.ts:261) make overlapping
\* ones conflict.
FreshSeatsWithinCapacity ==
    event.capacity # Unlimited => Cardinality(fresh) <= event.capacity

\* "capacity: Max attendees" (prds/08-event-system.md:54): never more members
\* going than the event has seats.  True while requests do not overlap.
CapacityRespected ==
    event.capacity # Unlimited => Cardinality(Going) <= event.capacity

\* A cancelled event keeps no going, maybe or waitlisted row once no request
\* is in flight ("cancelling an event marks all RSVPs cancelled",
\* backend/tests/integration/events.test.ts:108).
CancelledEventIsEmpty ==
    event.status = "cancelled" /\ Quiet =>
        \A u \in Users : rows[u] \notin Attending

\* A member who is promoted by somebody else's cancellation has waited
\* longest: no older waitlister is passed over (event.service.ts:318).  True
\* while requests do not overlap.
PromotesOldest ==
    [][\A u \in Waitlisted :
          rows'[u] = "going" /\ (\A r \in Requests : req[r].user # u) =>
              \A v \in Waitlisted : rank[u] <= rank[v]]_vars

\* The seats handed out by the capacity transaction to first-time RSVPs
\* implement Seats however requests overlap ...
FreshBook == INSTANCE Seats WITH holders <- fresh, capacity <- event.capacity
FreshSeatsImplementSeats == FreshBook!Spec

\* ... and while requests do not overlap, so do all the members going: a
\* promotion, too, only ever fills a seat that is free.
GoingBook == INSTANCE Seats WITH holders <- Going, capacity <- event.capacity
GoingImplementsSeats == GoingBook!Spec

\* Every request is answered: a transaction that loses conflicts is retried
\* until it commits.
EveryRequestAnswered ==
    \A r \in Requests : req[r].pc # "idle" ~> req[r].pc = "idle"
=============================================================================
