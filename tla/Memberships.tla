----------------------------- MODULE Memberships -----------------------------
(***************************************************************************)
(* The members of one community: invitations, joining and applying, the    *)
(* review of applications, roles and removal                               *)
(* (backend/src/services/community.service.ts, controllers/                *)
(* community.controller.ts, discovery.controller.ts, admin.controller.ts,  *)
(* middleware/role.ts), from the invitation of its first admin on.         *)
(*                                                                         *)
(* A document that is loaded, changed and saved writes only the fields it  *)
(* changed, and the save fails when the document has been deleted since.   *)
(* The index on (userId, communityId) refuses a second Membership.         *)
(*                                                                         *)
(* Everybody has an account, one acceptance may have just created; nobody  *)
(* is ever banned by this code.  The community is neither suspended nor    *)
(* deleted, and neither the process nor the database fails.                *)
(***************************************************************************)
EXTENDS Serving

CONSTANTS
    Users,
    Invitations,   \* bound: ids of Invitation documents
    NoUser, NoInvitation,
    MaxCount,      \* bound: memberCount does not grow past it
    MaxRequests    \* bound: requests of a behaviour

ASSUME UsersFinite == IsFiniteSet(Users)
ASSUME MaxCountAssumption == MaxCount \in Nat
ASSUME RequestsAssumption == MaxRequests \in Nat

VARIABLES
    community,  \* privacy and memberCount; open: it was once not invite-only
    rows,       \* the Membership of each user
    invs,       \* the Invitations
    applied,    \* those who have ever applied, whom an admin's list may show
    admitted,   \* the users invitations made Memberships for, how often
    work        \* what the workers are doing
vars == <<community, rows, invs, applied, admitted, pool, sent, work>>

Roles == {"member", "subadmin", "admin"}   \* an event manager counts as a member
Privacy == {"public", "application", "invite_only"}
Community == [privacy : Privacy, count : Nat, open : BOOLEAN]
Row == [status : {"none", "pending", "active"}, role : Roles]
NoRow == [status |-> "none", role |-> "member"]
Invitation == [to : Users \cup {NoUser}, role : Roles,
               status : {"none", "open", "expired", "accepted"}]
NoInv == [to |-> NoUser, role |-> "member", status |-> "none"]

Pc == {"idle",
       "createRow", "saveCount",               \* joinCommunity
       "apply",                                \* requestJoinCommunity
       "invite",                               \* issueInvitation
       "admit", "spend",                       \* acceptInvitation
       "findRow", "saveApproval", "countUp",   \* approveMember
       "reject",                               \* rejectMember
       "findTarget", "checkActor", "saveRole", \* changeMemberRole
       "delete", "countDown",                  \* removeMember
       "savePrivacy"}                          \* updateCommunity

Worker == [pc : Pc, actor : Users \cup {NoUser}, user : Users \cup {NoUser},
           role : Roles, inv : Invitations \cup {NoInvitation}, count : Nat]
Idle == [pc |-> "idle", actor |-> NoUser, user |-> NoUser, role |-> "member",
         inv |-> NoInvitation, count |-> 0]

TypeOK ==
    /\ community \in Community
    /\ rows \in [Users -> Row]
    /\ invs \in [Invitations -> Invitation]
    /\ applied \in SUBSET Users
    /\ admitted \in [Invitations -> Nat]
    /\ pool \in SUBSET Workers
    /\ sent \in 0..MaxRequests
    /\ work \in [Workers -> Worker]

\* createCommunity() of the super administrator has invited the first admin.
Init ==
    /\ \E p \in Privacy :
          community = [privacy |-> p, count |-> 0, open |-> p # "invite_only"]
    /\ rows = [u \in Users |-> NoRow]
    /\ \E i \in Invitations, u \in Users :
          invs = [[j \in Invitations |-> NoInv] EXCEPT
                     ![i] = [to |-> u, role |-> "admin", status |-> "open"]]
    /\ applied = {}
    /\ admitted = [i \in Invitations |-> 0]
    /\ pool \in Pools
    /\ sent = 0
    /\ work = [w \in Workers |-> Idle]

-----------------------------------------------------------------------------
At(w, pc) == work[w].pc = pc
Go(w, q) == work' = [work EXCEPT ![w] = q]
GoTo(w, pc) == Go(w, [work[w] EXCEPT !.pc = pc])
Done(w) == Go(w, Idle)

Begin(w, q) ==
    /\ w \in pool /\ At(w, "idle") /\ sent < MaxRequests
    /\ Go(w, q)
    /\ sent' = sent + 1
    /\ UNCHANGED <<community, rows, invs, applied, admitted, pool>>

\* loadMembership() and requireCommunityRole('admin', 'subadmin')
Staff == {u \in Users : rows[u].status = "active" /\ rows[u].role \in {"admin", "subadmin"}}
Admins == {u \in Staff : rows[u].role = "admin"}

IsRow(u) == rows[u].status # "none"

\* The Membership of u goes: a document loaded for it can no longer be saved,
\* and the request of worker v fails.
Loses(v, u) == work[v].user = u /\ work[v].pc \in {"saveApproval", "checkActor", "saveRole"}
Delete(w, u, q) ==
    /\ rows' = [rows EXCEPT ![u] = NoRow]
    /\ work' = [v \in Workers |-> IF v = w THEN q
                                  ELSE IF Loses(v, u) THEN Idle ELSE work[v]]

-----------------------------------------------------------------------------
(* joinCommunity(), requestJoinCommunity()                                 *)

BeginJoin(w, u) ==
    /\ community.privacy = "public"
    /\ Begin(w, [Idle EXCEPT !.pc = "createRow", !.user = u, !.count = community.count])

\* Whoever has a Membership, pending or not, gets it back as it is.
CreateRow(w) ==
    /\ At(w, "createRow")
    /\ IF IsRow(work[w].user)
       THEN Done(w) /\ UNCHANGED rows
       ELSE /\ rows' = [rows EXCEPT ![work[w].user] = [status |-> "active", role |-> "member"]]
            /\ GoTo(w, "saveCount")
    /\ UNCHANGED <<community, invs, applied, admitted, pool, sent>>

\* The count is the one loaded with the community.
SaveCount(w) ==
    /\ At(w, "saveCount") /\ work[w].count < MaxCount
    /\ community' = [community EXCEPT !.count = work[w].count + 1]
    /\ Done(w)
    /\ UNCHANGED <<rows, invs, applied, admitted, pool, sent>>

BeginApply(w, u) ==
    /\ community.privacy = "application"
    /\ Begin(w, [Idle EXCEPT !.pc = "apply", !.user = u])

Apply(w) ==
    LET u == work[w].user IN
    /\ At(w, "apply")
    /\ IF IsRow(u)
       THEN UNCHANGED <<rows, applied>>
       ELSE /\ rows' = [rows EXCEPT ![u] = [status |-> "pending", role |-> "member"]]
            /\ applied' = applied \cup {u}
    /\ Done(w)
    /\ UNCHANGED <<community, invs, admitted, pool, sent>>

-----------------------------------------------------------------------------
(* issueInvitation(), acceptInvitation()                                   *)

BeginInvite(w, actor, u, role) ==
    /\ actor \in Staff
    /\ rows[actor].role = "subadmin" => role = "member"
    /\ Begin(w, [Idle EXCEPT !.pc = "invite", !.user = u, !.role = role])

Invite(w) ==
    LET u == work[w].user IN
    /\ At(w, "invite")
    /\ \/ IsRow(u) /\ UNCHANGED invs
       \/ \E i \in Invitations :
             /\ ~ IsRow(u) /\ invs[i].status = "none"
             /\ invs' = [invs EXCEPT ![i] = [to |-> u, role |-> work[w].role,
                                             status |-> "open"]]
    /\ Done(w)
    /\ UNCHANGED <<community, rows, applied, admitted, pool, sent>>

Expire(i) ==
    /\ invs[i].status = "open"
    /\ invs' = [invs EXCEPT ![i].status = "expired"]
    /\ UNCHANGED <<community, rows, applied, admitted, pool, sent, work>>

\* Mutant of BeginAccept: an invitation may be accepted again.
BeginAcceptAgain(w, i) ==
    /\ invs[i].status \in {"open", "accepted"}
    /\ Begin(w, [Idle EXCEPT !.pc = "admit", !.user = invs[i].to, !.inv = i])

BeginAccept(w, i) ==
    /\ invs[i].status = "open"
    /\ Begin(w, [Idle EXCEPT !.pc = "admit", !.user = invs[i].to, !.inv = i])

\* Mutant of Admit: the member is counted whether or not there is a row.
AdmitCountingAll(w) ==
    LET u == work[w].user
        i == work[w].inv IN
    /\ At(w, "admit") /\ community.count < MaxCount
    /\ rows' = [rows EXCEPT ![u] = [status |-> "active", role |-> invs[i].role]]
    /\ community' = [community EXCEPT !.count = @ + 1]
    /\ admitted' = [admitted EXCEPT ![i] = @ + 1]
    /\ GoTo(w, "spend")
    /\ UNCHANGED <<invs, applied, pool, sent>>

\* The transaction, tried again until it meets no conflict: a Membership
\* there is gets the invitation's role and is active, and is not counted.
Admit(w) ==
    LET u == work[w].user
        i == work[w].inv IN
    /\ At(w, "admit")
    /\ rows' = [rows EXCEPT ![u] = [status |-> "active", role |-> invs[i].role]]
    /\ IF IsRow(u)
       THEN UNCHANGED <<community, admitted>>
       ELSE /\ community.count < MaxCount
            /\ community' = [community EXCEPT !.count = @ + 1]
            /\ admitted' = [admitted EXCEPT ![i] = @ + 1]
    /\ GoTo(w, "spend")
    /\ UNCHANGED <<invs, applied, pool, sent>>

Spend(w) ==
    /\ At(w, "spend")
    /\ invs' = [invs EXCEPT ![work[w].inv].status = "accepted"]
    /\ Done(w)
    /\ UNCHANGED <<community, rows, applied, admitted, pool, sent>>

-----------------------------------------------------------------------------
(* approveMember(), rejectMember()                                         *)

BeginReview(w, actor, u) ==
    /\ actor \in Staff /\ u \in applied
    /\ \E pc \in {"findRow", "reject"} : Begin(w, [Idle EXCEPT !.pc = pc, !.user = u])

FindRow(w) ==
    /\ At(w, "findRow")
    /\ IF IsRow(work[w].user) THEN GoTo(w, "saveApproval") ELSE Done(w)
    /\ UNCHANGED <<community, rows, invs, applied, admitted, pool, sent>>

SaveApproval(w) ==
    /\ At(w, "saveApproval")
    /\ rows' = [rows EXCEPT ![work[w].user].status = "active"]
    /\ GoTo(w, "countUp")
    /\ UNCHANGED <<community, invs, applied, admitted, pool, sent>>

\* Whether or not the member was pending.
CountUp(w) ==
    /\ At(w, "countUp") /\ community.count < MaxCount
    /\ community' = [community EXCEPT !.count = @ + 1]
    /\ Done(w)
    /\ UNCHANGED <<rows, invs, applied, admitted, pool, sent>>

Reject(w) ==
    /\ At(w, "reject")
    /\ IF rows[work[w].user].status = "pending"
       THEN Delete(w, work[w].user, Idle)
       ELSE Done(w) /\ UNCHANGED rows
    /\ UNCHANGED <<community, invs, applied, admitted, pool, sent>>

-----------------------------------------------------------------------------
(* changeMemberRole(), removeMember(), updateCommunity()                   *)

BeginChangeRole(w, actor, u, role) ==
    /\ actor \in Staff
    /\ Begin(w, [Idle EXCEPT !.pc = "findTarget", !.actor = actor, !.user = u, !.role = role])

FindTarget(w) ==
    /\ At(w, "findTarget")
    /\ IF IsRow(work[w].user) THEN GoTo(w, "checkActor") ELSE Done(w)
    /\ UNCHANGED <<community, rows, invs, applied, admitted, pool, sent>>

\* getActorRole(): the actor may have been demoted or removed since.
CheckActor(w) ==
    LET actor == work[w].actor IN
    /\ At(w, "checkActor")
    /\ IF IsRow(actor) /\ (rows[actor].role = "subadmin" => work[w].role = "member")
       THEN GoTo(w, "saveRole") ELSE Done(w)
    /\ UNCHANGED <<community, rows, invs, applied, admitted, pool, sent>>

SaveRole(w) ==
    /\ At(w, "saveRole")
    /\ rows' = [rows EXCEPT ![work[w].user].role = work[w].role]
    /\ Done(w)
    /\ UNCHANGED <<community, invs, applied, admitted, pool, sent>>

BeginRemove(w, actor, u) ==
    /\ actor \in Staff
    /\ Begin(w, [Idle EXCEPT !.pc = "delete", !.user = u])

\* Mutant of DeleteRow: the count goes down even when nothing was deleted.
DeleteRowAlways(w) ==
    /\ At(w, "delete")
    /\ Delete(w, work[w].user, [work[w] EXCEPT !.pc = "countDown"])
    /\ UNCHANGED <<community, invs, applied, admitted, pool, sent>>

DeleteRow(w) ==
    /\ At(w, "delete")
    /\ IF IsRow(work[w].user)
       THEN Delete(w, work[w].user, [work[w] EXCEPT !.pc = "countDown"])
       ELSE Done(w) /\ UNCHANGED rows
    /\ UNCHANGED <<community, invs, applied, admitted, pool, sent>>

\* Mutant of CountDown: the count may fall below zero.
CountDownAlways(w) ==
    /\ At(w, "countDown")
    /\ community' = [community EXCEPT !.count = @ - 1]
    /\ Done(w)
    /\ UNCHANGED <<rows, invs, applied, admitted, pool, sent>>

CountDown(w) ==
    /\ At(w, "countDown")
    /\ community' = [community EXCEPT !.count = IF @ > 0 THEN @ - 1 ELSE @]
    /\ Done(w)
    /\ UNCHANGED <<rows, invs, applied, admitted, pool, sent>>

BeginUpdate(w, actor) ==
    /\ actor \in Admins
    /\ Begin(w, [Idle EXCEPT !.pc = "savePrivacy"])

SavePrivacy(w) ==
    /\ At(w, "savePrivacy")
    /\ \E p \in Privacy :
          community' = [community EXCEPT !.privacy = p,
                                         !.open = @ \/ p # "invite_only"]
    /\ Done(w)
    /\ UNCHANGED <<rows, invs, applied, admitted, pool, sent>>

-----------------------------------------------------------------------------
Receive(w) ==
    \/ \E u \in Users : BeginJoin(w, u) \/ BeginApply(w, u)
    \/ \E i \in Invitations : BeginAccept(w, i)
    \/ \E a, u \in Users : BeginReview(w, a, u) \/ BeginRemove(w, a, u)
    \/ \E a, u \in Users, r \in Roles : BeginInvite(w, a, u, r) \/ BeginChangeRole(w, a, u, r)
    \/ \E a \in Users : BeginUpdate(w, a)

Serve(w) ==
    \/ CreateRow(w) \/ SaveCount(w) \/ Apply(w)
    \/ Invite(w) \/ Admit(w) \/ Spend(w)
    \/ FindRow(w) \/ SaveApproval(w) \/ CountUp(w) \/ Reject(w)
    \/ FindTarget(w) \/ CheckActor(w) \/ SaveRole(w)
    \/ DeleteRow(w) \/ CountDown(w) \/ SavePrivacy(w)

Next ==
    \/ \E w \in Workers : Receive(w) \/ Serve(w)
    \/ \E i \in Invitations : Expire(i)

Spec == Init /\ [][Next]_vars

-----------------------------------------------------------------------------
(* Properties                                                              *)

\* While a community has always been by invitation only, memberCount is the
\* number of its members, but for the removals that have yet to count.  It
\* takes acceptInvitation()'s transaction, which counts only the row it
\* creates however many acceptances and removals overlap, and removeMember(),
\* which counts only the row it deletes.
InviteOnlyCountExact ==
    ~ community.open =>
        community.count = Cardinality({u \in Users : IsRow(u)})
                          + Cardinality({w \in Workers : At(w, "countDown")})

\* "Invite tokens single-use (re-accept returns 409)": one who was admitted by
\* an invitation and removed later is not admitted by it again.  Only while
\* requests do not overlap: the invitation is marked after the transaction.
InvitationAdmitsOnce ==
    Cardinality(pool) = 1 => \A i \in Invitations : admitted[i] <= 1
=============================================================================
