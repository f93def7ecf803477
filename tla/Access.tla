------------------------------- MODULE Access -------------------------------
(***************************************************************************)
(* Which pages a tab of the web client lets a user open, and which of      *)
(* their requests the backend serves (web/src/router/routes.tsx,           *)
(* lib/role.ts, lib/community-context.ts, components, features; backend/   *)
(* src/middleware, routes, and the checks of controllers and services).    *)
(*                                                                         *)
(* One account and one tab.  A community stands for its one event, posts,  *)
(* initiatives and payments too.  An event manager is a member to every    *)
(* guard but those that look at Event.managers.  A deleted community is    *)
(* deleted whatever its status.  The account is verified, not disabled,    *)
(* and has finished its onboarding.                                        *)
(***************************************************************************)
EXTENDS Naturals, Sequences, FiniteSets

CONSTANTS
    Communities,
    NoCommunity

AccessAssumption == NoCommunity \notin Communities

VARIABLES
    standing,   \* of each community
    rows,       \* the active Memberships of the account, in the order they are found
    global,     \* its globalRole
    manages,    \* the communities whose event has it among its managers
    tab         \* the copies of global and rows, and the community chosen
vars == <<standing, rows, global, manages, tab>>

Roles == {"member", "subadmin", "admin"}
Staff == {"admin", "subadmin"}
GlobalRoles == {"user", "superadmin"}
Row == [of : Communities, role : Roles]
Of(mine) == {mine[i].of : i \in DOMAIN mine}

TypeOK ==
    /\ standing \in [Communities -> {"active", "suspended", "deleted"}]
    /\ rows \in Seq(Row) /\ Len(rows) = Cardinality(Of(rows))
    /\ global \in GlobalRoles
    /\ manages \in SUBSET Communities
    /\ tab.user \in GlobalRoles /\ tab.mine \in Seq(Row)
    /\ tab.ctx \in Communities \cup {NoCommunity}

\* Signing out leaves the community that was chosen to the next account.
Init ==
    /\ standing = [c \in Communities |-> "active"]
    /\ rows = <<>> /\ global = "user" /\ manages = {}
    /\ \E c \in Communities \cup {NoCommunity} :
          tab = [user |-> "user", mine |-> <<>>, ctx |-> c]

-----------------------------------------------------------------------------
(* What the account is                                                     *)

Has(c, roles) == \E i \in DOMAIN rows : rows[i].of = c /\ rows[i].role \in roles

\* acceptInvitation() or joinCommunity() has made the Membership.
Enter(c, role) ==
    /\ c \notin Of(rows)
    /\ rows' = Append(rows, [of |-> c, role |-> role])
    /\ UNCHANGED <<standing, global, manages, tab>>

ChangeRole(c, role) ==
    /\ c \in Of(rows) /\ standing[c] # "deleted"
    /\ rows' = [i \in DOMAIN rows |-> IF rows[i].of = c THEN [of |-> c, role |-> role]
                                      ELSE rows[i]]
    /\ UNCHANGED <<standing, global, manages, tab>>

\* removeMember() leaves Event.managers as they are.
Remove(c) ==
    /\ standing[c] # "deleted"
    /\ \E i \in DOMAIN rows :
          /\ rows[i].of = c
          /\ rows' = SubSeq(rows, 1, i - 1) \o SubSeq(rows, i + 1, Len(rows))
    /\ UNCHANGED <<standing, global, manages, tab>>

AssignManager(c) ==
    /\ c \in Of(rows)
    /\ manages' = manages \cup {c}
    /\ UNCHANGED <<standing, rows, global, tab>>

RemoveManager(c) ==
    /\ manages' = manages \ {c}
    /\ UNCHANGED <<standing, rows, global, tab>>

Promote ==
    /\ global' = "superadmin"
    /\ UNCHANGED <<standing, rows, manages, tab>>

Suspend(c) ==
    /\ standing[c] # "deleted"
    /\ standing' = [standing EXCEPT ![c] = "suspended"]
    /\ UNCHANGED <<rows, global, manages, tab>>

Restore(c) ==
    /\ standing[c] # "deleted"
    /\ standing' = [standing EXCEPT ![c] = "active"]
    /\ UNCHANGED <<rows, global, manages, tab>>

Delete(c) ==
    /\ standing' = [standing EXCEPT ![c] = "deleted"]
    /\ UNCHANGED <<rows, global, manages, tab>>

-----------------------------------------------------------------------------
(* What the backend serves: a request changes something or only reads, its *)
(* router finds the caller's Membership in one of the ways below, and a    *)
(* guard names the roles, or refuses sub-admins.                           *)

Route(by, changes, roles, limited) ==
    [by |-> by, changes |-> changes, roles |-> roles, limited |-> limited]
Read(by, roles) == Route(by, FALSE, roles, FALSE)
Write(by, roles) == Route(by, TRUE, roles, FALSE)

IsSuper == global = "superadmin"

LoadMembership(r, c) ==
    /\ standing[c] # "deleted"
    /\ IsSuper \/ (Has(c, Roles) /\ (r.changes => standing[c] = "active"))

LoadEventScope(r, c) ==
    IsSuper \/ (Has(c, Roles) /\ (r.changes => standing[c] = "active"))

\* Not asked for what every member may do.
RequireCommunityRole(r, c) == r.roles = Roles \/ Has(c, r.roles) \/ (IsSuper /\ ~ r.changes)

RequireEventManager(r, c) ==
    \/ Has(c, Staff)
    \/ IF IsSuper THEN ~ r.changes ELSE c \in manages

\* The checks of the handlers that load a payment, a post or an initiative.
CheckInHandler(r, c) == IsSuper \/ Has(c, r.roles)

RefuseSubAdmins(r, c) == r.limited => IsSuper \/ ~ Has(c, {"subadmin"})

Served(r, c) ==
    /\ \/ r.by = "community" /\ LoadMembership(r, c) /\ RequireCommunityRole(r, c)
       \/ r.by = "event" /\ LoadEventScope(r, c) /\ RequireCommunityRole(r, c)
       \/ r.by = "manager" /\ LoadEventScope(r, c) /\ RequireEventManager(r, c)
       \/ r.by = "broadcast" /\ LoadEventScope(r, c) /\ (RequireEventManager(r, c) \/ IsSuper)
       \/ r.by = "handler" /\ CheckInHandler(r, c)
       \/ r.by = "platform" /\ IsSuper
    /\ RefuseSubAdmins(r, c)

communityRoutes ==
    [detail |-> Read("community", Roles), members |-> Read("community", Staff),
     update |-> Write("community", {"admin"}), onboard |-> Write("community", {"admin"}),
     invite |-> Write("community", Staff), inviteStaff |-> Route("community", TRUE, Staff, TRUE),
     changeRole |-> Write("community", Staff), makeStaff |-> Route("community", TRUE, Staff, TRUE),
     remove |-> Write("community", Staff), ackRules |-> Write("community", Roles)]

adminRoutes ==
    [overview |-> Read("community", Staff), analytics |-> Read("community", Staff),
     pending |-> Read("community", Staff), review |-> Write("community", Staff),
     notify |-> Write("community", Staff), moderation |-> Read("community", Staff),
     subscriptions |-> Route("community", FALSE, {"admin"}, TRUE)]

\* updatePriced sends a pricing for an event that has a price.
eventRoutes ==
    [list |-> Read("community", Roles), create |-> Write("community", Staff),
     createPaid |-> Route("community", TRUE, Staff, TRUE),
     detail |-> Read("event", Roles), update |-> Write("event", Staff),
     updatePriced |-> Route("event", TRUE, Staff, TRUE), cancel |-> Write("event", Staff),
     managers |-> Write("event", Staff), rsvps |-> Read("manager", {}),
     checkIn |-> Write("manager", {}), materials |-> Read("event", Roles),
     upload |-> Write("manager", {}), recap |-> Write("manager", {}),
     broadcast |-> Write("broadcast", {}), qa |-> Read("event", Roles)]

paymentRoutes ==
    [finances |-> Route("community", FALSE, {"admin"}, TRUE),
     payment |-> Read("handler", {"admin"}), refund |-> Write("handler", {"admin"})]

postRoutes == [moderate |-> Write("handler", Staff)]
initiativeRoutes == [list |-> Read("community", Roles), review |-> Write("handler", Staff)]
superRoutes == [read |-> Read("platform", {}), change |-> Write("platform", {})]

-----------------------------------------------------------------------------
(* Pages: the gate before them, what they ask of everybody, and what of    *)
(* everybody but sub-admins.                                               *)

Page(gate, asks, full) == [gate |-> gate, asks |-> asks, full |-> full]
ForStaff(asks, full) == Page("staff", asks, full)
ForAdmins(asks) == Page("admin", asks, {})
ForManagers(asks) == Page("manager", asks, {})
ForSupers(asks) == Page("super", asks, {})

AdminDashboard ==
    ForStaff({communityRoutes.detail, adminRoutes.overview, eventRoutes.list},
             {paymentRoutes.finances})
MemberList == ForStaff({communityRoutes.members}, {})
InviteMember == ForStaff({communityRoutes.invite}, {communityRoutes.inviteStaff})
MemberDetail ==
    ForStaff({communityRoutes.members, communityRoutes.changeRole, communityRoutes.remove,
              adminRoutes.notify}, {communityRoutes.makeStaff})
ApprovalQueue == ForStaff({adminRoutes.pending, adminRoutes.review}, {})
AdminEventList == ForStaff({eventRoutes.list}, {})
CreateEvent == ForStaff({eventRoutes.create}, {eventRoutes.createPaid})
\* It sends the event's pricing along, or a free one for a sub-admin.
EditEvent ==
    ForStaff({eventRoutes.detail, eventRoutes.update, eventRoutes.updatePriced,
              eventRoutes.cancel}, {})
AssignManagers ==
    ForStaff({eventRoutes.detail, communityRoutes.members, eventRoutes.managers}, {})
ContentModeration == ForStaff({adminRoutes.moderation, postRoutes.moderate}, {})
InitiativeModeration == ForStaff({initiativeRoutes.list, initiativeRoutes.review}, {})
SubAdminAnalytics == ForStaff({adminRoutes.analytics}, {paymentRoutes.finances})

EditPricing == ForAdmins({eventRoutes.detail, eventRoutes.update, eventRoutes.updatePriced})
FinancialDashboard == ForAdmins({paymentRoutes.finances})
SubscriptionManagement == ForAdmins({adminRoutes.subscriptions})
IssueRefund == ForAdmins({paymentRoutes.payment, paymentRoutes.refund})
RoleManagement ==
    ForAdmins({communityRoutes.members, communityRoutes.changeRole, communityRoutes.makeStaff})
CommunitySettings == ForAdmins({communityRoutes.detail, communityRoutes.update})
BrandingCustomizer == ForAdmins({communityRoutes.detail, communityRoutes.update})
AdminWizard ==
    ForAdmins({communityRoutes.detail, communityRoutes.update, communityRoutes.onboard,
               communityRoutes.invite})

EventCommandCenter ==
    ForManagers({eventRoutes.detail, eventRoutes.rsvps, eventRoutes.materials, eventRoutes.qa})
AttendeeList == ForManagers({eventRoutes.detail, eventRoutes.rsvps, eventRoutes.checkIn})
Broadcast == ForManagers({eventRoutes.detail, eventRoutes.rsvps, eventRoutes.broadcast})
MaterialsUpload == ForManagers({eventRoutes.detail, eventRoutes.upload})
PublishRecap ==
    ForManagers({eventRoutes.detail, eventRoutes.rsvps, eventRoutes.upload, eventRoutes.recap})

SuperDashboard == ForSupers({superRoutes.read})
SuperCommunitiesList == ForSupers({superRoutes.read})
SuperUsersList == ForSupers({superRoutes.read})
SuperAudit == ForSupers({superRoutes.read})
PlatformSettings == ForSupers({superRoutes.read, superRoutes.change})
CreateCommunity == ForSupers({superRoutes.change})
SuperCommunityDetail == ForSupers({superRoutes.read, superRoutes.change})
SuperUserDetail == ForSupers({superRoutes.read, superRoutes.change})

Pages ==
    {AdminDashboard, MemberList, InviteMember, MemberDetail, ApprovalQueue, AdminEventList,
     CreateEvent, EditEvent, AssignManagers, ContentModeration, InitiativeModeration,
     SubAdminAnalytics, EditPricing, FinancialDashboard, SubscriptionManagement, IssueRefund,
     RoleManagement, CommunitySettings, BrandingCustomizer, AdminWizard, EventCommandCenter,
     AttendeeList, Broadcast, MaterialsUpload, PublishRecap, SuperDashboard,
     SuperCommunitiesList, SuperUsersList, SuperAudit, PlatformSettings, CreateCommunity,
     SuperCommunityDetail, SuperUserDetail}

-----------------------------------------------------------------------------
(* The tab                                                                 *)

RowOf(mine, c) == mine[CHOOSE i \in DOMAIN mine : mine[i].of = c]

\* CommunityRoleGate: the Membership it judges by.
Judged == IF tab.ctx \in Of(tab.mine) THEN RowOf(tab.mine, tab.ctx) ELSE tab.mine[1]

CommunityRoleGate(roles) == tab.mine # <<>> /\ Judged.role \in roles

\* The event is fetched first: isManager is the server's answer of today.
EventManagerGate(c) ==
    \/ tab.user = "superadmin"
    \/ /\ Served(eventRoutes.detail, c)
       /\ IsSuper \/ Has(c, Staff) \/ c \in manages

SuperGate == tab.user = "superadmin"

Admits(page, c) ==
    \/ page.gate = "staff" /\ CommunityRoleGate(Staff)
    \/ page.gate = "admin" /\ CommunityRoleGate({"admin"})
    \/ page.gate = "manager" /\ EventManagerGate(c)
    \/ page.gate = "super" /\ SuperGate

pickActiveMembership(mine, ctx) ==
    IF ctx \in Of(mine) THEN RowOf(mine, ctx) ELSE mine[1]

resolveRole(ctx) ==
    IF tab.user = "superadmin" THEN "super"
    ELSE IF tab.mine = <<>> THEN "none" ELSE pickActiveMembership(tab.mine, ctx).role

\* The guarded pages among the tabs of BottomNav and SideNav.
NavTabs(role) ==
    {p \in {SuperDashboard, SuperCommunitiesList, SuperUsersList, PlatformSettings} :
        role = "super"}
    \cup {p \in {AdminDashboard, MemberList, AdminEventList, SubAdminAnalytics} : role \in Staff}

\* Mutant of LandingPages: sub-admins are sent to the wizard too.
LandingPagesWizard(role) ==
    {p \in {SuperDashboard} : role = "super"}
    \cup {p \in {AdminDashboard, AdminWizard} : role \in Staff}

\* Where landingPathAfterAuth() leads, before and after the wizard.
LandingPages(role) ==
    {p \in {SuperDashboard} : role = "super"}
    \cup {p \in {AdminDashboard} : role \in Staff}
    \cup {p \in {AdminWizard} : role = "admin"}

\* The page of events to manage leads to the command center of each.
listMyManagedEvents ==
    manages \cup IF IsSuper THEN {c \in Communities : standing[c] = "active"}
                 ELSE {c \in Communities : Has(c, Staff)}

FetchMine ==
    /\ tab' = [tab EXCEPT !.mine = rows]
    /\ UNCHANGED <<standing, rows, global, manages>>

\* SplashScreen asks for the user again.
Splash ==
    /\ tab' = [tab EXCEPT !.user = global]
    /\ UNCHANGED <<standing, rows, global, manages>>

setCurrent(c) == tab' = [tab EXCEPT !.ctx = c]

\* CommunitySwitcherSheet, and CommunityDetailScreen for those who are in.
Pick(c) ==
    /\ c \in Of(tab.mine) /\ setCurrent(c)
    /\ UNCHANGED <<standing, rows, global, manages>>

HomeFeed ==
    /\ tab.ctx = NoCommunity /\ tab.mine # <<>>
    /\ setCurrent(tab.mine[1].of)
    /\ UNCHANGED <<standing, rows, global, manages>>

\* joinCommunity() gives whoever has applied that Membership back.
Join(c) ==
    /\ standing[c] = "active" /\ setCurrent(c)
    /\ IF c \in Of(rows) THEN UNCHANGED rows
       ELSE rows' \in {rows, Append(rows, [of |-> c, role |-> "member"])}
    /\ UNCHANGED <<standing, global, manages>>

\* acknowledgeRules() saves the Membership loadMembership() has found, or made
\* for a super admin who has none.
AcceptRules(c) ==
    /\ Served(communityRoutes.ackRules, c) /\ setCurrent(c)
    /\ rows' = IF c \in Of(rows) THEN rows ELSE Append(rows, [of |-> c, role |-> "admin"])
    /\ UNCHANGED <<standing, global, manages>>

Next ==
    \/ \E c \in Communities, role \in Roles : Enter(c, role) \/ ChangeRole(c, role)
    \/ \E c \in Communities :
          \/ Remove(c) \/ AssignManager(c) \/ RemoveManager(c)
          \/ Suspend(c) \/ Restore(c) \/ Delete(c)
          \/ Pick(c) \/ Join(c) \/ AcceptRules(c)
    \/ Promote \/ FetchMine \/ Splash \/ HomeFeed

Spec == Init /\ [][Next]_vars

-----------------------------------------------------------------------------
(* Properties                                                              *)

UpToDate == tab.user = global /\ tab.mine = rows

\* Where a page takes the user
Offered ==
    NavTabs(resolveRole(tab.ctx))
    \cup IF tab.ctx = NoCommunity \/ (rows # <<>> /\ tab.ctx = rows[1].of)
         THEN LandingPages(resolveRole(NoCommunity)) ELSE {}

Asked(page, c) ==
    page.asks \cup {r \in page.full : c \notin Of(tab.mine) \/ RowOf(tab.mine, c).role # "subadmin"}

\* What a page may ask for in vain: changes of a community that is suspended
\* or deleted, changes of a super admin who is let in as one, and the event
\* with a price that a sub-admin edits.
InVain(page, r, c) ==
    \/ page.gate \in {"staff", "admin"} /\ standing[c] = "deleted"
    \/ page.gate # "super" /\ r.changes /\ standing[c] # "active"
    \/ page.gate = "manager" /\ r.changes /\ IsSuper /\ ~ Has(c, Staff)
    \/ page = EditEvent /\ r = eventRoutes.updatePriced /\ Has(c, {"subadmin"})

\* The client and the server agree on who may do what, though each has its
\* own rules.  While the tab's copies of the user and of his Memberships are
\* current, the pages the navigation, the login and the list of events to
\* manage lead to let him in, and whatever a page that lets him in asks of
\* the community he has chosen, the backend serves.  Except while the choice
\* is not one of his communities, for the login when it is not the first,
\* for the events of a community he has left, and for what is InVain.
PagesWork ==
    UpToDate =>
        /\ \A p \in Offered : Admits(p, NoCommunity)
        /\ \A c \in listMyManagedEvents : IsSuper \/ c \in Of(rows) => Admits(EventCommandCenter, c)
        /\ tab.ctx \in Of(rows) \cup {NoCommunity} =>
              \A p \in Pages, c \in Communities :
                 Admits(p, c) /\ (p.gate \in {"staff", "admin"} => c = Judged.of) =>
                     \A r \in Asked(p, c) : Served(r, c) \/ InVain(p, r, c)
=============================================================================
