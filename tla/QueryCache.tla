------------------------------ MODULE QueryCache ------------------------------
(***************************************************************************)
(* What the web client shows: the cache of TanStack Query that web/src/    *)
(* lib/queries.ts keeps, under the options of main.tsx.  A query holds the *)
(* answer of a GET under a key; a hook that changes something invalidates  *)
(* the keys whose queries must be asked again.                             *)
(*                                                                         *)
(* A behaviour follows one hook and one query: every hook is tried with    *)
(* every query that shows what it changes and that it refreshes, or that   *)
(* is on the screen the hook is used on.                                   *)
(*                                                                         *)
(* The ids of hook and query match.  What others change, and notifications *)
(* a change sends, are left out; so are the audit log, to which nearly     *)
(* every request adds, and the pages left for another site (checkout).     *)
(***************************************************************************)
CONSTANT Calls     \* bound: uses of the hook

VARIABLES
    pair,      \* the hook and the query
    server,    \* the calls whose change a GET of the query would show now
    tab,       \* the query's cache entry
    call       \* the progress of each call
vars == <<pair, server, tab, call>>

-----------------------------------------------------------------------------
(* Queries, and the facts the answers they keep are made of                *)

Query(key, facts) == [key |-> key, reads |-> facts]

\* normalizeEvent(), normalizePost(), normalizeInitiative()
EventShown == {"event", "seats"}
PostShown == {"posts", "postComments"}
InitiativeShown == {"initiatives", "review", "support", "iniComments"}

CommunityShown == {"community", "standing", "memberCount", "eventCount"}

DiscoveryQueries ==
    {Query("discovery", CommunityShown \cup {"mine", "applications"}),
     Query("my-communities", {"mine", "community", "standing", "memberCount", "onboarding"}),
     Query("my-rsvps", EventShown \cup {"attendance"})}

CommunityQueries ==
    {Query("community", CommunityShown),
     Query("community-events", EventShown),
     Query("event", EventShown \cup {"attendance", "managers"})}

EventQueries ==
    {Query("event-materials", {"materials"}),
     Query("event-qa", {"questions"})}

PostQueries ==
    {Query("community-posts", PostShown), Query("post", PostShown),
     Query("post-comments", {"postComments"})}

InitiativeQueries ==
    {Query("community-initiatives", InitiativeShown), Query("initiative", InitiativeShown),
     Query("initiative-comments", {"iniComments"})}

NoticeQueries ==
    {Query("notifications", {"notices"}), Query("notif-prefs", {"prefs"})}

ManagerQueries ==
    {Query("my-managed-events", EventShown \cup {"managers", "mine"}),
     Query("event-attendees", {"attendance", "checkins"})}

PrivacyQuery == {Query("me-privacy", {"privacy"})}

AdminQueries ==
    {Query("members", {"mine", "members", "applications"}),
     Query("admin-overview",
           {"mine", "members", "applications", "event", "hidden", "initiatives", "review"}),
     Query("pending-members", {"applications"}),
     Query("moderation-queue", {"posts", "hidden"})}

SubscriptionQueries == {Query("my-subscriptions", {"subscriptions"})}

PaymentQueries ==
    {Query("payment", {"payments"}),
     Query("finances", {"payments", "subscriptions", "event"})}

SuperQueries ==
    {Query("super-communities", CommunityShown),
     Query("super-users", {"accounts", "mine", "members"})}

SuperDetailQueries ==
    {Query("super-community-detail", CommunityShown \cup {"mine", "members"}),
     Query("super-user-detail",
           {"accounts", "mine", "members", "applications", "community", "standing"})}

Queries ==
    DiscoveryQueries \cup CommunityQueries \cup EventQueries \cup PostQueries
    \cup InitiativeQueries \cup NoticeQueries \cup ManagerQueries \cup PrivacyQuery
    \cup AdminQueries \cup SubscriptionQueries \cup PaymentQueries \cup SuperQueries
    \cup SuperDetailQueries

-----------------------------------------------------------------------------
(* Hooks: the facts their requests change, and the keys onSuccess names    *)

Hook(name, facts, keys) == [name |-> name, writes |-> facts, refreshes |-> keys]

JoinHooks ==
    {Hook("useJoinCommunity", {"mine", "memberCount"}, {"discovery", "my-communities"}),
     Hook("useRequestJoin", {"applications"}, {"discovery"})}

RsvpKeys == {"event", "my-rsvps", "community-events", "event-attendees", "my-managed-events"}
RsvpHooks ==
    {Hook("useRsvp", {"attendance", "seats"}, RsvpKeys),
     Hook("useCancelRsvp", {"attendance", "seats"}, RsvpKeys)}

EventHooks ==
    {Hook("useCreateEvent", {"event", "eventCount"}, {"community-events", "my-managed-events"}),
     Hook("useUpdateEvent", {"event"}, {"event", "community-events", "my-managed-events"}),
     Hook("useCancelEvent", {"event", "attendance"}, {"event", "community-events"}),
     Hook("useAssignManager", {"managers"}, {"event", "my-managed-events"}),
     Hook("usePublishRecap", {"recap"}, {"event"}),
     Hook("useRemoveManager", {"managers"}, {"event", "my-managed-events"})}

MaterialHooks ==
    {Hook("useUploadMaterial", {"materials"}, {"event-materials"}),
     Hook("useUploadRecapPhoto", {"materials"}, {})}

QuestionHooks ==
    {Hook(h, {"questions"}, {"event-qa"}) :
        h \in {"useAskQuestion", "useUpvoteQA", "useAnswerQA", "usePinQA", "useResolveQA"}}

PostHooks ==
    {Hook("useCreatePost", {"posts"}, {"community-posts"}),
     Hook("useCommentOnPost", {"postComments"}, {"post-comments"})}

InitiativeHooks ==
    {Hook("useCreateInitiative", {"initiatives"}, {"community-initiatives"}),
     Hook("useSupportInitiative", {"support", "review"}, {"initiative", "community-initiatives"}),
     Hook("useCommentOnInitiative", {"iniComments"}, {"initiative-comments"})}

NoticeHooks ==
    {Hook("useMarkNotificationRead", {"notices"}, {"notifications"}),
     Hook("useMarkAllNotificationsRead", {"notices"}, {"notifications"}),
     Hook("useUpdateNotificationPrefs", {"prefs"}, {"notif-prefs"})}

CheckInHooks ==
    {Hook("useCheckInRsvp", {"checkins"}, {"event-attendees"}),
     Hook("useCheckInAll", {"checkins"}, {"event-attendees"})}

\* It does not invalidate: the answer of the PATCH takes the query's place.
UpdatePrivacy == Hook("useUpdatePrivacy", {"privacy"}, {"me-privacy"})

MemberHooks ==
    {Hook("useChangeMemberRole", {"members"}, {"members"}),
     Hook("useRemoveMember", {"members", "applications", "memberCount"}, {"members"})}

ReviewHooks ==
    {Hook("useApproveMember", {"members", "applications", "memberCount"},
          {"pending-members", "members", "admin-overview"}),
     Hook("useRejectMember", {"applications"}, {"pending-members", "admin-overview"}),
     Hook("useModeratePost", {"hidden"}, {"moderation-queue"}),
     Hook("useApproveInitiative", {"review"}, {"community-initiatives", "initiative"}),
     Hook("useRejectInitiative", {"review"}, {"community-initiatives", "initiative"})}

MoneyHooks ==
    {Hook("useCancelMySubscription", {"subscriptions"}, {"my-subscriptions"}),
     Hook("useRefundPayment", {"payments", "attendance"},
          {"finances", "event-payments", "payment", "my-payments", "my-rsvps"})}

CommunityHooks ==
    {Hook("useUpdateCommunity", {"community"}, {"community", "my-communities"}),
     Hook("useOnboardCommunity", {"onboarding"}, {"community"})}

SuperCommunityHooks ==
    {Hook("useSuperCreateCommunity", {"community", "standing"}, {"super-communities"}),
     Hook("useSuperUpdateCommunity", {"community"},
          {"super-community-detail", "super-communities"}),
     Hook("useSuperDeleteCommunity", {"standing"}, {"super-communities"})}

SuperUserHooks ==
    {Hook(h, {"accounts"}, {"super-users", "super-user-detail"}) :
        h \in {"useSuperDisableUser", "useSuperEnableUser", "useSuperPromoteUser"}}

\* Mutant of SuspendHooks: only the list is refreshed.
SuspendHooksListOnly ==
    {Hook(h, {"standing"}, {"super-communities"}) :
        h \in {"useSuperSuspendCommunity", "useSuperRestoreCommunity"}}

SuspendHooks ==
    {Hook(h, {"standing"}, {"super-communities", "super-community-detail"}) :
        h \in {"useSuperSuspendCommunity", "useSuperRestoreCommunity"}}

Hooks ==
    JoinHooks \cup RsvpHooks \cup EventHooks \cup MaterialHooks \cup QuestionHooks
    \cup PostHooks \cup InitiativeHooks \cup NoticeHooks \cup CheckInHooks
    \cup {UpdatePrivacy} \cup MemberHooks \cup ReviewHooks \cup MoneyHooks
    \cup CommunityHooks \cup SuperCommunityHooks \cup SuperUserHooks \cup SuspendHooks

-----------------------------------------------------------------------------
(* Screens: the hooks they use beside the queries they show                *)

On(hooks, keys) == [uses |-> hooks, shows |-> keys]

CommunityDetail ==
    On({"useJoinCommunity"}, {"community", "community-events", "my-communities"})
Discover == On({"useJoinCommunity", "useRequestJoin"}, {"discovery"})
EventDetail == On({"useRsvp", "useCancelRsvp"}, {"event", "my-subscriptions"})
Materials == On({"useRsvp"}, {"event", "event-materials"})
EventQA == On({h.name : h \in QuestionHooks}, {"event", "event-qa"})
AttendeeList == On({"useCheckInRsvp", "useCheckInAll"}, {"event", "event-attendees"})
PostDetail == On({"useCommentOnPost"}, {"post", "post-comments"})
InitiativeDetail ==
    On({"useSupportInitiative", "useCommentOnInitiative"}, {"initiative", "initiative-comments"})
Inbox == On({"useMarkNotificationRead", "useMarkAllNotificationsRead"}, {"notifications"})
NotificationPrefs == On({"useUpdateNotificationPrefs"}, {"notif-prefs"})
PrivacySettings == On({"useUpdatePrivacy"}, {"me-privacy"})
ApprovalQueue ==
    On({"useApproveMember", "useRejectMember"}, {"my-communities", "pending-members"})
MemberDetail == On({"useChangeMemberRole", "useRemoveMember"}, {"my-communities", "members"})
ContentModeration == On({"useModeratePost"}, {"my-communities", "moderation-queue"})
InitiativeModeration ==
    On({"useApproveInitiative", "useRejectInitiative"}, {"my-communities", "community-initiatives"})
CommunitySettings == On({"useUpdateCommunity"}, {"my-communities"})
AdminWizard == On({"useOnboardCommunity", "useUpdateCommunity"}, {"my-communities"})
CancelSubscription ==
    On({"useCancelMySubscription"}, {"my-subscriptions", "my-communities"})
IssueRefund == On({"useRefundPayment"}, {"payment"})
SuperUserDetail == On({h.name : h \in SuperUserHooks}, {"super-user-detail"})
SuperCommunityDetail ==
    On({"useSuperSuspendCommunity", "useSuperRestoreCommunity", "useSuperDeleteCommunity"},
       {"super-community-detail"})

Screens ==
    {CommunityDetail, Discover, EventDetail, Materials, EventQA, AttendeeList, PostDetail,
     InitiativeDetail, Inbox, NotificationPrefs, PrivacySettings, ApprovalQueue, MemberDetail,
     ContentModeration, InitiativeModeration, CommunitySettings, AdminWizard,
     CancelSubscription, IssueRefund, SuperUserDetail, SuperCommunityDetail}

OneScreen(h, q) == \E s \in Screens : h.name \in s.uses /\ q.key \in s.shows

Pairs ==
    {p \in [hook : Hooks, query : Queries] :
        /\ p.hook.writes \cap p.query.reads # {}
        /\ p.query.key \in p.hook.refreshes \/ OneScreen(p.hook, p.query)}

-----------------------------------------------------------------------------
(* The cache entry of the query, and the calls of the hook                 *)

Entry == [mounted : BOOLEAN,   \* a component shows it
          state : {"empty",    \* no data
                   "fresh",    \* a component that mounts does not ask again
                   "aged",     \* older than staleTime
                   "invalid"},
          data : SUBSET Calls,            \* the changes the data shows
          get : {"none", "asked", "read"},
          got : SUBSET Calls,             \* what the answer under way shows
          again : BOOLEAN,                \* it is the retry
          late : BOOLEAN,      \* it has been under way since before a change
                               \* of this tab was answered, or brought back
          overtaken : BOOLEAN] \* the data came that way, or before one was
NoEntry == [mounted |-> FALSE, state |-> "empty", data |-> {}, get |-> "none", got |-> {},
            again |-> FALSE, late |-> FALSE, overtaken |-> FALSE]

Call == [pc : {"idle", "sent", "loaded", "saved", "answered", "lost", "refused"},
         loaded : SUBSET Calls,   \* the privacy settings the request found
         alone : BOOLEAN]         \* no other change of them overlaps with it
NoCall == [pc |-> "idle", loaded |-> {}, alone |-> TRUE]

TypeOK ==
    /\ pair \in Pairs
    /\ server \in SUBSET Calls
    /\ tab \in Entry
    /\ call \in [Calls -> Call]

Init ==
    /\ pair \in Pairs
    /\ server = {}
    /\ tab = NoEntry
    /\ call = [c \in Calls |-> NoCall]

InPlace == pair.hook = UpdatePrivacy

-----------------------------------------------------------------------------
(* Queries                                                                 *)

Asking(e) == [e EXCEPT !.get = "asked", !.got = {}, !.again = FALSE, !.late = FALSE]
Ask(e) == IF e.get = "none" THEN Asking(e) ELSE e

\* useQuery()
Mount ==
    LET e == [tab EXCEPT !.mounted = TRUE] IN
    /\ ~ tab.mounted
    /\ tab' = IF e.state = "fresh" THEN e ELSE Ask(e)
    /\ UNCHANGED <<pair, server, call>>

Unmount ==
    /\ tab.mounted
    /\ tab' = [tab EXCEPT !.mounted = FALSE]
    /\ UNCHANGED <<pair, server, call>>

\* staleTime; no query asks again on its own.
Age ==
    /\ tab.state = "fresh"
    /\ tab' = [tab EXCEPT !.state = "aged"]
    /\ UNCHANGED <<pair, server, call>>

\* gcTime
Collect ==
    /\ ~ tab.mounted /\ tab.get = "none" /\ tab.state # "empty"
    /\ tab' = NoEntry
    /\ UNCHANGED <<pair, server, call>>

\* The server answers the GET.
Read ==
    /\ tab.get = "asked"
    /\ tab' = [tab EXCEPT !.get = "read", !.got = server]
    /\ UNCHANGED <<pair, server, call>>

Arrive ==
    /\ tab.get = "read"
    /\ tab' = [tab EXCEPT !.state = "fresh", !.data = tab.got, !.get = "none", !.got = {},
                          !.late = FALSE, !.overtaken = tab.late]
    /\ UNCHANGED <<pair, server, call>>

\* It is tried once more.
Fail ==
    /\ tab.get # "none"
    /\ tab' = IF tab.again
              THEN [tab EXCEPT !.get = "none", !.got = {}, !.late = FALSE,
                               !.state = IF @ = "empty" THEN @ ELSE "invalid"]
              ELSE [tab EXCEPT !.get = "asked", !.got = {}, !.again = TRUE, !.late = FALSE]
    /\ UNCHANGED <<pair, server, call>>

-----------------------------------------------------------------------------
(* The hook                                                                *)

\* invalidateQueries(): what is mounted is asked again.  A GET that is under
\* way is given up for the new one only if there is data to show meanwhile.
Invalidated(e) ==
    LET f == [e EXCEPT !.state = IF @ = "empty" THEN @ ELSE "invalid",
                       !.late = e.get # "none"] IN
    IF e.mounted /\ (e.get = "none" \/ e.state # "empty") THEN Asking(f) ELSE f

\* setQueryData(): a GET that is under way goes on.
Replaced(e, d, others) ==
    [e EXCEPT !.state = "fresh", !.data = d, !.late = e.get # "none",
              !.overtaken = others]

InFlight(c) == call[c].pc \in {"sent", "loaded", "saved"}

Send(c) ==
    /\ call[c].pc = "idle"
    /\ call' = [d \in Calls |->
                  IF d = c
                  THEN [call[c] EXCEPT !.pc = "sent",
                                       !.alone = InPlace => ~ \E o \in Calls : InFlight(o)]
                  ELSE [call[d] EXCEPT !.alone = @ /\ (InPlace => ~ InFlight(d))]]
    /\ UNCHANGED <<pair, server, tab>>

\* updatePrivacy() changes the settings of the user its request loaded.
Load(c) ==
    /\ InPlace /\ call[c].pc = "sent"
    /\ call' = [call EXCEPT ![c].pc = "loaded", ![c].loaded = server]
    /\ UNCHANGED <<pair, server, tab>>

\* Of three requests that overlap, one may bring back what another has undone.
BringsBack(c) == InPlace /\ ~ (call[c].loaded \subseteq server)

Save(c) ==
    /\ call[c].pc = IF InPlace THEN "loaded" ELSE "sent"
    /\ server' = IF InPlace THEN call[c].loaded \cup {c} ELSE server \cup {c}
    /\ call' = [call EXCEPT ![c].pc = "saved"]
    /\ tab' = IF BringsBack(c)
              THEN [tab EXCEPT !.late = @ \/ tab.get = "read", !.overtaken = TRUE] ELSE tab
    /\ UNCHANGED pair

Refuse(c) ==
    /\ call[c].pc = "sent"
    /\ call' = [call EXCEPT ![c].pc = "refused"]
    /\ UNCHANGED <<pair, server, tab>>

\* onSuccess
Answer(c) ==
    /\ call[c].pc = "saved"
    /\ call' = [call EXCEPT ![c].pc = "answered"]
    /\ tab' = IF InPlace THEN Replaced(tab, call[c].loaded \cup {c}, ~ call[c].alone)
              ELSE IF pair.query.key \in pair.hook.refreshes THEN Invalidated(tab) ELSE tab
    /\ UNCHANGED <<pair, server>>

\* The answer does not come: the hook has failed, as far as the tab knows.
Lose(c) ==
    /\ call[c].pc = "saved"
    /\ call' = [call EXCEPT ![c].pc = "lost"]
    /\ UNCHANGED <<pair, server, tab>>

Next ==
    \/ Mount \/ Unmount \/ Age \/ Collect \/ Read \/ Arrive \/ Fail
    \/ \E c \in Calls : \/ Send(c) \/ Load(c) \/ Save(c) \/ Refuse(c)
                        \/ Answer(c) \/ Lose(c)

Spec == Init /\ [][Next]_vars

-----------------------------------------------------------------------------
(* Properties                                                              *)

\* The tab shows the data, or would if a component mounted, and asks for no other.
Shows ==
    /\ tab.get = "none"
    /\ tab.state = "fresh" \/ (tab.state = "aged" /\ tab.mounted)

Confirmed == {c \in server : call[c].pc = "answered"}

\* What a hook changes is on its own screen, and it does not refresh it: the
\* count of members until the welcome page, or in the staff's own list of
\* communities, two counts of comments, the state of the wizard, and the
\* community just deleted.
Missed == {<<"useJoinCommunity", "community">>,
           <<"useApproveMember", "my-communities">>, <<"useRemoveMember", "my-communities">>,
           <<"useCommentOnPost", "post">>, <<"useCommentOnInitiative", "initiative">>,
           <<"useOnboardCommunity", "my-communities">>,
           <<"useSuperDeleteCommunity", "super-community-detail">>}

\* The user sees what he has done: once the answer to a change has come and
\* nothing is being fetched, what the tab shows contains it, on the screen of
\* the change and wherever its hook refreshes, whatever was mounted, fetched
\* or refused meanwhile.  Except for data that was being fetched already when
\* the answer came and that the library did not ask for again: the first load
\* of a query, a load left under way by a screen, and the answers of privacy
\* changes that overlap with each other or with a load, or bring another back.
\* The pairs of Missed are left out.
OwnWritesSeen ==
    <<pair.hook.name, pair.query.key>> \notin Missed =>
        (Shows /\ ~ tab.overtaken => Confirmed \subseteq tab.data)
=============================================================================
