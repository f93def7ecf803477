# Communities: a TLA+ model of the backend and its clients

The repository is a multi-tenant platform for communities: an Express backend
on MongoDB (`backend/`), a React web client (`web/`), a Flutter app
(`mobile/`), and a dashboard for developers (`dashboard/`). Members join
communities, answer invitations to events, pay for events and memberships
through the PayPlus gateway, propose initiatives, and write posts.

The backend has no locks. Every `await` lets other requests run, documents
are loaded, changed in memory and saved later, and only six functions use a
MongoDB transaction. Most of the correctness of the program is about what such
handlers, webhooks, nightly jobs and clients may do to each other. That is what the
modules here describe. Each module is written from the code; its header names
the files.

## 1. Inventory

### Modelled

**Event RSVPs** (`services/event.service.ts`: `rsvp`, `cancelRsvp`,
`cancelEvent`; `models/Event.ts`, `models/EventRSVP.ts`). State: the Event
document with its capacity, status and counters; one EventRSVP row per member
and event (unique index). Operations: answering (in a capacity transaction for
"going" to an event with limited seats, directly otherwise), cancelling with
promotion of the oldest waitlister, cancelling the event. Hard: counting rows in a
snapshot while others write rows, promotion from stale documents, counters
kept by separate writes, the event being cancelled under open requests.
Correct when seats are never oversold, the waitlist is served in order, a
cancelled event keeps nobody, and every request is answered. Module `EventRsvp`.

**Events around the answers.** Edits (`updateEvent`, `applyScopedEdit`; the forms),
the day itself (the page of a member, the door's list and check-in), questions and
answers (`event-qa.controller.ts`), materials and recap. State: the Event
document, marks on RSVP rows, EventQA documents, Material rows. Hard: an answer
and a check-in save the same row; votes are pushed and spliced beside saves; a
page goes on with what it once loaded; a loop uploads on after its page was
left. Correct when each is saved as its user meant it. Modules `Edits`, `EventDay`,
`Questions`, `Materials`, `Recap`.

**Recurring events** (`recurring.service.ts`, `recurringEvents.job.ts`, scoped
cancellation and edits). State: a template and its materialised instances.
Hard: the window moves while runs, cancellations and edits overlap; what has
passed is counted anew each time. Correct when there is one instance for each date
the rule asks for, and none of a series that was called off. Module `Recurring`.

**Event payments** (`services/payment/GatewayService.ts`,
`controllers/webhook.controller.ts`, `jobs/expirePayments.job.ts`,
`cancelRsvp` on paid rows). State: Payment rows, the ticket on the EventRSVP
row, the revenue counters of event and community; outside, PayPlus's own
ledger. Operations: checkout, the webhooks for success, failure and refund, the
admin's refund, the expiry of stale checkouts. Hard: webhooks late, repeated
and out of order; documents loaded before an await and saved after it; crashes
between two saves. Correct when no refund is overstated, revenue is booked
once, tickets are backed by money, and whoever was charged is settled. Module
`Payments`; the refunding page in `Till`, the figures in `Reports`, the
migration of old rows (`scripts/migrateStripeToPayplus.ts`) in `Migration`.

**Subscriptions** (`GatewayService.ts`, `models/Subscription.ts`,
`jobs/subscriptionRetry.job.ts`). State: the Subscription document (status,
failed attempts, period, PayPlus ids), Payment rows for its charges; outside,
PayPlus's program. Operations: checkout, cancellation, three recurring
webhooks, the nightly retries with the saved card. Hard: the job works on
documents loaded at its start; answers of PayPlus get lost; webhooks are
repeated and reordered. Correct when an active subscription is paid for, a
cancelled one charges no more, and retries end. Module `Subscriptions`; the member's pages
in `Plans`.

**Sessions and accounts** (`services/token.service.ts`, `services/auth.service.ts`,
`google-oauth.service.ts`, `middleware/auth.ts`, `web/src/lib/{api,auth}.ts`,
`mobile/lib/core/network/{api_client,token_store}.dart` and their callers).
State: RefreshToken and User documents, the token each client holds in
memory and on disk. Operations: registration, verification, password reset, Google,
login, refresh with rotation, logout, deleting and disabling. Hard: a token is found, revoked
and replaced in separate writes; tabs share one `localStorage`; mails fail between two
saves. Correct when a token is exchanged once, no device is signed out by what others do,
and an address has one account. Modules `Sessions`, `Accounts`.

**Communities, memberships, invitations, roles** (`community.service.ts`,
`middleware/role.ts`, the checks of all controllers). State: Membership rows,
Invitation documents, the member counter; the client's own copies of them. Hard: an
invitation is marked after the transaction that used it; counters are saved
from stale reads; client and server decide by rules of their own. Correct when
the count is exact where the code can keep it so, an invitation admits once, and a page
that lets a user in is served. Modules `Memberships`, `Access`, `Edits`.

**Initiatives, posts, notices** (`initiative.service.ts`, `post.service.ts`,
`notification.service.ts`, `admin.controller.ts`, `super.controller.ts`). State:
documents with arrays and counters beside them; inboxes. Hard: pushes and assigned arrays under
Mongoose's versions, deletions in two steps, fan-outs that fail in part. Correct when no
support or decision is lost, counters are those of what they count, and everyone is told once.
Modules `Initiatives`, `Posts`, `Notices`.

**Reading.** Pages of lists (`utils/pagination.ts`) while rows come and go: `Paging`.
The web client's query cache (`web/src/lib/queries.ts`, every query and every mutation
with the keys it refreshes): `QueryCache`.

### Not modelled

- HTTP shell: Express wiring, validation, error envelopes, rate limits and the
  metrics buffer keep no state that interacts.
- Layout and the pages that only read; the audit log, which is appended to and only listed;
  notification preferences beyond saving them (`Edits`).
- The mobile client but for its tokens (`Sessions`): its screens call the
  same API and keep no cache.
- Google, mail, storage and PayPlus's HTTP client are adapters: what they may answer is a
  choice in the modules that call them. PayPlus's sandbox client, signature
  checks and `getTransaction`, which nothing calls, are left out.
- Monthly rules of recurring events (calendar arithmetic); expiry of refresh
  tokens; likes and the plain creation of documents (one write each); deletion
  of a community.
- The developer dashboard (`dashboard/`, `backend/scripts/apiTestDashboard.ts`), design assets,
  `prds/`, `agents/` and `infra/` are not part of the running product.

### How the parts meet

`rsvp()` asks Payments and Subscriptions whether the caller has to pay (402);
a paid ticket creates or changes the EventRSVP row from `settleEventPayment`;
a refund cancels it; `cancelRsvp` frees a seat and promotes. Every call passes
`verifyToken`, which reads the User document Sessions changes, and a guard that
reads Membership rows. The jobs share documents with the webhooks. Materials
and recap share storage; the client's pages share its cache. Each module stands for one
of these parts and leaves the others as assumptions, named in its header. Parts
whose code shares no state in what is modelled are checked side by side (section 4).

## 2. Plan

Done, each with theorems about every safety property a run checks: `EventRsvp`/`Seats`, `Payments`,
`Sessions`, `Subscriptions`, `Memberships`, `Initiatives`, `Recurring`, `EventDay`, `Questions`,
`Notices`, `Recap`, `Paging`, `Posts`, `Materials`, `QueryCache`, `Access`, `Edits`, `Accounts`,
`Plans`, `Reports`, `Till`, `Migration`.

Left, in this order:

1. A crash between a renewed subscription and its Payment row
   (`GatewayService.ts:481`), and a failing save inside the job's `try`: `Subscriptions`
   assumes that neither happens.
2. Paid events with limited seats: `EventRsvp` with `Payments`, whose
   `settleEventPayment` ignores the capacity.
3. Monthly rules in `Recurring`.
4. The theorems "in turn" for the cases that do hold when handlers overlap, one handler at a time.

## 3. The modules

All handler modules have one shape. `work` (or `req`, `subWork` ...) holds a record per
request, webhook or job run in flight: `pc` names the round trip it is about to
make, the other fields what it has read. A `Begin...` action is the handler up
to its first await that others can notice; each further action is one round
trip. `Go`, `GoTo` and `Done` move a worker on. A mongoose `save()` writes the
fields that were changed since loading (`Merge`), so a stale document undoes
only those. A transaction reads a snapshot; `missed` collects the documents
that others have written since, and the commit succeeds only if none of them is
in its write set; otherwise `Retry` starts over with a new snapshot, as
`withTransaction` does. Definitions whose comment says "Mutant of" are not part of any specification:
they are plausible bugs, listed under `mutants` in `PROJECT.json`, each of which
one property detects.

### EventRsvp, Seats

| variable | code |
|---|---|
| `event` | status, capacity, `metrics.rsvpCount`, `metrics.waitlistCount` of the Event document |
| `rows`, `rank` | status and order of `createdAt` of each member's EventRSVP row |
| `req`, `sent` | requests in flight; how many were sent |
| `fresh` | history: members whose row is still the "going" one that the capacity transaction created |

`BeginRsvp` checks the status and chooses the path; `Snapshot`, `CommitExisting`,
`CommitNew`, `Retry`, `DuplicateInTxn` are the capacity transaction of `rsvp()`;
`Find`, `SaveExisting`, `SaveNew`, `Bump` the path without limit; `Release`,
`Decrement`, `Pick`, `Promote`, `Recount` are `cancelRsvp()`; `Close`, `Sweep`
`cancelEvent()`. `Seats` is the abstract promise: a seat is granted only while
one is free. It is implemented with two refinement mappings: holders are the
first-time RSVPs (`FreshSeatsImplementSeats`, whatever overlaps) or all who are
going (`GoingImplementsSeats`, one request at a time).

Abstractions: notes and notifications are left out, check-in is in `EventDay`; the event is
free or covered by the caller's subscription and the caller an active member
(other outcomes write nothing); two creations never tie in `createdAt`;
`updateMany` is one step; capacity is not edited; handlers do not crash; rows
are never deleted (nothing in the code deletes them).

### Payments

| variable | code |
|---|---|
| `payment`, `owner` | the Payment rows and their `userId` |
| `rows` | the EventRSVP row: status, `paymentStatus`, `paymentId` |
| `metrics` | counters of the Event and the Community document |
| `gateway` | PayPlus: page opened, charged, declined, money returned, refunds to report |
| `work` | requests and webhooks |

`BeginCheckout`/`Create`/`OpenPage` are `createEventCheckout`;
`BeginSuccess` to `DuplicateRow` `onPaymentSuccess` and `settleEventPayment`;
`BeginFailure`/`Fail` `onPaymentFailure`; `Expire` the job;
`BeginRefund` to `Vacate` `issueRefund`; `BeginRefundHook` to `Unbook`
`onRefundSuccess`; `BeginCancel`/`Release`/`Decrement` `cancelRsvp` on a paid
row. `Crash` ends a worker anywhere when `MayCrash`. `CreatePaymentPage`, `Refund` (the client's calls), `Charge`, `Decline`,
`Return`, `DashboardRefund` are PayPlus, known only by how the code uses it: a
webhook may come whenever its cause holds, so it is late, repeated and
reordered at will.

Abstractions: one published, paid event of unlimited capacity, not included in
subscriptions; every payment is for its price; installments, page ids, the
refund window and notifications are left out.

### Sessions

| variable | code |
|---|---|
| `token`, `next` | RefreshToken documents: `revokedAt`, `replacedByTokenId` |
| `from` | history: what a token was issued in exchange for |
| `account` | `status` and `scheduledDeletionAt` of the User |
| `held`, `disk` | token in each client's memory; the browser's `localStorage` |
| `swept` | history: a revoked token was presented |
| `work` | a request from sending it to dealing with its answer |

Clients: `Refresh` (the interceptor of `api.ts`, `ApiClient._refreshing`),
`LogIn`, `SignOut` (web: local only), `LogOut` (phone), `DeleteAccount`,
`Reload`. Server: `Find`, `Consume`, `Sweep`, `CheckUser`, `Issue`, `Link` are
`refreshSession` over `consumeRefreshToken` and `issueRefreshToken`;
`CheckLogin`, `Revoke`, `Verify`, `Disable`, `Purge`, `SetStatus` the other
handlers; `Fail` an error at any point. Answers: `Refreshed`, `Retried`,
`LoggedIn`, `LoggedOut`, `Deleted`, `Refused`, `GiveUp` (no answer), `Unheard`.

Abstractions: one user; access tokens are not modelled (a client may find its
own expired at any time); refresh tokens do not expire; registration,
verification and password reset are in `Accounts`; `setUser` writing a stale tab's
tokens to `localStorage` is left out.

### Subscriptions

| variable | code |
|---|---|
| `sub` | the Subscription documents; `covered`: `currentPeriodEnd` is over 28 days ahead |
| `booked` | Payment rows, by their `gatewayTransactionId` |
| `recurring` | PayPlus: state of the program, charges made, those it reports, whether it reports a refusal |
| `subWork` | requests, webhooks, runs of the job |

`Handlers` declares the workers, which Payments has as well; the two have names of their own, so that
`MCBilling` extends both.
`BeginSubscribe`, `CreateSubscription`, `OpenRecurringPage`, `SaveIds` are `createSubscription`;
`BeginCancelSubscription`, `Stop`, `SaveAtEnd` `cancelSubscriptionForUser`;
`BeginRecurringSuccess`/`SaveRenewal`/`Book`, `BeginRecurringFailure`/`SaveFailure`,
`BeginCancelled`/`SaveCancelled` the webhooks; `BeginJob`, `ChargeCandidate`,
`SaveRecovery`, `BookRetry`, `Bump`, `EndJob` the job. `CreateRecurring`, `CancelRecurring`
and `ChargeToken` are the client's calls; the latter two may
take effect at PayPlus and lose the answer. `Age` is the passing of time.

Abstractions: one member and community; the webhook carries a transaction
id; the period is only "over 28 days ahead" or not, which is all the handlers
ask; the database does not fail and the process does not crash.

### Serving, Memberships

`Serving` declares what the next three modules share: `pool`, the workers of the behaviour
(one: requests take turns; more: they overlap), and `sent`, the requests begun.

| variable | code |
|---|---|
| `community` | privacy and `memberCount` of the Community; `open` is history: it was once not invite-only |
| `rows` | each user's Membership (unique index on user and community) |
| `invs` | the Invitation documents |
| `applied`, `admitted` | history: who has applied; for whom and how often an invitation made a Membership |
| `work` | requests in flight |

`BeginJoin`, `CreateRow`, `SaveCount` are `joinCommunity`; `BeginApply`, `Apply`
`requestJoinCommunity`; `BeginInvite`, `Invite`, `Expire` the invitations; `BeginAccept`, `Admit` (the
transaction), `Spend` `acceptInvitation`; `BeginReview`, `FindRow`, `SaveApproval`, `CountUp`,
`Reject` the applications; `BeginChangeRole`, `FindTarget`, `CheckActor`, `SaveRole`;
`BeginRemove`, `DeleteRow`, `CountDown`; `BeginUpdate`, `SavePrivacy`. Abstractions:
everybody has an account; the database does not fail; `MaxCount` bounds the counter.

### Initiatives

`ini` is the document (status, the array of supporters with repeated entries, counters), `comments` the
number of Comment documents, `iniWork` the requests with the document each has loaded and whether
its version is still the current one. `BeginSubmit`, ..., `SaveReview` are the review,
`SaveSupport` pushes (and raises the version), `SaveUnsupport` assigns the filtered array
and fails when the version has moved on, `AddComment` is a transaction,
`DeleteComments` and `DeleteDoc` are the two steps of the deletion. Edits of the text and
notifications are left out.

### Recurring

`rule` is the parent's recurrence rule, `event` the status of the parent and of each
instance (`<<day, n>>`: the n-th of that day), `today` the day, `task` the workers, `ended` the dates a
cancellation has called off. `CreateEvent`, `BeginJob`, `LoadParent`,
`FindExisting`, `InsertMany` are `materializeInstances`; `Occurrences` is
`computeOccurrences` with `CountedBefore` (`countOccurrencesBetween`) as the code
computes it; `FindDocs`, `CancelOne`, `EndCancel` the scoped cancellation; `SaveEdit`, `Snapshot`, `Commit` the
scoped edit of the status. `Wanted` says of each day by itself whether the rule asks for it.
Time is counted in days; monthly rules are left out.

### Edits

One document (`about`: an event, a community, a user, the platform's settings), edited in several
browsers. `page` is what a screen has loaded and what was entered, `store` the browser's copy
of the user, `wanted` what was entered last in each field. `Sent` says which fields each
of eleven screens sends, `applyScopedEdit`, `updateCommunity`, `updateMe`,
`updatePrivacy`, ... what the server takes of them. `EditsKept`: the document is
what was entered, whatever the screens and their order. A behaviour is followed up to the
first save from an outdated screen, which may revert another's. Excepted are the
inputs `Kept` names, which no save keeps (see section 5).

### Access

`standing`, `rows`, `global`, `manages` are the server's truth about one account; `tab` the client's
copies and the chosen community. `Served` is the backend's answer to a route
(`LoadMembership`, `LoadEventScope`, `RequireCommunityRole`, `RequireEventManager`, the checks in
handlers), `Admits` the client's gate before a page, `NavTabs` and `LandingPages` where
navigation and login lead. `PagesWork`: while the tab's copies are current, the pages it
leads to let the user in, and what they ask of the chosen community is served,
but for what `InVain` names.

### Accounts

`user` is the document of one address, `accounts` how many there are, `inbox` the code and link of the
last mails, `tab` each tab's screen and copy of the user, `call` its request.
`Register` to `Mail`, `Google`, `Accept`, `Join`, `Login`, `Resend`, `Verify`, `Forgot`,
`Reset` with their saves, `ProfileSetup`, `InterestsSelector` and the gate. `AccountsWork`: one
account per address, whoever is home has a name and interests, the last mail's link works once.

### EventDay

`row` the answers and marks, `figures` the event's counters, `priced` whether it costs, `tab` the page in
each browser, `toggle` the check-in each door has under way. `MarkedAsMeant`,
`ConfirmedHolds`, `GoingNotOverstated`, `FirstIsNext`, `FiguresOfDoor`, `ToldMayRead`: a
check-in and an answer keep each other's fields; "You're in" is true; the list at the door calls first whom a
cancellation promotes. The server answers one RSVP at a time (`EventRsvp` has the races).

### Questions

`board` the EventQA documents, `hand` and `desk` the pages of attendees and hosts. `SaveUpvote` pushes,
`SaveWithdraw` splices under the version; `SaveHost` pins, resolves, answers. `VotesCounted`,
`ResolvedAreAnswered`, `TriageAgrees`.

### Materials, Recap

`Materials`: `queue` the rows of the page, `loop` the upload loop of each visit, `upload`
the tries of each row and how far the server is; the browser gives up after 12 s, the server may go on.
`AddedAsShown`, `NoFileForgotten`, `OneStream`. `Recap`: `summary` the published recap, `screen`
the managers' pages, `request`, `stored`. `RoomKept`, `PhotosKept`, `CountEnds`,
`ConfirmedIsWhole`: the recap shows what its managers chose and no more than there is room for (12 in the
code, `MaxPhotos` here).

### Posts, Notices

`Posts`: `post`, `thread` (Comment documents), the actors' requests, the box of each page, and
`erased`, `late` as history of deletions cut short. `CountAddsUp`, `NothingLeftBehind`,
`DecisionStands`, `DraftsKept`, `PostedOnce`. `Notices`: `send` the broadcasts,
recaps and changes of the community's status, `mail` the inboxes. Recipients are read once, each
write may fail: a broadcast stops, `fanOut` goes on. `EveryoneTold`, `OncePerPress`,
`LastSaysStatus`, `ReadOnce`, `BadgesAddUp`.

### Paging

`list` has rows numbered by (`createdAt`, `_id`), `reader` asks for pages by cursor
while rows are created, deleted, pinned; `steady` are the rows that were there throughout.
`PagesAddUp`: none twice, none missed; posts some of which are pinned and the initiatives
as a member sees them are excepted (section 5).

### QueryCache

A behaviour follows one mutation hook and one query (`pair`, over every hook of `queries.ts`
with every query that shows what it changes): `server` the calls whose change a GET
would show, `tab` the cache entry (data, age, mounted, request under way), `call` the
mutations. `Mount`, `Unmount`, `Age`, `Collect`, `Read`, `Arrive`, `Fail` are the library under the options of
`main.tsx`, known by how the code uses it. `OwnWritesSeen`: after the answer to a change,
what the tab shows contains it. The pairs in `Missed` are hooks that do not refresh what they change.

### Reports, Till, Plans, Migration

`Reports`: `computeFinancials` (queries that end in any order) and the curve of growth, while payments and
members come and go: `FinancesAgree`, `CurveEndsAtMembers`. `Till`: the refund dialog and
`issueRefund`, with the browser's 12 s against the server's 15 s: `NoMoreThanShown`,
`ConfirmationTrue`, `OncePerVisit`. `Plans`: a member's pages of subscriptions:
`EndIsTrue`, `ChargedIsListed`, `OneProgram`. `Migration`: the script's updates in
order, dry, cut short and repeated, beside a running server: `IdsKept`, `NothingLeft`,
`NewRowsKept`.

## 4. Runs

| run | instance | states | shows |
|---|---|---|---|
| `rsvp_concurrent` | 3 members, 2 requests at a time, 4 in all, capacity 1 or none | 316,665 | `FreshSeatsWithinCapacity`, refinement of `Seats` by first-time RSVPs, `EveryRequestAnswered` |
| `rsvp_serial` | RSVPs: 3 members, 1 request at a time, 6 in all, capacity 1, 2 or none; beside them the parts of `MCEventDay` | 1,274,474 | `CancelledEventIsEmpty`, `PromotesOldest`, refinement of `Seats` by all who are going, `EventDayWorks` |
| `rsvp_overbooked` | 3 members, 2 requests, capacity 1 | violation | `CapacityRespected` fails when requests overlap |
| `billing` | 1 worker; 2 payments of a member (price 2), or 1 subscription with 3 charges and 4 counted failures | 162,520 | `TicketIsPaid`, `RefundedInFull`, `SettledStays`, `ChargedIsSettled`, `ActiveIsBooked`, `ActiveIsClear`, `CancelStopsProgram`, `RetriesEnd` |
| `payments_concurrent` | 1 payment, 2 workers, crashes; beside it the parts of `MCReports` | 1,410,228 | `RefundsNeverOverstated`, `BookedOncePerMember`, `MoneyAddsUp` |
| `payments_unsettled` | 1 member, 1 payment, 2 workers | violation | `SettledStays` fails when webhooks overlap |
| `sessions_devices` | a tab, a phone, 4 tokens, 2 requests in flight | 565,918 | `OneTimeUse`, `ExchangedIsRevoked`, `HeldIsLive` |
| `sessions_shared` | 2 tabs, 3 tokens, reloads at any time | violation | `OneTimeUse` fails |
| `subscriptions_resurrected` | 1 worker, 1 subscription | violation | `CancelledStays` fails |
| `communities` | the parts of `MCCommunities` | 1,196,927 | `InviteOnlyCountExact`, `InvitationAdmitsOnce`, `CommentCountExact`, `SupportersInTurn`, `SupportNotLost`, `DatesOfRule`, `WindowFilled`, `OneInstancePerDate`, `EndedStays`, `ContentAddsUp` |
| `screens` | the parts of `MCScreens` | 2,459,175 | `OwnWritesSeen`, `PagesWork`, `EditsKept`, `AccountsAndPlansWork` |
| `recurring_cut_short` | every other day, three times, 1 worker | violation | `CountAccurate` fails |

The passing runs check the type invariants, some of them as part of a sum.
Deadlock is not checked: each system may stop for good when clients ask for
nothing more or a bound is reached.

**Sums of parts.** `MCCommunities`, `MCScreens`, `MCBilling`, `MCEventDay` and `MCReports` each put
modules side by side that share no modelled state: `part` says which of them a behaviour is about,
and the others stay as they are. That covers each part's whole state space, and nothing
that arises between parts is claimed. `ContentAddsUp`, `EventDayWorks`, `MoneyAddsUp` and
`AccountsAndPlansWork` are conjunctions of the parts' properties.

| part of | instance |
|---|---|
| `communities` | memberships: 2 users, 2 invitations, 1–2 workers, 5 requests; initiatives: 2 members, 6 requests; recurring: 4 ticks, 2 requests and one worker, or 1 tick, 1 request and two workers, horizon 3, 4 rules; paging: 4 rows, pages of 1 or 2; posts: 1 writer, 2 moderators, 2 drafts, 3 calls; materials: 2 files, 2 uploads each, 2 visits |
| `screens` | cache: 2 calls of every hook against every query; access: 2 communities; edits: 2 browsers, 2 entries, 2 saves; accounts: 2 tabs, 5 requests; plans: 2 subscriptions, 3 calls |
| `rsvp_serial` | event day: 3 members, one of them with a browser, 2 doors, 1 seat, 4 answers; questions: 2 attendees, 1 host, 2 questions, 5 taps; notices: 2 people, one who waits and one who was there, 2 sends, 1 move, 2 marks; recap: 2 managers, 2 photos, room for 1, 2 publications |
| `payments_concurrent` | reports: 2 receipts of price 2, one event, 2 bars, months 0 to 2, 2 people, 4 moves; till: 1 browser, price 2, 2 presses; migration: 2 runs |

**Serial and concurrent instances.** Several properties hold only while
handlers do not overlap; their comments say so (`Cardinality(pool) = 1`, or the run has one
worker). Those runs still interleave handlers with the
gateway, the job for expiry and time, and with webhooks repeated and out of
order. What holds in every interleaving is checked with two workers, or proved.

**Bounds.** Four overlapping RSVP requests let two first-time
answers race, with a cancellation or an event's cancellation in between; six serial ones
fill an event of two seats, form a waitlist of one, and free and refill a
seat. Two requests at a time suffice for every race of two handlers; three
members with one seat leave two waiting, so that order matters. `Price` = 2:
partial refunds, two of which make a full one. A third worker was tried for
Payments' concurrent part (6.19 million states): nothing new. `ActiveIsBooked` was also tried with
two workers on one subscription with two charges (2.3 million states, no violation); the theorem covers any
number. `Tokens`: four are two
logins and two exchanges, or one login and a chain of three. `MaxCharges` = 3:
the first payment, a renewal, and a charge of the job. `MaxFailures` = 4: past
the limit of three, so that the branch `>= 3` is taken more than once.
Five membership requests: an invitation, its acceptance, a removal and two more that overlap them.
Recurring: the window of three days moves over a rule's end; two instances of a date tell a duplicate.
Two entries and two saves are the least with which a save can revert another's. `IdsLeft` and
`MaxCount` bound what a client could repeat for ever.
Symmetry is used for safety only, never with fairness.

**Fairness.** A handler that has begun runs on: weak fairness of `Step` or
`Serve` per worker, which the event loop gives. Nothing is assumed of users,
of devices, or of the outcome of a call to PayPlus. `ChargedIsSettled` assumes that
PayPlus sends the success of a payment again until it was taken in (strong
fairness, because workers may be busy): the handler answers an error when it
failed and the gateway repeats. `RetriesEnd` assumes that the job, which cron starts
every night, starts again and again while it has candidates; strong, because the one worker may be busy with a
webhook at that hour. No answer of PayPlus is assumed to be a success.

## 5. Findings

Shown by a run:

- **Overbooking** (`rsvp_overbooked`). `rsvp()` counts the going rows in a
  transaction. A first-time answer also writes the Event's counters, a member
  who answers anew writes only his own row. One of each, from the same
  snapshot, have no document in common: both commit, and the last seat is
  given twice. `prds/08-event-system.md:54` calls capacity "Max attendees".
- **A settled payment turns failed** (`payments_unsettled`).
  `onPaymentFailure` checks the status it loaded; by the time it saves, a
  success webhook may have settled the payment. `GatewayService.ts:27`
  promises "skip if Payment already final".
- **A refresh token used twice** (`sessions_shared`). `consumeRefreshToken`
  finds and revokes in two steps; a tab reloaded in the middle of a refresh, or
  two tabs, present the same token and both get a successor. `docs/DECISIONS.md:19`
  says one-time-use. Alone, each client prevents it by having one refresh
  under way, which `sessions_devices` shows.
- **A cancelled subscription comes back** (`subscriptions_resurrected`).
  `onRecurringSuccess` does not look at the status. `docs/DECISIONS.md:178`
  says every handler short-circuits in a terminal state.
- **A series is cut short** (`recurring_cut_short`). `countOccurrencesBetween`
  advances by single days whatever the interval (`recurring.service.ts:212`), so that
  more of a daily series with an interval counts as past than took place, though the comment at line 186
  says it keeps `count` accurate.

Met while modelling, by reading; the models do what the code does, and where a property would fail
for it, its comment names the exception.

*Events.* A biweekly rule takes every matching day of every week (`recurring.service.ts:180`; the
test at `recurring.service.test.ts:40` says every 14 days). Edits of start, end and timezone
are dropped by `applyScopedEdit`; `freeForSubscribers` and price tiers are never
sent. A sub-admin's edit sends `pricing: free`: refused if there is a
price, and a subscription-only event becomes free. A full event answers 201 with a
waitlisted row, which the page shows as confirmed; the comment at
`EventDetailScreen.tsx:67` expects 402, which means payment required. A waitlisted
member has no way to leave on the web; one who is going and answers again while the
event is full is waitlisted. `rsvpCount` and `waitlistCount` drift, the latter below zero.
Any member may ask and vote, votes of one member that overlap count twice. Q&A is listed by time, not votes
(`EventQAScreen.tsx:86`). The "Visible to" choice of materials is never sent. Recap photos
are listed as materials although `queries.ts:484` says they are not. The `break` at `PublishRecapScreen.tsx:95`
leaves the count of uploads up, so that Publish stays disabled. An upload or a refund that the browser
gave up on may have succeeded, and a second try makes it twice.

*Money.* PayPlus's notice of a cancellation ends the benefits at once, though pages and
`prds/09-payment-monetization.md:22` promise them to the period's end. The retry job gives
up by a status of its own and leaves PayPlus's program running; such a member may subscribe again.
A checkout by a covered subscriber answers 409 although the RSVP was placed; it and
`settleEventPayment` ignore the capacity. The pages' prices, PayPlus's (`GatewayService.ts:30`) and
those of the reports differ. An abandoned checkout of a
subscription blocks subscribing for good; a past-due one has no button to cancel. The landing
pages `/success` and `/failure` come after `GET /:pid` (`payment.routes.ts:72`, `94`) and answer 401, which
`tests/integration/payments.test.ts:432` does not expect. `PaymentSuccessScreen` confirms after
900 ms without asking; the checkout shows a fee that is not charged.

*Accounts and roles.* The reset mail links to `/reset-password`, the web route is `/reset`. A failed
verification mail answers 500, the account exists and a retry answers 409. Overlapping resets
both succeed. `acknowledgeRules` saves the synthetic membership of a super admin, whose real one is then
not counted. A removed member stays in `Event.managers` and keeps RSVPs. Login's landing page ignores the
chosen community. Soft-deleted communities stay in the list of one's own. Saving
the profile does not refresh the client's copy of the user, and the next save reverts the name.
The cover of a new initiative is uploaded as its author's photo. The settings' sheets for welcome and rules each send both
texts as loaded. Empty texts cannot be saved in many forms (`auth.service.ts:233` says an empty string clears).
Platform settings are kept in memory only.

*Content and lists.* The cursor of initiatives replaces the filter that hides drafts
(`initiative.service.ts:46`, `prds/11-initiatives.md:153`). Posts are sorted by pin and paged without it.
Hidden posts are listed. Enter sends a comment again while one is pending. A broadcast's channels and
date are ignored and it is sent at once. `insertMany` may deliver to some, and a retry repeats them. Marking all
as read includes what arrived unseen. Filters and icons name types never emitted. The dialog that suspends a
community says that billing pauses.

## 6. Proofs

TLAPS checks 27,939 obligations in eight modules; nothing is left without proof. Every invariant and
every action property that a passing run checks is stated by a theorem.
The theorems hold for any numbers of members, requests, payments, tokens,
subscriptions, invitations, days, questions, photos, notices, rows, files, browsers and workers.

| module | theorems about | obligations |
|---|---|---|
| `EventRsvpProofs` | `EventRsvp`, `Seats` | 1,597 |
| `BillingProofs` | `Payments`, `Subscriptions` | 3,325 |
| `SessionsProofs` | `Sessions` | 1,317 |
| `CommunityProofs` | `Memberships`, `Initiatives`, `Recurring` | 2,587 |
| `EventDayProofs` | `EventDay`, `Questions`, `Notices`, `Recap` | 4,213 |
| `ContentProofs` | `Paging`, `Posts`, `Materials`; all of `MCCommunities` | 3,743 |
| `MoneyProofs` | `Reports`, `Till`, `Migration` | 4,057 |
| `ScreensProofs` | `QueryCache`, `Access`, `Edits`, `Accounts`, `Plans` | 7,100 |

**Assumptions.** They are about constants only, each is named, and TLC evaluates them on the runs. Names
are distinct (`NoToken`, `NoSub`, `NoCommunity`, ... are not members of the sets they stand outside of; in
`PostsAssumption` nobody is a member or a moderator). Sets that are counted or summed over are finite:
users, members, managers, photos, workers, the payments, events, people and prices of `ReportsAssumption`.
A price is positive; a page's limit too (`PagingAssumption`); there is some price. `Unlimited` is not
a number, the horizon fits the days, and every bound is a natural number. Modules that are instantiated
(`PagingAssumption`, `TillAssumption`, `EditsAssumption`, ...) have theirs repeated by the `PartsAssumption`
of the MC module that instantiates them.

| theorem | says |
|---|---|
| `TypeCorrect` | `Spec => []TypeOK` of EventRsvp |
| `FreshSeats` | first-time RSVPs never exceed the capacity, whatever overlaps |
| `FreshSeatsRefine` | the seats given to first-time RSVPs implement `Seats` |
| `SeatsWithinCapacity` | in turn: no more are going than there are seats, on any path |
| `CancelledEventsEmpty` | in turn: nobody attends a cancelled event |
| `OldestPromoted` | in turn: a promotion goes to who has waited longest (an action property) |
| `GoingSeatsRefine` | in turn: all who are going together implement `Seats` |
| `PaymentsTypeCorrect` | `Spec => []TypeOK` of Payments |
| `RefundsCovered` | no Payment row claims more returned than the gateway returned |
| `BookedOnce` | a member's payments are booked once, whatever overlaps and crashes |
| `RefundsAgree` | in turn: a row is "refunded" exactly when all was given back |
| `PaymentsStaySettled` | in turn: no settled payment is open or failed again (an action property) |
| `TicketsPaid` | in turn, nobody dying: a valid ticket is backed by a settled payment |
| `SessionsTypeCorrect` | `Spec => []TypeOK` of Sessions |
| `RotationRevokes` | a token with a successor is revoked, for good |
| `TokensUsedOnce` | kept apart: no token is exchanged twice |
| `HeldTokensLive` | kept apart: the token a client holds is one the server takes |
| `SubscriptionsTypeCorrect` | the types of Subscriptions |
| `ActiveSubscriptionsBooked` | an active subscription has a Payment row, or its worker is about to write one |
| `ActiveStartsAnew` | in turn: an active subscription has all its attempts left |
| `CancellationStops` | in turn: what is marked to end is charged by no program |
| `MembershipsTypeCorrect` | `Spec => []TypeOK` of Memberships |
| `InviteOnlyCountIsExact` | in a community entered by invitation only, `memberCount` counts the memberships and the removals yet to be counted |
| `InvitationsAdmitOnce` | one request at a time: an invitation admits once |
| `InitiativesTypeCorrect` | the types of Initiatives |
| `CommentCountIsExact` | an initiative's `commentCount` is the number of its comments |
| `SupportIsNotLost` | a supporter stays one until he withdraws (an action property) |
| `SupportersCountedInTurn` | one request at a time: the counter and the status agree with the supporters |
| `RecurringTypeCorrect` | the types of Recurring |
| `DatesFollowRule` | instances are on dates of the rule, whatever overlaps |
| `WindowsFilled` | a run leaves no date of its window without an instance (an action property) |
| `OneInstanceInTurn` | one worker: a date has one instance |
| `EndedStaysInTurn` | one worker: what a cancellation has called off stays off |
| `DayRight` | the door marks as the last tap meant, "You're in" is true, the door's figures and order are right |
| `QuestionsRight` | a vote counts as its member meant it, nothing is resolved unanswered, the triage agrees |
| `NoticesRight` | everyone is told, once; the last notice says the community's status; the badges add up |
| `RecapRight` | the recap keeps to its room, loses no photo by itself and is published whole |
| `EventDayCorrect` | `AllSpec => []EventDayWorks`: the four together, with their types |
| `PagesRight` | the pages of a list add up to it: no row twice, none missed that was there throughout |
| `PostsRight` | counts, deletions, decisions and drafts of a post: nothing lost, nothing posted twice |
| `MaterialsRight` | a file called done is a material, none is forgotten, one upload at a time |
| `ContentInTurn` | `AllSpec => []ContentAddsUp`: the three, as parts of `MCCommunities` |
| `CommunitiesTypeCorrect`, `MembersInTurn`, `InitiativesInTurn`, `SeriesInTurn` | the types and the other properties of all parts of `MCCommunities`, from `AllSpec` |
| `FiguresRight` | the reports agree with what was paid and who joined, but for what moved while they were read |
| `RefundsRight` | a press gives back no more than was shown, the confirmation is true, one refund per visit |
| `MigrationRight` | no id is lost, a run that ends leaves nothing, the server's own rows stay |
| `MoneyInTurn` | `AllSpec => []MoneyAddsUp`: the three, as parts of `MCReports` |
| `PlansRight` | a scheduled end is true, who is charged finds it listed, one program per member |
| `AccountsRight` | one account per address, whoever is let in has finished, the last mail works once |
| `CacheRight` | after the answer to a change, what a tab shows contains it, for every hook with every query |
| `AccessRight` | a page that lets a user in is served, for any communities, memberships and roles |
| `EditsRight` | a save changes what was entered and nothing else, on every form |
| `ScreensInTurn` | the five together, with their types, as parts of `MCScreens` |

**In turn, kept apart.** Some theorems have a hypothesis on the constants. It names what the property's
own comment says: that the code keeps it only so long. `InTurn`: there is one worker (request) at a
time, that is, handlers do not overlap. Its round trips still interleave with the gateway, with time,
with expiry and with the repeated and disordered reports of PayPlus, and users, payments and
subscriptions are any number. `rsvp_overbooked` and `payments_unsettled` show what overlapping does to
`CapacityRespected` and `SettledStays`. `KeptApart`: no two tabs share a token, and no client is restarted
while an exchange or a sign-out is under way; requests overlap freely, since that is what the
web client's single refresh promise is for. `sessions_shared` shows what becomes of it otherwise.
`TicketsPaid` excludes crashes (`~ MayCrash`): a worker that dies after `Record` leaves the
ticket valid though the refund is booked, and nothing in the code resumes it. The configurations of the
runs that check these properties satisfy the hypotheses, so they are not empty.

**EventRsvp.** `TypeInv` adds to the types what a handler has at each round
trip (`Engaged`). `FreshSeatsWithinCapacity` is not inductive: the commit uses a count
made at the snapshot. The strengthening (`FreshInv`, with
`SeatReserved`) says of every transaction that is about to commit a new "going"
row: unless it has missed a write of the Event document, there is still a seat
free among the fresh ones. Each commit
that creates a going row writes the Event document, and so puts it into
`missed` of all others; that is exactly what the code's counter update does
for it. The refinement has the same invariant: a step that enlarges `fresh` is a
`Grant` with a seat free, every other step gives back or stutters.
In turn, `TurnInv` adds `Knows`, what the handler has read and still holds: the caller's row, a free seat
where it is about to give one away, the oldest waitlister where it promotes. From it each step is a
`SeatMove` (fewer going, or one more with a seat free), which is at once `CapacityRespected` and
the refinement. Of a cancelled event `Knows` says that nobody attends or the sweep is next.

**Payments.** `Inv` is `DataInv /\ WorkInv`. `RefundsNeverOverstated` is not
inductive: a worker adds to a sum it loaded before asking the gateway. The
strengthening covers what workers hold: the loaded sum, the announced amount and
(after the answer) loaded sum plus amount never exceed what the gateway has
returned. It is stable because the gateway's ledger only grows (`Grows`).
`BookedOncePerMember` rests on the snapshot: `BookInv` says of a worker that is about to settle for
a member it found without a row that there is still none, or that it has missed the write of one and will
be made to run again; and that rows never go away. In turn,
`TurnInv` ties status to the sum given back (`RowAgrees`) and says that a loaded document is the present
one, or one that has expired since (`Followed`): the job for expiry runs beside the handlers.
`TicketInv` adds who is about to cancel a ticket (`Leaving`), so that between the refund's record and the
row's cancellation the ticket is accounted for.

**Sessions.** `Inv` adds to the links between documents (`TokensOK`) what a
request relies on (`RequestOK`): past `Consume`, its token is revoked; at `Link`,
the new token exists and was issued in exchange for it. It is stable
because a revoked token stays revoked and an issued one keeps its origin
(`Progress`). For clients kept apart, `Apart` adds that a live token has one holder: what
a client holds no other does, a token is exchanged by one request at a time and only if it has no
successor (`OneExchange`), and a new token is on its way to one client (`OneWay`).

**Subscriptions.** `Inv` is types, what workers hold (`WorkerOK`: a
transaction to book, room to count a failure), and `ActiveIsBooked` itself. The
heart is `SaveOK`: saving a stale document merges fields, so unless the
worker wrote "active" itself the save cannot make the status active; and the two
workers that do write it go on to book (`RenewOK`). Rows are never removed. In turn, `TurnInv`
adds that what the worker has loaded is current but for the days gone by (`Fresh`), that a program that can
charge belongs to a subscription that goes on and knows of it (`ProgramKnown`), and that there is none
where a cancellation is about to be noted down (`NoProgram`).

**Memberships.** `Inv` is the types, what a request holds (`WorkInv`), the count itself
and `Closed`: before the community has been open, nobody has applied and no worker is where
members come without an invitation. Each step then changes both sides of the equation alike
(cardinalities of `RowUsers` and `Counting`). `InvitationsAdmitOnce` needs `Turns`: workers
outside `pool` are idle, so with one worker an invitation that has admitted is accepted
or about to be marked by that worker (`Once`), and `Held`, that it exists.

**Initiatives.** `Inv` adds `Versions`: a request whose loaded version is current has the array
the document has. So the assigned array of a withdrawal is the present one without the
member, which is `SupportIsNotLost`. In turn (`Turns`), the loaded document is the
document (`InStep`), so that counter and status are computed from the present.

**Recurring.** `Inv` is the types, `DatesOfRule`, that instances have a parent, and that each
worker's dates are ones the rule wants. `CountingUp` relates the rule's own count to the
walk's: what the window leaves out as past is at least what was due. For
`WindowFilled`, `Filling` says of a run between `FindExisting` and `InsertMany` that a wanted date of its
window has an instance or is among those to be inserted; instances are never deleted.
`OneEach` and `Over` need turns, for a run that has looked goes on to insert.

**The event's surroundings** (`EventDayProofs`). The theorems are about the instances of
`MCEventDay`, whatever the numbers. `DayInv`: a box under way at a member not in doubt is the only one,
and will mark what was meant (`BoxOK`); a page that waits for an answer is still where its button
is (`PageOK`); with `GoingNotOverstated`, that a cancellation lowers count and rows together and promotes at
least one where it raises the count. `QuestionsInv`: a call holds the document as it is unless that has been
saved since (`CallOK`), and the version counts every save, so that a withdrawal whose version
still fits splices from the present array; a vote not in doubt has one call about it (`VoteOK`); pending calls
and saved ones together are taps (`VersionOK`), which bounds the version. `NoticesInv`: who is still
to be told has not been, all others meant have (`RequestOK`), and no inbox has two notices of a request
(`MailOK`); then a message's notices map one to one to its requests, which is `OncePerPress`. For
`LastSaysStatus`, `TurnOK`: while changes of the status come one after the other, only the last is under
way, it has loaded or written the present status, and inboxes hear of them in order. `RecapInv`: what a
page counts covers its uploads (`ScreenOK`), and its photos and those of every request fit the room and
are stored (`RoomFor`). `EventDayCorrect` puts them together: `part` says which moves.

**Lists, posts and materials** (`ContentProofs`). `PagingInv`: where the cursor knows the list's order and filter,
the rows from the cursor on have been shown and those before it have not (`ShownOnce`); the
cursor goes down with every page (`CursorOK`), and rows are numbered as they are made (`ListOK`), so that a new
one is never between pages. `PostsInv`: comments, erased ones and those about to be saved are no more than the requests
there were (`CallsCounted`), the count is that of the comments but for what a deletion leaves (`CommentsCounted`), and a
draft is in the box, under way, posted or erased (`HandOK`, `BoxOK`). `FilesInv`: a loop has its own rows before it, each once,
and one it is done with is made or was removed, unless it failed (`LoopOK`); an
upload that is waited for is the one its loop is at, or is over and nobody will upload that
row again (`TryOK`, `Settled`).

**All of `MCCommunities`.** A behaviour of the sum is one of the part it is about (`MembershipsAlone`,
`InitiativesAlone`, `RecurringAlone`: `AllSpec` implies that part's specification), and the others
stay as they were (`Still`). So the theorems of `CommunityProofs` carry over to the specification of the run.

**Money** (`MoneyProofs`). The reports are sums over finite sets. That a sum is the sum of its parts, does not
depend on the order in which the fold takes the elements, and changes by what one element changes
(`AddsStep`, `AddsUnique`, `AddsPart`, `AddsExists` and what follows from them) is proved by minimal counterexample: the
subsets of a finite set are well-founded (`WFMin`, `FS_StrictSubsetOrderingWellFounded`), which
needs no operator parameter. `FinancesInv` compares the figures as they will be shown if no money moves any more
(`Shown`): they differ by no more than what was booked or given back since the report began (`moved`), and
`moved` is bounded by what payments can still move (`Movable`). `GrowthInv` does the same for the curve of members.
`TillInv`: a request that was refunded gave no more than its dialog had shown and is told only of
what it gave (`TillRequestOK`), a page waits for the request of its own visit (`TillWaitOK`), and of two requests of a visit
the first has failed when the second is sent, while no two give back the whole (`TillPairOK`).
`MigrationInv`: an id is in its old field or in its new one, with its value (`IdOK`); a real run has left no row behind that a step
before its own concerns, and when it has ended no step concerns any (`RowDone`): what a step has done no later
step undoes (`AsFar`, `Taken`, `Given`).

**Screens** (`ScreensProofs`). `PlansInv` relates a subscription's document to PayPlus's program (`SubOK`), the
page and the calls to both; `OneCheckout`: until two have crossed, one checkout is past its check, and then no other
subscription counts. `AccountsInv`: a tab's copy of the user shows nothing that the account has not (`PlaceOK`), and what
the account has it keeps (`Grows`); while requests do not overlap, what one of them holds is still the account's
(`HeldOK`), a token is used once (`TokensOK`), and the last code and link are good or about to be replaced (`MailsOK`).

`CacheInv` has two parts. The first is about the tables: by the names of hooks and the keys of queries, every
hook refreshes every query that shows what it changes, or writes it in place, or the pair is in `Missed`
(`Refreshed`). The second is about time: a GET that is read contains all changes confirmed to the tab unless it is late, and
so does the entry unless it was overtaken (`EntryOK`); a privacy change that overlaps with no other has loaded
what there is (`CallOK`).
Trying it showed that an earlier `OwnWritesSeen` was false for three overlapping changes of the privacy settings,
of which the second brings back what the first has undone; two calls, which TLC had, do not do it. The property now
names the exception (`BringsBack`), and the theorem is about any number of calls.

`AccessInv` adds that an account has one Membership per community, as the unique index has it. The rest is a case for
each kind of page (`StaffPage`, `AdminPage`, `ManagerPage`, `SuperPage`) with the kinds of routes it asks
(`StaffRoute`, `AdminRoute`, `ManagerRoute`, `SuperRoute`).

`EditsInv` says of each open form that it fits its document: unless it is outdated, it shows the
document's fields but for those entered and those it may not have seen (`FormFits`, `Shows`, `Unseen`); and of the browser's
copy of the user, that what is not outdated is as in the document (`CopyFits`). For each of the
eleven screens, what it sends was entered or is shown as it is (`SendsRight`), every input to keep is
sent (`SendsInputs`), and each field of the document is decided by one of the two (`Decided`), which makes the document
equal to `wanted` again. After the save the form fits the new document (`SeenAs`, `CopySaved`).

`ScreensInTurn` puts the five together, as `EventDayCorrect` does.

**Only model-checked.** Liveness (`EveryRequestAnswered`, `ChargedIsSettled`, `RetriesEnd`), which
needs fairness and ENABLED. That a passing run reaches what it should (the mutants of `PROJECT.json`) is also TLC's part.
What a recursive definition computes for every input is out of the prover's reach, for the library's
induction theorems take an operator; sums over finite sets are proved by well-foundedness as above, and
no module here uses RECURSIVE operators. `Symmetry` of the configurations is not proved sound; it permutes
values that the modules do not tell apart.
