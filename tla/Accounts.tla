------------------------------ MODULE Accounts ------------------------------
(***************************************************************************)
(* One e-mail address: how its account comes to be, the mails it is sent   *)
(* and the screens a newcomer passes (backend/src/services/auth.service.ts,*)
(* google-oauth.service.ts, acceptInvitation; web/src/features/auth and    *)
(* onboarding, the gate of router/routes.tsx).                             *)
(*                                                                         *)
(* Each tab of Tabs has one request under way.  An await between a read    *)
(* and the write it decides is a step boundary; a save writes the fields   *)
(* its handler assigned and no others.  The public screens are one place,  *)
(* "out": all of them can be reached from each.  Sessions.tla is about the *)
(* tokens of a session, Memberships.tla about what an invitation admits    *)
(* to, Edits.tla about the other fields of a user.                         *)
(***************************************************************************)
EXTENDS Naturals

CONSTANTS
    Tabs,
    MaxRequests     \* bound: requests of a behaviour

AccountsAssumption == MaxRequests \in Nat

VARIABLES
    user,       \* the document of the address
    accounts,   \* how many were created for it
    invited,    \* an invitation to the address is open
    inbox,      \* the code and the token in its last mails of each kind
    tab,        \* what each tab shows, and its copy of the user
    call,       \* the request each tab has under way
    requests,
    uses,       \* how often each token has changed the password
    alone,      \* no two requests have overlapped
    mailed      \* every mail has been sent
vars == <<user, accounts, invited, inbox, tab, call, requests, uses, alone, mailed>>

Absent == [is |-> FALSE, named |-> FALSE, picked |-> FALSE, profile |-> FALSE,
           interests |-> FALSE, password |-> FALSE, verified |-> FALSE, code |-> 0, reset |-> 0]
Idle == [op |-> "none", pc |-> "idle", token |-> 0, name |-> FALSE]

\* What toSafeJSON() shows of the onboarding: a name, three interests, and
\* when each was first there.
Copy(u) == [named |-> u.named, picked |-> u.picked, profile |-> u.profile,
            interests |-> u.interests]
NoCopy == Copy(Absent)
SignedOut == [at |-> "out", session |-> FALSE, copy |-> NoCopy]

Init ==
    /\ user = Absent /\ accounts = 0 /\ invited \in BOOLEAN
    /\ inbox = [code |-> 0, reset |-> 0]
    /\ tab = [t \in Tabs |-> SignedOut] /\ call = [t \in Tabs |-> Idle]
    /\ requests = 0 /\ uses = [n \in 1..MaxRequests |-> 0]
    /\ alone = TRUE /\ mailed = TRUE

-----------------------------------------------------------------------------
(* The screens                                                             *)

\* Mutant of Gate: a page no route has.
GateMisspelt(copy) ==
    IF ~ (copy.profile \/ copy.named) THEN "profile"
    ELSE IF ~ (copy.interests \/ copy.picked) THEN "interest"
    ELSE "home"

\* Where a signed-in user is let to, unless he is a superadmin.
Gate(copy) ==
    IF ~ (copy.profile \/ copy.named) THEN "profile"
    ELSE IF ~ (copy.interests \/ copy.picked) THEN "interests"
    ELSE "home"

SignedIn(u, place) == [at |-> place, session |-> TRUE, copy |-> Copy(u)]
Landed(u) == SignedIn(u, Gate(Copy(u)))

Quiet(t) == call[t] = Idle
Done(t) == call' = [call EXCEPT ![t] = Idle]
Begins(t) ==
    /\ Quiet(t) /\ requests < MaxRequests
    /\ requests' = requests + 1
    /\ alone' = (alone /\ \A o \in Tabs : Quiet(o))
GoesOn(t, pc) == call[t].pc = pc /\ UNCHANGED <<requests, alone>>
Waits(t, op, pc, token, name) ==
    call' = [call EXCEPT ![t] = [op |-> op, pc |-> pc, token |-> token, name |-> name]]

\* Any public screen, or one behind the gate.
Visit(t) ==
    /\ Quiet(t)
    /\ \/ tab' = [tab EXCEPT ![t].at = "out"]
       \/ /\ tab[t].session
          /\ tab' = [tab EXCEPT ![t].at = Gate(tab[t].copy)]
    /\ UNCHANGED <<user, accounts, invited, inbox, call, requests, uses, alone, mailed>>

\* The first screen asks the server for the user.
Splash(t) ==
    /\ Quiet(t) /\ tab[t].session
    /\ tab' = [tab EXCEPT ![t] = Landed(user)]
    /\ UNCHANGED <<user, accounts, invited, inbox, call, requests, uses, alone, mailed>>

SignOut(t) ==
    /\ Quiet(t) /\ tab[t].session
    /\ tab' = [tab EXCEPT ![t] = SignedOut]
    /\ UNCHANGED <<user, accounts, invited, inbox, call, requests, uses, alone, mailed>>

-----------------------------------------------------------------------------
(* How an account comes to be                                              *)

\* User.create(): the index of addresses refuses a second one.
Create(fields) ==
    /\ ~ user.is
    /\ user' = [user EXCEPT !.is = TRUE, !.named = fields.named, !.profile = fields.profile,
                            !.password = fields.password, !.verified = fields.verified]
    /\ accounts' = accounts + 1
Refused(t) == user.is /\ Done(t) /\ UNCHANGED <<user, accounts>>
WithPassword == [named |-> TRUE, profile |-> FALSE, password |-> TRUE, verified |-> FALSE]

\* The name, the password and the terms are needed by the screen.
Register(t) ==
    /\ tab[t].at = "out" /\ Begins(t)
    /\ IF user.is THEN Done(t) ELSE Waits(t, "register", "create", 0, TRUE)
    /\ UNCHANGED <<user, accounts, invited, inbox, tab, uses, mailed>>

RegisterCreate(t) ==
    /\ GoesOn(t, "create")
    /\ \/ Create(WithPassword) /\ Waits(t, "register", "code", 0, TRUE)
       \/ Refused(t)
    /\ UNCHANGED <<invited, inbox, tab, uses, mailed>>

IssueCode(t) ==
    /\ GoesOn(t, "code")
    /\ user' = [user EXCEPT !.code = requests]
    /\ Waits(t, call[t].op, "mail", requests, FALSE)
    /\ UNCHANGED <<accounts, invited, inbox, tab, uses, mailed>>

\* The token is saved before it is mailed.  A mail that fails is answered 500,
\* and a registration whose mail fails has made the account.
Mail(t) ==
    /\ GoesOn(t, "mail") /\ Done(t)
    /\ \/ /\ inbox' = IF call[t].op = "forgot" THEN [inbox EXCEPT !.reset = call[t].token]
                      ELSE [inbox EXCEPT !.code = call[t].token]
          /\ tab' = IF call[t].op = "register"
                    THEN [tab EXCEPT ![t] = SignedIn(user, "interests")] ELSE tab
          /\ UNCHANGED mailed
       \/ mailed' = FALSE /\ UNCHANGED <<inbox, tab>>
    /\ UNCHANGED <<user, accounts, invited, uses>>

\* Google has verified the address, and may know a name.
Google(t, name) ==
    /\ tab[t].at = "out" /\ Begins(t)
    /\ IF user.is
       THEN LET named == user.named \/ name
            IN /\ user' = [user EXCEPT !.named = named, !.verified = TRUE,
                                       !.profile = @ \/ named]
               /\ tab' = [tab EXCEPT ![t] = Landed(user')]
               /\ Done(t)
       ELSE Waits(t, "google", "googleCreate", 0, name) /\ UNCHANGED <<user, tab>>
    /\ UNCHANGED <<accounts, invited, inbox, uses, mailed>>

GoogleCreate(t) ==
    /\ GoesOn(t, "googleCreate")
    /\ \/ /\ Create([named |-> call[t].name, profile |-> call[t].name, password |-> FALSE,
                     verified |-> TRUE])
          /\ tab' = [tab EXCEPT ![t] = Landed(user')] /\ Done(t)
       \/ Refused(t) /\ UNCHANGED tab
    /\ UNCHANGED <<invited, inbox, uses, mailed>>

\* Signed in, the invitation admits; otherwise it makes the account it is
\* addressed to, unless there is one.
Accept(t) ==
    /\ tab[t].at = "out" /\ invited /\ Begins(t)
    /\ IF tab[t].session THEN Waits(t, "accept", "join", 0, FALSE)
       ELSE IF user.is THEN Done(t)
       ELSE Waits(t, "accept", "acceptCreate", 0, TRUE)
    /\ UNCHANGED <<user, accounts, invited, inbox, tab, uses, mailed>>

AcceptCreate(t) ==
    /\ GoesOn(t, "acceptCreate")
    /\ \/ Create(WithPassword) /\ Waits(t, "accept", "join", 0, TRUE)
       \/ Refused(t)
    /\ UNCHANGED <<invited, inbox, tab, uses, mailed>>

\* The transaction of the membership may fail, and leaves the account.
Join(t) ==
    /\ GoesOn(t, "join") /\ Done(t)
    /\ \/ /\ invited' = FALSE
          /\ tab' = [tab EXCEPT ![t] = IF tab[t].session
                                       THEN [@ EXCEPT !.at = Gate(tab[t].copy)] ELSE Landed(user)]
       \/ UNCHANGED <<invited, tab>>
    /\ UNCHANGED <<user, accounts, inbox, uses, mailed>>

Login(t) ==
    /\ tab[t].at = "out" /\ user.is /\ user.password /\ Begins(t)
    /\ tab' = [tab EXCEPT ![t] = Landed(user)]
    /\ UNCHANGED <<user, accounts, invited, inbox, call, uses, mailed>>

-----------------------------------------------------------------------------
(* Codes and links                                                         *)

Resend(t) ==
    /\ tab[t].at = "out" /\ user.is /\ ~ user.verified /\ Begins(t)
    /\ Waits(t, "resend", "code", 0, FALSE)
    /\ UNCHANGED <<user, accounts, invited, inbox, tab, uses, mailed>>

\* The code of the last mail is entered.
Verify(t) ==
    /\ tab[t].at = "out" /\ user.is /\ inbox.code # 0 /\ Begins(t)
    /\ IF user.verified THEN Waits(t, "verify", "verify", 0, FALSE)
       ELSE IF user.code = inbox.code THEN Waits(t, "verify", "verify", inbox.code, FALSE)
       ELSE Done(t)
    /\ UNCHANGED <<user, accounts, invited, inbox, tab, uses, mailed>>

VerifySave(t) ==
    /\ GoesOn(t, "verify") /\ Done(t)
    /\ user' = IF call[t].token = 0 THEN user ELSE [user EXCEPT !.verified = TRUE, !.code = 0]
    /\ tab' = [tab EXCEPT ![t].at = IF tab[t].session THEN "profile" ELSE "out"]
    /\ UNCHANGED <<accounts, invited, inbox, uses, mailed>>

\* forgot-password, and a superadmin's forced reset.
Forgot(t) ==
    /\ tab[t].at = "out" /\ user.is /\ Begins(t)
    /\ user' = [user EXCEPT !.reset = requests']
    /\ Waits(t, "forgot", "mail", requests', FALSE)
    /\ UNCHANGED <<accounts, invited, inbox, tab, uses, mailed>>

Reset(t) ==
    /\ tab[t].at = "out" /\ inbox.reset # 0 /\ Begins(t)
    /\ IF user.reset = inbox.reset THEN Waits(t, "reset", "hash", inbox.reset, FALSE)
       ELSE Done(t)
    /\ UNCHANGED <<user, accounts, invited, inbox, tab, uses, mailed>>

\* Mutant of ResetSave: the link stays good.
ResetSaveKeepsToken(t) ==
    /\ GoesOn(t, "hash") /\ Done(t)
    /\ user' = [user EXCEPT !.password = TRUE]
    /\ uses' = [uses EXCEPT ![call[t].token] = @ + 1]
    /\ UNCHANGED <<accounts, invited, inbox, tab, mailed>>

ResetSave(t) ==
    /\ GoesOn(t, "hash") /\ Done(t)
    /\ user' = [user EXCEPT !.password = TRUE, !.reset = 0]
    /\ uses' = [uses EXCEPT ![call[t].token] = @ + 1]
    /\ UNCHANGED <<accounts, invited, inbox, tab, mailed>>

-----------------------------------------------------------------------------
(* Onboarding                                                              *)

\* updateMe() stamps what there is for the first time.
Stamped(u) == [u EXCEPT !.profile = @ \/ u.named, !.interests = @ \/ u.picked]

ProfileSetup(t) ==
    LET copy == [tab[t].copy EXCEPT !.named = TRUE]
    IN /\ tab[t].at = "profile" /\ Begins(t)
       /\ user' = Stamped([user EXCEPT !.named = TRUE])
       /\ tab' = [tab EXCEPT ![t].copy = copy, ![t].at = "interests"]
       /\ UNCHANGED <<accounts, invited, inbox, call, uses, mailed>>

\* Then the gate before the home screen.
InterestsSelector(t) ==
    LET copy == [tab[t].copy EXCEPT !.picked = TRUE]
    IN /\ tab[t].at = "interests" /\ Begins(t)
       /\ user' = Stamped([user EXCEPT !.picked = TRUE])
       /\ tab' = [tab EXCEPT ![t].copy = copy, ![t].at = Gate(copy)]
       /\ UNCHANGED <<accounts, invited, inbox, call, uses, mailed>>

Next ==
    \E t \in Tabs :
       \/ Visit(t) \/ Splash(t) \/ SignOut(t)
       \/ Register(t) \/ RegisterCreate(t) \/ IssueCode(t) \/ Mail(t)
       \/ (\E name \in BOOLEAN : Google(t, name)) \/ GoogleCreate(t)
       \/ Accept(t) \/ AcceptCreate(t) \/ Join(t) \/ Login(t)
       \/ Resend(t) \/ Verify(t) \/ VerifySave(t) \/ Forgot(t) \/ Reset(t) \/ ResetSave(t)
       \/ ProfileSetup(t) \/ InterestsSelector(t)

-----------------------------------------------------------------------------
TypeOK ==
    /\ DOMAIN user = DOMAIN Absent
    /\ user.code \in 0..MaxRequests /\ user.reset \in 0..MaxRequests
    /\ accounts \in Nat /\ invited \in BOOLEAN
    /\ \A t \in Tabs : tab[t].at \in {"out", "profile", "interests", "home"}
    /\ requests \in 0..MaxRequests

\* Whoever registers, comes from Google or accepts an invitation at the same
\* time, the address has one account.
OneAccount == accounts <= 1

\* A tab that has passed the gate, with whatever copy of the user it has, is of
\* a user with a name and interests (prds/10 par. 2.2, quoted in routes.tsx).
LetInFinished == \A t \in Tabs : tab[t].at = "home" => user.named /\ user.picked

\* As long as requests do not overlap and no mail fails, the last mail of each
\* kind works until it is used, and a link changes the password once.
LinksWork ==
    alone =>
        /\ \A n \in DOMAIN uses : uses[n] <= 1
        /\ mailed /\ (\A t \in Tabs : Quiet(t)) =>
              /\ inbox.reset # 0 => uses[inbox.reset] = 1 \/ user.reset = inbox.reset
              /\ inbox.code # 0 => user.verified \/ user.code = inbox.code

AccountsWork == OneAccount /\ LetInFinished /\ LinksWork
=============================================================================
