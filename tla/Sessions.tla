------------------------------ MODULE Sessions ------------------------------
(***************************************************************************)
(* One user's sessions: the refresh tokens of backend/src/services/        *)
(* token.service.ts and auth.service.ts, and the two clients that keep     *)
(* them, web/src/lib/{api,auth}.ts and mobile/lib/core/network/            *)
(* {api_client,token_store}.dart.                                          *)
(*                                                                         *)
(* A refresh token is good for one exchange.  The server marks it revoked  *)
(* and issues its successor in separate writes; a revoked token that turns *)
(* up again revokes all the user has.  Tabs of the browser each keep their *)
(* token in memory and share localStorage; a phone keeps it in its secure  *)
(* storage.                                                                *)
(*                                                                         *)
(* A worker is a request from the moment a client sends it until the       *)
(* client has dealt with the answer; each await of its handler is a step.  *)
(* Access tokens are not modelled: a client that holds a refresh token may *)
(* at any time find its access token expired.                              *)
(***************************************************************************)
EXTENDS Naturals, FiniteSets

CONSTANTS
    Tabs,           \* tabs of the user's browser
    Phones,         \* the user's phones
    Tokens,         \* ids of RefreshToken documents
    Workers,        \* requests in flight at a time
    NoToken, NoClient,
    ReloadAnytime   \* whether a client may be restarted while its token is
                    \* being exchanged or given up

Clients == Tabs \cup Phones

ASSUME NoTokenAssumption == NoToken \notin Tokens
ASSUME NoClientAssumption == NoClient \notin Clients
ASSUME ReloadAssumption == ReloadAnytime \in BOOLEAN

VARIABLES
    token,     \* the RefreshToken documents: none, live, revoked (revokedAt)
    next,      \* replacedByTokenId
    from,      \* history: the token a token was issued in exchange for
    account,   \* status and scheduledDeletionAt of the User document
    held,      \* the refresh token each client holds
    disk,      \* the one in the browser's localStorage
    swept,     \* history: a revoked token was presented
    work       \* the requests in flight
vars == <<token, next, from, account, held, disk, swept, work>>

Pc == {"idle",
       "find", "consume", "sweep", "user", "issue", "link",  \* refreshSession
       "check",                                              \* loginUser
       "revoke",                                             \* logout
       "verify", "disable", "purge",                         \* deleteMe
       "answer",     \* the response is on its way
       "retry"}      \* the phone repeats the call that made it refresh
Kinds == {"none", "refresh", "login", "logout", "delete"}

Worker == [pc : Pc, kind : Kinds,
           client : Clients \cup {NoClient},   \* who waits for the answer
           tok : Tokens \cup {NoToken},        \* the token sent
           new : Tokens \cup {NoToken},        \* the token issued
           ok : BOOLEAN]

Idle == [pc |-> "idle", kind |-> "none", client |-> NoClient, tok |-> NoToken,
         new |-> NoToken, ok |-> FALSE]

TypeOK ==
    /\ token \in [Tokens -> {"none", "live", "revoked"}]
    /\ next \in [Tokens -> Tokens \cup {NoToken}]
    /\ from \in [Tokens -> Tokens \cup {NoToken}]
    /\ account \in [status : {"active", "disabled"}, leaving : BOOLEAN]
    /\ held \in [Clients -> Tokens \cup {NoToken}]
    /\ disk \in Tokens \cup {NoToken}
    /\ swept \in BOOLEAN
    /\ work \in [Workers -> Worker]

Init ==
    /\ token = [t \in Tokens |-> "none"]
    /\ next = [t \in Tokens |-> NoToken]
    /\ from = [t \in Tokens |-> NoToken]
    /\ account = [status |-> "active", leaving |-> FALSE]
    /\ held = [c \in Clients |-> NoToken]
    /\ disk = NoToken
    /\ swept = FALSE
    /\ work = [w \in Workers |-> Idle]

-----------------------------------------------------------------------------
(* What a client keeps                                                     *)

server == <<token, next, from, account, swept>>
clients == <<held, disk>>

\* setTokens() of the web, whose store is persisted whole; write() of the phone.
Store(c, t) ==
    /\ held' = [held EXCEPT ![c] = t]
    /\ disk' = IF c \in Tabs THEN t ELSE disk

\* Mutant of Forget: the token in localStorage is left behind.
ForgetMemory(c) ==
    /\ held' = [held EXCEPT ![c] = NoToken]
    /\ disk' = disk

\* logout() of the web's store; clear() of the phone's.
Forget(c) == Store(c, NoToken)

Pending(c, kinds) ==
    \E w \in Workers : work[w].client = c /\ work[w].kind \in kinds

Go(w, q) == work' = [work EXCEPT ![w] = q]
GoTo(w, pc) == Go(w, [work[w] EXCEPT !.pc = pc])
Done(w) == Go(w, Idle)
At(w, pc) == work[w].pc = pc

Answer(w, ok) == Go(w, [work[w] EXCEPT !.pc = "answer", !.ok = ok])

FirstPc(kind) == CASE kind = "refresh" -> "find"
                   [] kind = "login"   -> "check"
                   [] kind = "logout"  -> "revoke"
                   [] kind = "delete"  -> "verify"

\* Bound: a request that may issue a token finds one that is unused.
TokensLeft == Cardinality({t \in Tokens : token[t] = "none"})
              > Cardinality({w \in Workers : work[w].kind \in {"refresh", "login"}})

Send(c, kind, t) ==
    /\ \E w \in Workers :
          /\ At(w, "idle")
          /\ Go(w, [Idle EXCEPT !.pc = FirstPc(kind), !.kind = kind,
                                !.client = c, !.tok = t])
    /\ UNCHANGED <<server, clients>>

-----------------------------------------------------------------------------
(* What a client begins                                                    *)

\* Mutant of Refresh: nobody waits for the refresh that is under way.
RefreshAgain(c) ==
    /\ held[c] # NoToken
    /\ TokensLeft
    /\ Send(c, "refresh", held[c])

\* A 401: refreshPromise of the web, _refreshing of the phone.
Refresh(c) ==
    /\ held[c] # NoToken
    /\ ~ Pending(c, {"refresh"})
    /\ TokensLeft
    /\ Send(c, "refresh", held[c])

LogIn(c) ==
    /\ ~ Pending(c, {"login"})
    /\ TokensLeft
    /\ Send(c, "login", NoToken)

\* On the web nothing is sent.
SignOut(c) ==
    /\ c \in Tabs /\ held[c] # NoToken
    /\ Forget(c)
    /\ UNCHANGED <<server, work>>

LogOut(c) ==
    /\ c \in Phones /\ held[c] # NoToken
    /\ ~ Pending(c, {"logout"})
    /\ Send(c, "logout", held[c])

DeleteAccount(c) ==
    /\ held[c] # NoToken
    /\ ~ Pending(c, {"delete"})
    /\ Send(c, "delete", NoToken)

\* A page is loaded again, or an app restarted; it waits for no answer any more.
Reload(c) ==
    /\ ReloadAnytime \/ ~ Pending(c, {"refresh", "logout"})
    /\ held' = IF c \in Tabs THEN [held EXCEPT ![c] = disk] ELSE held
    /\ work' = [w \in Workers |->
                   IF work[w].client # c THEN work[w]
                   ELSE IF work[w].pc \in {"answer", "retry"} THEN Idle
                   ELSE [work[w] EXCEPT !.client = NoClient]]
    /\ UNCHANGED <<server, disk>>

-----------------------------------------------------------------------------
(* consumeRefreshToken(), refreshSession() and issueRefreshToken()         *)

Find(w) ==
    /\ At(w, "find")
    /\ GoTo(w, IF token[work[w].tok] = "revoked" THEN "sweep" ELSE "consume")
    /\ UNCHANGED <<server, clients>>

\* Mutant of Consume: the token is left as it was found.
ConsumeNothing(w) ==
    /\ At(w, "consume")
    /\ GoTo(w, "user")
    /\ UNCHANGED <<server, clients>>

\* save() of the document found a step before, whatever it has become.
Consume(w) ==
    /\ At(w, "consume")
    /\ token' = [token EXCEPT ![work[w].tok] = "revoked"]
    /\ GoTo(w, "user")
    /\ UNCHANGED <<next, from, account, swept, clients>>

RevokeAll == token' = [t \in Tokens |-> IF token[t] = "live" THEN "revoked" ELSE token[t]]

Sweep(w) ==
    /\ At(w, "sweep")
    /\ RevokeAll
    /\ swept' = TRUE
    /\ Answer(w, FALSE)
    /\ UNCHANGED <<next, from, account, clients>>

CheckUser(w) ==
    /\ At(w, "user")
    /\ IF account.status = "disabled" THEN Answer(w, FALSE) ELSE GoTo(w, "issue")
    /\ UNCHANGED <<server, clients>>

\* create(); a login has nothing to link the new token to.
Issue(w) ==
    LET q == work[w] IN
    /\ At(w, "issue")
    /\ \E t \in Tokens :
          /\ token[t] = "none"
          /\ token' = [token EXCEPT ![t] = "live"]
          /\ from' = [from EXCEPT ![t] = q.tok]
          /\ Go(w, [q EXCEPT !.pc = IF q.kind = "login" THEN "answer" ELSE "link",
                             !.new = t, !.ok = q.kind = "login"])
    /\ UNCHANGED <<next, account, swept, clients>>

Link(w) ==
    /\ At(w, "link")
    /\ next' = [next EXCEPT ![work[w].tok] = work[w].new]
    /\ Answer(w, TRUE)
    /\ UNCHANGED <<token, from, account, swept, clients>>

-----------------------------------------------------------------------------
(* loginUser(), logout() and deleteMe()                                    *)

CheckLogin(w) ==
    /\ At(w, "check")
    /\ IF account.status = "disabled" THEN Answer(w, FALSE) ELSE GoTo(w, "issue")
    /\ UNCHANGED <<server, clients>>

\* revokeRefreshToken(): one update, of a token that is not revoked yet.
Revoke(w) ==
    /\ At(w, "revoke")
    /\ token' = [token EXCEPT ![work[w].tok] = "revoked"]
    /\ Answer(w, TRUE)
    /\ UNCHANGED <<next, from, account, swept, clients>>

\* verifyToken() of the middleware.
Verify(w) ==
    /\ At(w, "verify")
    /\ IF account.status = "disabled" THEN Answer(w, FALSE) ELSE GoTo(w, "disable")
    /\ UNCHANGED <<server, clients>>

\* Mutant of Disable: a status the schema does not know.
DisableUnknownStatus(w) ==
    /\ At(w, "disable")
    /\ account' = [status |-> "deleted", leaving |-> TRUE]
    /\ GoTo(w, "purge")
    /\ UNCHANGED <<token, next, from, swept, clients>>

Disable(w) ==
    /\ At(w, "disable")
    /\ account' = [status |-> "disabled", leaving |-> TRUE]
    /\ GoTo(w, "purge")
    /\ UNCHANGED <<token, next, from, swept, clients>>

Purge(w) ==
    /\ At(w, "purge")
    /\ RevokeAll
    /\ Answer(w, TRUE)
    /\ UNCHANGED <<next, from, account, swept, clients>>

\* disableUser() and enableUser() of the super administrator.
SetStatus(status) ==
    /\ account.status # status
    /\ account' = [account EXCEPT !.status = status]
    /\ UNCHANGED <<token, next, from, swept, clients, work>>

\* The database fails the handler, or the server dies under it.
Fail(w) ==
    /\ work[w].pc \notin {"idle", "answer", "retry"}
    /\ Answer(w, FALSE)
    /\ UNCHANGED <<server, clients>>

-----------------------------------------------------------------------------
(* What a client does with the answer                                      *)

\* The tokens are stored even if the user has signed out in the meantime.
Refreshed(w) ==
    LET q == work[w] IN
    /\ At(w, "answer") /\ q.kind = "refresh" /\ q.client # NoClient /\ q.ok
    /\ Store(q.client, q.new)
    /\ IF q.client \in Phones THEN GoTo(w, "retry") ELSE Done(w)
    /\ UNCHANGED server

\* Whatever the retried call fails with, the phone forgets its tokens.
Retried(w) ==
    /\ At(w, "retry")
    /\ \/ Forget(work[w].client)
       \/ UNCHANGED clients
    /\ Done(w)
    /\ UNCHANGED server

LoggedIn(w) ==
    LET q == work[w] IN
    /\ At(w, "answer") /\ q.kind = "login" /\ q.client # NoClient /\ q.ok
    /\ Store(q.client, q.new)
    /\ Done(w)
    /\ UNCHANGED server

\* A phone signs out whatever the answer is.
LoggedOut(w) ==
    LET q == work[w] IN
    /\ At(w, "answer") /\ q.kind = "logout" /\ q.client # NoClient
    /\ Forget(q.client)
    /\ Done(w)
    /\ UNCHANGED server

Deleted(w) ==
    LET q == work[w] IN
    /\ At(w, "answer") /\ q.kind = "delete" /\ q.client # NoClient /\ q.ok
    /\ Forget(q.client)
    /\ Done(w)
    /\ UNCHANGED server

\* What the request of q comes to for a client told that it failed.
Refusal(q) ==
    IF q.kind = "refresh" THEN Forget(q.client) ELSE UNCHANGED clients

Refused(w) ==
    LET q == work[w] IN
    /\ At(w, "answer") /\ q.kind # "logout" /\ q.client # NoClient /\ ~ q.ok
    /\ Refusal(q)
    /\ Done(w)
    /\ UNCHANGED server

\* No answer in time, or no connection: the request may or may not have come in.
GiveUp(w) ==
    LET q == work[w] IN
    /\ q.client # NoClient /\ q.pc \notin {"idle", "retry"}
    /\ IF q.kind = "logout" THEN Forget(q.client) ELSE Refusal(q)
    /\ \/ q.pc \in {"answer", FirstPc(q.kind)} /\ Done(w)
       \/ q.pc # "answer" /\ Go(w, [q EXCEPT !.client = NoClient])
    /\ UNCHANGED server

\* Nobody waits for this answer.
Unheard(w) ==
    /\ At(w, "answer") /\ work[w].client = NoClient
    /\ Done(w)
    /\ UNCHANGED <<server, clients>>

-----------------------------------------------------------------------------
Ask(c) == Refresh(c) \/ LogIn(c) \/ SignOut(c) \/ LogOut(c) \/ DeleteAccount(c)
          \/ Reload(c)

Serve(w) == Find(w) \/ Consume(w) \/ Sweep(w) \/ CheckUser(w) \/ Issue(w) \/ Link(w)
            \/ CheckLogin(w) \/ Revoke(w) \/ Verify(w) \/ Disable(w) \/ Purge(w)
            \/ Fail(w)

Receive(w) == Refreshed(w) \/ Retried(w) \/ LoggedIn(w) \/ LoggedOut(w) \/ Deleted(w)
              \/ Refused(w) \/ GiveUp(w) \/ Unheard(w)

Next ==
    \/ \E c \in Clients : Ask(c)
    \/ \E w \in Workers : Serve(w) \/ Receive(w)
    \/ \E status \in {"active", "disabled"} : SetStatus(status)

Spec == Init /\ [][Next]_vars

-----------------------------------------------------------------------------
(* Properties                                                              *)

\* "Refresh tokens rotated on every use (one-time-use)": no two tokens are
\* issued in exchange for the same one.  consumeRefreshToken() finds the token
\* and marks it in two steps, so that this rests on the clients: each must have
\* one exchange under way and share its token with nobody.
OneTimeUse ==
    \A t, u \in Tokens : from[t] = from[u] /\ from[t] # NoToken => t = u

\* A token that was exchanged is revoked by the time its successor exists, and
\* for good: at no moment of any interleaving are both usable.  The successor
\* is linked to it only then.
ExchangedIsRevoked ==
    /\ \A t \in Tokens : from[t] # NoToken => token[from[t]] = "revoked"
    /\ \A t \in Tokens : next[t] # NoToken => from[next[t]] = t

\* A client that holds a token, and is not about to change it, holds one that
\* the server will still exchange, unless the account was deleted or a reuse
\* was detected: no device is signed out by what the others do.
HeldIsLive ==
    \A c \in Clients :
        \/ held[c] = NoToken \/ Pending(c, {"refresh", "logout"})
        \/ token[held[c]] = "live"
        \/ account.leaving \/ swept
=============================================================================
