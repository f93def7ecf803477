--------------------------- MODULE SessionsProofs ---------------------------
(* Proofs about Sessions.                                                  *)
EXTENDS Sessions, TLAPS

\* What the documents say of each other.
TokensOK ==
    /\ \A t \in Tokens : from[t] # NoToken =>
                             /\ token[from[t]] = "revoked"
                             /\ token[t] # "none"
    /\ \A t \in Tokens : next[t] # NoToken => from[next[t]] = t

\* What a request in flight relies on: which handlers it can be in, and that a
\* refresh that goes on to issue a token has revoked the one it was sent.
RequestOK(q, tk, fr) ==
    /\ q.pc \in {"find", "consume", "sweep", "user", "link"} => q.kind = "refresh"
    /\ q.pc = "issue" => q.kind \in {"refresh", "login"}
    /\ q.pc = "check" => q.kind = "login"
    /\ q.pc = "revoke" => q.kind = "logout"
    /\ q.kind \in {"refresh", "logout"} => q.tok \in Tokens
    /\ q.kind = "login" => q.tok = NoToken
    /\ q.kind = "refresh" /\ q.pc \in {"user", "issue", "link"} => tk[q.tok] = "revoked"
    /\ q.pc = "link" => q.new \in Tokens /\ tk[q.new] # "none" /\ fr[q.new] = q.tok

Inv == TypeOK /\ TokensOK /\ \A w \in Workers : RequestOK(work[w], token, from)

\* What a token has become it stays: no step makes a revoked token usable, and
\* none changes where a token came from.
Progress ==
    \A t \in Tokens :
        /\ token[t] = "revoked" => token'[t] = "revoked"
        /\ token[t] # "none" => token'[t] # "none" /\ from'[t] = from[t]

-----------------------------------------------------------------------------
(* Pieces of steps                                                         *)

LEMMA IdleOK == Idle \in Worker /\ RequestOK(Idle, token', from')
  BY DEF Idle, Worker, Pc, Kinds, RequestOK

\* A request nothing happens to keeps what it relies on.
LEMMA Bystander ==
  ASSUME NEW q \in Worker, RequestOK(q, token, from), Progress
  PROVE  RequestOK(q, token', from')
  BY NoTokenAssumption DEF Worker, RequestOK, Progress

RequestsOK == work \in [Workers -> Worker] /\ \A w \in Workers : RequestOK(work[w], token, from)

\* The step of one worker, seen from the requests.
LEMMA OneMoves ==
  ASSUME Inv, Progress, NEW w \in Workers, NEW q \in Worker,
         RequestOK(q, token', from'), Go(w, q)
  PROVE  RequestsOK'
<1>1. work \in [Workers -> Worker] /\ work' = [work EXCEPT ![w] = q]
  BY DEF Inv, TypeOK, Go
<1>2. work' \in [Workers -> Worker]
  BY <1>1
<1>3. ASSUME NEW v \in Workers PROVE RequestOK(work'[v], token', from')
  <2>1. CASE v = w
    BY <2>1, <1>1
  <2>2. CASE v # w
    <3>1. work'[v] = work[v] /\ work[v] \in Worker
      BY <2>2, <1>1
    <3>2. RequestOK(work[v], token, from)
      BY DEF Inv
    <3>3. QED BY <3>1, <3>2, Bystander
  <2>3. QED BY <2>1, <2>2
<1>4. QED BY <1>2, <1>3 DEF RequestsOK

\* Neither a token nor what is known of it changes.
LEMMA ServerRests ==
  ASSUME Inv, UNCHANGED <<token, next, from>>
  PROVE  Progress /\ TokensOK'
  BY DEF Inv, Progress, TokensOK

LEMMA StoreTypes ==
  ASSUME Inv, NEW c, NEW t \in Tokens \cup {NoToken}, Store(c, t)
  PROVE  held' \in [Clients -> Tokens \cup {NoToken}] /\ disk' \in Tokens \cup {NoToken}
  BY DEF Inv, TypeOK, Store

LEMMA ForgetTypes ==
  ASSUME Inv, NEW c, Forget(c)
  PROVE  held' \in [Clients -> Tokens \cup {NoToken}] /\ disk' \in Tokens \cup {NoToken}
  BY StoreTypes DEF Forget

\* An answer relies on nothing.
LEMMA AnswerOK ==
  ASSUME Inv, NEW w \in Workers, NEW ok \in BOOLEAN,
         NEW q, q = [work[w] EXCEPT !.pc = "answer", !.ok = ok]
  PROVE  q \in Worker /\ RequestOK(q, token', from')
<1>1. work[w] \in Worker /\ RequestOK(work[w], token, from)
  BY DEF Inv, TypeOK
<1>2. QED BY <1>1 DEF Worker, Pc, RequestOK

ClientTypes ==
    held \in [Clients -> Tokens \cup {NoToken}] /\ disk \in Tokens \cup {NoToken}
AccountTypes ==
    account \in [status : {"active", "disabled"}, leaving : BOOLEAN] /\ swept \in BOOLEAN
TokenTypes ==
    /\ token \in [Tokens -> {"none", "live", "revoked"}]
    /\ next \in [Tokens -> Tokens \cup {NoToken}]
    /\ from \in [Tokens -> Tokens \cup {NoToken}]

LEMMA InvParts ==
  Inv <=> ClientTypes /\ AccountTypes /\ TokenTypes /\ TokensOK /\ RequestsOK
  BY DEF Inv, TypeOK, ClientTypes, AccountTypes, TokenTypes, RequestsOK

LEMMA InvPartsPrime ==
  ClientTypes' /\ AccountTypes' /\ TokenTypes' /\ TokensOK' /\ RequestsOK' => Inv'
  BY DEF Inv, TypeOK, ClientTypes, AccountTypes, TokenTypes, RequestsOK

\* A step of one request that leaves the tokens alone.
LEMMA QuietMove ==
  ASSUME Inv, NEW w \in Workers, NEW q \in Worker, RequestOK(q, token', from'), Go(w, q),
         UNCHANGED <<token, next, from>>, ClientTypes', AccountTypes'
  PROVE  Inv'
<1>1. Progress /\ TokensOK'
  BY ServerRests
<1>2. RequestsOK'
  BY <1>1, OneMoves
<1>3. TokenTypes'
  BY InvParts DEF TokenTypes
<1>4. QED BY <1>1, <1>2, <1>3, InvPartsPrime

-----------------------------------------------------------------------------
(* The steps of the server                                                 *)

LEMMA QuietServeOK ==
  ASSUME Inv, NEW w \in Workers,
         Find(w) \/ CheckUser(w) \/ CheckLogin(w) \/ Verify(w) \/ Disable(w) \/ Fail(w)
  PROVE  Inv'
<1>1. work[w] \in Worker /\ RequestOK(work[w], token, from)
  BY DEF Inv, TypeOK
<1>2. UNCHANGED <<token, next, from>> /\ ClientTypes' /\ AccountTypes'
  <2>1. UNCHANGED <<token, next, from, held, disk, swept>>
    BY DEF Find, CheckUser, CheckLogin, Verify, Disable, Fail, server, clients
  <2>2. account' = account \/ account' = [status |-> "disabled", leaving |-> TRUE]
    BY DEF Find, CheckUser, CheckLogin, Verify, Disable, Fail, server, clients
  <2>3. account' \in [status : {"active", "disabled"}, leaving : BOOLEAN]
    <3>1. account \in [status : {"active", "disabled"}, leaving : BOOLEAN]
      BY InvParts, Zenon DEF AccountTypes
    <3>2. [status |-> "disabled", leaving |-> TRUE]
              \in [status : {"active", "disabled"}, leaving : BOOLEAN]
      OBVIOUS
    <3> QED BY <2>2, <3>1, <3>2, Zenon
  <2>4. swept' \in BOOLEAN /\ ClientTypes'
    BY <2>1, InvParts DEF AccountTypes, ClientTypes
  <2> QED BY <2>1, <2>3, <2>4 DEF AccountTypes
<1>3. ASSUME NEW ok \in BOOLEAN, Answer(w, ok)
      PROVE  Inv'
  BY <1>2, <1>3, AnswerOK, QuietMove DEF Answer
<1>4. ASSUME NEW pc \in {"sweep", "consume", "issue", "disable", "purge"}, GoTo(w, pc),
             pc \in {"sweep", "consume"} => work[w].pc = "find",
             pc = "issue" => work[w].kind = "login" \/ work[w].pc = "user"
      PROVE  Inv'
  <2> DEFINE q == [work[w] EXCEPT !.pc = pc]
  <2>1. q \in Worker
    BY <1>1 DEF Worker, Pc
  <2>2. RequestOK(q, token', from')
    BY <1>1, <1>2, <1>4 DEF Worker, RequestOK
  <2>3. Go(w, q)
    BY <1>4 DEF GoTo
  <2> HIDE DEF q
  <2> QED BY <2>1, <2>2, <2>3, <1>2, QuietMove
<1>5. CASE Find(w)
  BY <1>5, <1>4 DEF Find, At
<1>6. CASE CheckUser(w)
  BY <1>6, <1>3, <1>4 DEF CheckUser, At
<1>7. CASE CheckLogin(w)
  BY <1>1, <1>7, <1>3, <1>4 DEF CheckLogin, At, RequestOK
<1>8. CASE Verify(w)
  BY <1>8, <1>3, <1>4 DEF Verify, At
<1>9. CASE Disable(w)
  BY <1>9, <1>4 DEF Disable, At
<1>10. CASE Fail(w)
  BY <1>10, <1>3 DEF Fail
<1> QED BY <1>5, <1>6, <1>7, <1>8, <1>9, <1>10

\* Consuming, sweeping, signing out and deleting only revoke.
LEMMA RevokingOK ==
  ASSUME Inv, NEW w \in Workers, NEW q \in Worker, Go(w, q),
         \A t \in Tokens : token'[t] = token[t] \/ token'[t] = "revoked",
         token' \in [Tokens -> {"none", "live", "revoked"}],
         RequestOK(q, token', from'),
         UNCHANGED <<next, from, held, disk>>, AccountTypes'
  PROVE  Inv'
<1>1. Progress
  BY DEF Progress
<1>2. TokensOK'
  BY NoTokenAssumption, InvParts DEF TokensOK, TokenTypes
<1>3. RequestsOK'
  BY <1>1, OneMoves
<1>4. ClientTypes' /\ TokenTypes'
  BY InvParts DEF ClientTypes, TokenTypes
<1> QED BY <1>2, <1>3, <1>4, InvPartsPrime

LEMMA RevokeServeOK ==
  ASSUME Inv, NEW w \in Workers, Consume(w) \/ Sweep(w) \/ Revoke(w) \/ Purge(w)
  PROVE  Inv'
<1>1. work[w] \in Worker /\ RequestOK(work[w], token, from)
  BY DEF Inv, TypeOK
<1>2. token \in [Tokens -> {"none", "live", "revoked"}]
  BY DEF Inv, TypeOK
<1>3. UNCHANGED <<next, from, held, disk>> /\ AccountTypes'
  BY InvParts DEF Consume, Sweep, Revoke, Purge, clients, AccountTypes
<1>4. /\ token' \in [Tokens -> {"none", "live", "revoked"}]
      /\ \A t \in Tokens : token'[t] = token[t] \/ token'[t] = "revoked"
  BY <1>2 DEF Consume, Sweep, Revoke, Purge, RevokeAll
<1>5. CASE Consume(w)
  <2> DEFINE q == [work[w] EXCEPT !.pc = "user"]
  <2>1. q \in Worker /\ Go(w, q)
    BY <1>1, <1>5 DEF Worker, Pc, Consume, GoTo
  <2>2. work[w].pc = "consume" /\ work[w].kind = "refresh" /\ work[w].tok \in Tokens
    BY <1>1, <1>5 DEF Consume, At, RequestOK
  <2>3. token'[work[w].tok] = "revoked"
    BY <1>2, <1>5, <2>2 DEF Consume
  <2>4. RequestOK(q, token', from')
    BY <1>1, <2>2, <2>3 DEF RequestOK, Worker
  <2> HIDE DEF q
  <2> QED BY <1>3, <1>4, <2>1, <2>4, RevokingOK
<1>6. CASE ~ Consume(w)
  <2>1. PICK ok \in BOOLEAN : Answer(w, ok)
    BY <1>6 DEF Sweep, Revoke, Purge
  <2> DEFINE q == [work[w] EXCEPT !.pc = "answer", !.ok = ok]
  <2>2. q \in Worker /\ RequestOK(q, token', from') /\ Go(w, q)
    BY <2>1, AnswerOK DEF Answer
  <2> HIDE DEF q
  <2> QED BY <1>3, <1>4, <2>2, RevokingOK
<1> QED BY <1>5, <1>6

\* The successor of a token that its worker has revoked.
LEMMA IssueOK ==
  ASSUME Inv, NEW w \in Workers, Issue(w)
  PROVE  Inv'
<1> DEFINE q == work[w]
<1>1. q \in Worker /\ RequestOK(q, token, from) /\ TokenTypes /\ TokensOK
  BY InvParts DEF RequestsOK
<1>2. q.pc = "issue" /\ q.kind \in {"refresh", "login"}
  BY <1>1 DEF Issue, At, RequestOK
<1>3. PICK t \in Tokens :
          /\ token[t] = "none"
          /\ token' = [token EXCEPT ![t] = "live"]
          /\ from' = [from EXCEPT ![t] = q.tok]
          /\ Go(w, [q EXCEPT !.pc = IF q.kind = "login" THEN "answer" ELSE "link",
                             !.new = t, !.ok = q.kind = "login"])
  BY DEF Issue
<1>4. UNCHANGED <<next, account, swept, held, disk>>
  BY DEF Issue, clients
<1>5. q.tok = NoToken \/ (q.tok \in Tokens /\ token[q.tok] = "revoked" /\ q.tok # t)
  BY <1>1, <1>2, <1>3 DEF RequestOK
<1>6. Progress /\ TokenTypes'
  BY <1>1, <1>3, <1>4, <1>5 DEF Progress, TokenTypes
<1>7. TokensOK'
  <2>1. ASSUME NEW x \in Tokens, from'[x] # NoToken
        PROVE  token'[from'[x]] = "revoked" /\ token'[x] # "none"
    <3>1. CASE x = t
      BY <1>1, <1>3, <1>5, <2>1, <3>1 DEF TokenTypes
    <3>2. CASE x # t
      BY <1>1, <1>3, <2>1, <3>2 DEF TokenTypes, TokensOK
    <3> QED BY <3>1, <3>2
  <2>2. ASSUME NEW x \in Tokens, next'[x] # NoToken
        PROVE  from'[next'[x]] = x
    <3>1. next[x] \in Tokens /\ from[next[x]] = x
      BY <1>1, <1>4, <2>2 DEF TokenTypes, TokensOK
    <3>2. next[x] # t
      BY <1>1, <1>3, <3>1, NoTokenAssumption DEF TokensOK
    <3> QED BY <1>1, <1>3, <1>4, <3>1, <3>2 DEF TokenTypes
  <2> QED BY <2>1, <2>2 DEF TokensOK
<1>8. RequestsOK'
  <2> DEFINE r == [q EXCEPT !.pc = IF q.kind = "login" THEN "answer" ELSE "link",
                            !.new = t, !.ok = q.kind = "login"]
  <2>1. r \in Worker
    BY <1>1 DEF Worker, Pc
  <2>2. RequestOK(r, token', from')
    <3>1. token'[t] # "none" /\ from'[t] = q.tok
      BY <1>1, <1>3 DEF TokenTypes
    <3>2. q.kind = "refresh" => q.tok \in Tokens /\ token'[q.tok] = "revoked"
      BY <1>1, <1>2, <1>3, <1>5 DEF RequestOK, TokenTypes
    <3> QED BY <1>1, <1>2, <3>1, <3>2 DEF RequestOK, Worker
  <2>3. Go(w, r)
    BY <1>3
  <2> HIDE DEF r
  <2> QED BY <1>6, <2>1, <2>2, <2>3, OneMoves
<1>9. ClientTypes' /\ AccountTypes'
  BY <1>4, InvParts DEF ClientTypes, AccountTypes
<1> QED BY <1>6, <1>7, <1>8, <1>9, InvPartsPrime

LEMMA LinkOK ==
  ASSUME Inv, NEW w \in Workers, Link(w)
  PROVE  Inv'
<1> DEFINE q == work[w]
<1>1. q \in Worker /\ RequestOK(q, token, from) /\ TokenTypes /\ TokensOK
  BY InvParts DEF RequestsOK
<1>2. q.tok \in Tokens /\ q.new \in Tokens /\ from[q.new] = q.tok
  BY <1>1 DEF Link, At, RequestOK
<1>3. UNCHANGED <<token, from, account, swept, held, disk>>
      /\ next' = [next EXCEPT ![q.tok] = q.new] /\ Answer(w, TRUE)
  BY DEF Link, clients
<1>4. Progress /\ TokenTypes' /\ TokensOK'
  BY <1>1, <1>2, <1>3 DEF Progress, TokenTypes, TokensOK
<1>5. RequestsOK'
  <2> DEFINE r == [work[w] EXCEPT !.pc = "answer", !.ok = TRUE]
  <2>1. r \in Worker /\ RequestOK(r, token', from') /\ Go(w, r)
    BY <1>3, AnswerOK DEF Answer
  <2> HIDE DEF r
  <2> QED BY <1>4, <2>1, OneMoves
<1>6. ClientTypes' /\ AccountTypes'
  BY <1>3, InvParts DEF ClientTypes, AccountTypes
<1> QED BY <1>4, <1>5, <1>6, InvPartsPrime

LEMMA ServeOK ==
  ASSUME Inv, NEW w \in Workers, Serve(w)
  PROVE  Inv'
  BY QuietServeOK, RevokeServeOK, IssueOK, LinkOK DEF Serve

-----------------------------------------------------------------------------
(* The steps of the clients                                                *)

LEMMA SendOK ==
  ASSUME Inv, NEW c \in Clients, NEW kind \in Kinds \ {"none"},
         NEW t \in Tokens \cup {NoToken}, Send(c, kind, t),
         kind \in {"refresh", "logout"} => t \in Tokens,
         kind = "login" => t = NoToken
  PROVE  Inv'
<1>1. PICK w \in Workers :
          Go(w, [Idle EXCEPT !.pc = FirstPc(kind), !.kind = kind, !.client = c, !.tok = t])
  BY DEF Send
<1> DEFINE q == [Idle EXCEPT !.pc = FirstPc(kind), !.kind = kind, !.client = c, !.tok = t]
<1>2. q \in Worker
  BY DEF Idle, Worker, Kinds, Pc, FirstPc
<1>3. RequestOK(q, token', from')
  BY DEF Idle, Kinds, FirstPc, RequestOK
<1>4. UNCHANGED <<token, next, from>> /\ ClientTypes' /\ AccountTypes'
  BY InvParts DEF Send, server, clients, ClientTypes, AccountTypes
<1> HIDE DEF q
<1> QED BY <1>1, <1>2, <1>3, <1>4, QuietMove DEF q

\* Nothing but the clients' own memory, and requests they wait for no more.
LEMMA ReloadOK ==
  ASSUME Inv, NEW c \in Clients, Reload(c)
  PROVE  Inv'
<1>1. UNCHANGED <<token, next, from, account, swept>>
      /\ ClientTypes /\ AccountTypes /\ TokenTypes /\ RequestsOK
  BY InvParts DEF Reload, server
<1>2. Progress /\ TokensOK'
  BY <1>1, ServerRests
<1>3. ClientTypes' /\ AccountTypes' /\ TokenTypes'
  BY <1>1 DEF Reload, ClientTypes, AccountTypes, TokenTypes
<1>4. ASSUME NEW w \in Workers
      PROVE  work'[w] \in Worker /\ RequestOK(work'[w], token', from')
  <2>1. work[w] \in Worker /\ RequestOK(work[w], token', from')
    BY <1>1, <1>2, Bystander DEF RequestsOK
  <2>2. CASE work'[w] = work[w]
    BY <2>1, <2>2
  <2>3. CASE work'[w] = Idle
    BY <2>3, IdleOK
  <2>4. CASE work'[w] = [work[w] EXCEPT !.client = NoClient]
    BY <2>1, <2>4 DEF Worker, RequestOK
  <2> QED BY <2>2, <2>3, <2>4 DEF Reload
<1>5. RequestsOK'
  BY <1>4 DEF Reload, RequestsOK
<1> QED BY <1>2, <1>3, <1>5, InvPartsPrime

LEMMA AskOK ==
  ASSUME Inv, NEW c \in Clients, Ask(c)
  PROVE  Inv'
<1>1. held \in [Clients -> Tokens \cup {NoToken}]
  BY DEF Inv, TypeOK
<1>2. CASE Refresh(c)
  BY <1>1, <1>2, SendOK DEF Refresh, Kinds
<1>3. CASE LogIn(c)
  BY <1>3, SendOK DEF LogIn, Kinds
<1>4. CASE SignOut(c)
  <2>1. ClientTypes' /\ UNCHANGED <<token, next, from, account, swept, work>>
    BY <1>4, ForgetTypes DEF SignOut, server, ClientTypes
  <2> QED BY <2>1, ServerRests, InvParts, InvPartsPrime
          DEF AccountTypes, TokenTypes, RequestsOK
<1>5. CASE LogOut(c)
  BY <1>1, <1>5, SendOK DEF LogOut, Kinds
<1>6. CASE DeleteAccount(c)
  BY <1>6, SendOK DEF DeleteAccount, Kinds
<1>7. CASE Reload(c)
  BY <1>7, ReloadOK
<1> QED BY <1>2, <1>3, <1>4, <1>5, <1>6, <1>7 DEF Ask

LEMMA ReceiveOK ==
  ASSUME Inv, NEW w \in Workers, Receive(w)
  PROVE  Inv'
<1>1. work[w] \in Worker /\ RequestOK(work[w], token, from)
  BY DEF Inv, TypeOK
<1>2. UNCHANGED <<token, next, from>> /\ AccountTypes'
  BY InvParts DEF Receive, Refreshed, Retried, LoggedIn, LoggedOut, Deleted, Refused,
                  GiveUp, Unheard, server, AccountTypes
<1>3. UNCHANGED clients \/ (\E c, t \in Clients \cup Tokens \cup {NoToken, NoClient} :
                                t \in Tokens \cup {NoToken} /\ Store(c, t))
  BY <1>1 DEF Receive, Refreshed, Retried, LoggedIn, LoggedOut, Deleted, Refused,
              GiveUp, Unheard, Refusal, Forget, Worker
<1>4. ClientTypes'
  BY <1>3, StoreTypes, InvParts DEF clients, ClientTypes
<1>5. \/ Done(w)
      \/ At(w, "answer") /\ GoTo(w, "retry")
      \/ Go(w, [work[w] EXCEPT !.client = NoClient])
  BY DEF Receive, Refreshed, Retried, LoggedIn, LoggedOut, Deleted, Refused, GiveUp, Unheard
<1>6. PICK q \in Worker : RequestOK(q, token', from') /\ Go(w, q)
  <2>1. CASE Done(w)
    BY <2>1, IdleOK DEF Done
  <2>2. CASE At(w, "answer") /\ GoTo(w, "retry")
    BY <1>1, <1>2, <2>2 DEF At, GoTo, Worker, Pc, RequestOK
  <2>3. CASE Go(w, [work[w] EXCEPT !.client = NoClient])
    BY <1>1, <1>2, <2>3 DEF Worker, RequestOK
  <2> QED BY <1>5, <2>1, <2>2, <2>3
<1> QED BY <1>2, <1>4, <1>6, QuietMove

-----------------------------------------------------------------------------
(* The invariant and the theorems                                          *)

LEMMA InitOK == Init => Inv
<1> SUFFICES ASSUME Init
             PROVE  Inv
  OBVIOUS
<1>1. Idle \in Worker /\ RequestOK(Idle, token, from)
  BY DEF Idle, Worker, Pc, Kinds, RequestOK
<1>2. \A w \in Workers : work[w] = Idle
  BY DEF Init
<1>3. TypeOK
  BY <1>1 DEF Init, TypeOK
<1>4. TokensOK
  BY DEF Init, TokensOK
<1> QED BY <1>1, <1>2, <1>3, <1>4 DEF Inv

LEMMA NextOK == Inv /\ [Next]_vars => Inv'
<1> SUFFICES ASSUME Inv, [Next]_vars
             PROVE  Inv'
  OBVIOUS
<1>1. CASE UNCHANGED vars
  BY <1>1 DEF vars, Inv, TypeOK, TokensOK, RequestOK
<1>2. ASSUME NEW status \in {"active", "disabled"}, SetStatus(status)
      PROVE  Inv'
  <2>1. UNCHANGED <<token, next, from, held, disk, swept, work>> /\ AccountTypes'
    BY <1>2, InvParts DEF SetStatus, clients, AccountTypes
  <2> QED BY <2>1 DEF Inv, TypeOK, TokensOK, RequestOK, AccountTypes
<1> QED BY <1>1, <1>2, AskOK, ServeOK, ReceiveOK DEF Next

LEMMA Invariance == Spec => []Inv
  BY InitOK, NextOK, PTL DEF Spec

\* Every variable keeps its type, however the requests of any number of
\* clients overlap, fail or are given up.
THEOREM SessionsTypeCorrect == Spec => []TypeOK
<1>1. Inv => TypeOK
  BY DEF Inv
<1> QED BY <1>1, Invariance, PTL

\* Rotation (token.service.ts:86-118, 55-84) never leaves a token usable next
\* to its successor, whatever tabs, phones, reloads and failures do.
THEOREM RotationRevokes == Spec => []ExchangedIsRevoked
<1>1. Inv => ExchangedIsRevoked
  BY DEF Inv, TokensOK, ExchangedIsRevoked
<1> QED BY <1>1, Invariance, PTL

-----------------------------------------------------------------------------
(* Clients that share no token and are not restarted in the middle of an   *)
(* exchange                                                                *)

KeptApart == ~ ReloadAnytime /\ \A a, b \in Tabs : a = b

\* The request of q exchanges t, or has still to find out whether it may.
Exchanges(q, t) ==
    q.kind = "refresh" /\ q.tok = t /\ q.pc \in {"find", "consume", "sweep", "user", "issue"}

\* The answer of q brings t to its client.
Brings(q, t) == q.new = t /\ (q.pc = "link" \/ (q.pc = "answer" /\ q.ok))

\* The client c waits for what becomes of the token it holds.
Waits(q, c, kinds) ==
    q.client = c /\ q.kind \in kinds /\ q.tok = held[c] /\ q.pc # "retry"

\* A client's token is its own.
HeldApart ==
    /\ \A c, d \in Clients : held[c] = held[d] /\ held[c] # NoToken => c = d
    /\ \A c \in Tabs : held[c] = disk
    /\ \A c \in Clients : held[c] # NoToken => token[held[c]] # "none"

\* A request is about a token there is, and if a client still holds it, it is
\* the client that waits.
AskedByHolder ==
    \A w \in Workers :
        /\ work[w].tok # NoToken => /\ token[work[w].tok] # "none"
                                    /\ work[w].kind \in {"refresh", "logout"}
                                    /\ work[w].pc # "idle"
        /\ work[w].new # NoToken => work[w].pc \in {"link", "answer", "retry"}
        /\ work[w].pc = "purge" => account.leaving
        /\ work[w].tok # NoToken /\ work[w].pc # "retry" =>
               \A c \in Clients : held[c] = work[w].tok => work[w].client = c

\* One request at a time exchanges a token, and only one without a successor.
OneExchange ==
    \A w \in Workers, t \in Tokens :
        Exchanges(work[w], t) =>
            /\ \A x \in Tokens : from[x] # t
            /\ \A v \in Workers : Exchanges(work[v], t) => v = w

Good(t) == token[t] = "live" \/ account.leaving \/ swept

\* A new token is on its way to one client, and nobody knows it yet.
OneWay ==
    \A w \in Workers, t \in Tokens :
        Brings(work[w], t) =>
            /\ token[t] # "none" /\ Good(t)
            /\ \A x \in Tokens : from[x] # t
            /\ \A c \in Clients : held[c] # t
            /\ \A v \in Workers : work[v].tok # t /\ (Brings(work[v], t) => v = w)

\* Whoever holds a token that has a successor waits for it, and whoever holds
\* one the server would refuse waits for an answer.
HolderWaits ==
    \A c \in Clients :
        held[c] # NoToken =>
            /\ \/ \A x \in Tokens : from[x] # held[c]
               \/ \E w \in Workers : Waits(work[w], c, {"refresh"})
            /\ Good(held[c]) \/ \E w \in Workers : Waits(work[w], c, {"refresh", "logout"})

Apart == HeldApart /\ AskedByHolder /\ OneExchange /\ OneWay /\ HolderWaits /\ OneTimeUse

\* The step of the server on one request: the client still waits for it, and
\* revokes no token but its own, unless it revokes them all.
LEMMA ServerMoveApart ==
  ASSUME Inv, Apart, NEW w \in Workers, NEW q \in Worker, Go(w, q),
         q.client = work[w].client, q.kind = work[w].kind, q.tok = work[w].tok,
         q.new = work[w].new,
         work[w].pc \notin {"idle", "retry"}, q.pc \notin {"idle", "retry"},
         \A t \in Tokens : Exchanges(q, t) => Exchanges(work[w], t),
         \A t \in Tokens : Brings(q, t) => Brings(work[w], t),
         q.new # NoToken => q.pc \in {"link", "answer"},
         q.pc = "purge" => account'.leaving,
         account.leaving => account'.leaving, swept => swept',
         \A t \in Tokens : \/ token'[t] = token[t]
                           \/ /\ token'[t] # "none"
                              /\ account'.leaving \/ swept' \/ t = work[w].tok,
         UNCHANGED <<from, held, disk>>
  PROVE  Apart'
<1>1. work \in [Workers -> Worker] /\ work' = [work EXCEPT ![w] = q]
      /\ held \in [Clients -> Tokens \cup {NoToken}]
  BY DEF Inv, TypeOK, Go
<1>2. work'[w] = q /\ \A v \in Workers : v # w => work'[v] = work[v]
  BY <1>1
<1>3. ASSUME NEW t \in Tokens
      PROVE  /\ token[t] # "none" => token'[t] # "none"
             /\ Good(t) /\ t # work[w].tok => Good(t)'
  BY DEF Good
<1>4. \A v \in Workers, t \in Tokens : Exchanges(work'[v], t) => Exchanges(work[v], t)
  BY <1>2
<1>5. \A v \in Workers, t \in Tokens : Brings(work'[v], t) => Brings(work[v], t)
  BY <1>2
<1>6. \A v \in Workers : /\ work'[v].tok = work[v].tok /\ work'[v].client = work[v].client
                         /\ work'[v].kind = work[v].kind
                         /\ work'[v].pc = "retry" <=> work[v].pc = "retry"
  BY <1>2
<1>7. HeldApart'
  BY <1>1, <1>3 DEF Apart, HeldApart
<1>8. AskedByHolder'
  <2>1. ASSUME NEW v \in Workers
        PROVE  /\ work'[v].tok # NoToken => /\ token'[work'[v].tok] # "none"
                                            /\ work'[v].kind \in {"refresh", "logout"}
                                            /\ work'[v].pc # "idle"
               /\ work'[v].new # NoToken => work'[v].pc \in {"link", "answer", "retry"}
               /\ work'[v].pc = "purge" => account'.leaving
    <3>1. work[v] \in Worker
      BY <1>1
    <3> QED BY <1>2, <1>3, <1>6, <3>1 DEF Apart, AskedByHolder, Worker
  <2>2. \A v \in Workers : work'[v].tok # NoToken /\ work'[v].pc # "retry" =>
                              \A c \in Clients : held'[c] = work'[v].tok => work'[v].client = c
    BY <1>6 DEF Apart, AskedByHolder
  <2> QED BY <2>1, <2>2 DEF AskedByHolder
<1>9. OneExchange'
  BY <1>4 DEF Apart, OneExchange
<1>10. OneWay'
  BY <1>3, <1>5, <1>6 DEF Apart, OneWay
<1>11. HolderWaits'
  <2> SUFFICES ASSUME NEW c \in Clients, held[c] # NoToken
               PROVE  /\ \/ \A x \in Tokens : from[x] # held[c]
                         \/ \E v \in Workers : Waits(work[v], c, {"refresh"})'
                      /\ Good(held[c])' \/ \E v \in Workers : Waits(work[v], c, {"refresh", "logout"})'
    BY DEF HolderWaits, Good, Waits
  <2>1. \A v \in Workers, kinds \in {{"refresh"}, {"refresh", "logout"}} :
            Waits(work[v], c, kinds) => Waits(work[v], c, kinds)'
    BY <1>6 DEF Waits
  <2>2. CASE held[c] = work[w].tok
    <3>1. Waits(work[w], c, {"refresh", "logout"})
      BY <2>2 DEF Apart, AskedByHolder, Waits
    <3> QED BY <2>1, <3>1 DEF Apart, HolderWaits
  <2>3. CASE held[c] # work[w].tok
    BY <1>1, <1>3, <2>1, <2>3 DEF Apart, HolderWaits
  <2> QED BY <2>2, <2>3
<1>12. OneTimeUse'
  BY DEF Apart, OneTimeUse
<1> QED BY <1>7, <1>8, <1>9, <1>10, <1>11, <1>12 DEF Apart

LEMMA AnswerApart ==
  ASSUME Inv, Apart, NEW w \in Workers, NEW ok \in BOOLEAN, Answer(w, ok),
         work[w].pc \notin {"idle", "answer", "retry"},
         ok => work[w].pc \in {"link", "revoke", "purge"},
         account.leaving => account'.leaving, swept => swept',
         \A t \in Tokens : \/ token'[t] = token[t]
                           \/ /\ token'[t] # "none"
                              /\ account'.leaving \/ swept' \/ t = work[w].tok,
         UNCHANGED <<from, held, disk>>
  PROVE  Apart'
<1> DEFINE q == [work[w] EXCEPT !.pc = "answer", !.ok = ok]
<1>1. work[w] \in Worker
  BY DEF Inv, TypeOK
<1>2. q \in Worker /\ Go(w, q)
  BY <1>1 DEF Worker, Pc, Answer
<1>3. /\ q.client = work[w].client /\ q.kind = work[w].kind /\ q.tok = work[w].tok
      /\ q.new = work[w].new /\ q.pc = "answer" /\ q.ok = ok
  BY <1>1 DEF Worker
<1>4. \A t \in Tokens : Exchanges(q, t) => Exchanges(work[w], t)
  BY <1>3 DEF Exchanges
<1>5. \A t \in Tokens : Brings(q, t) => Brings(work[w], t)
  BY <1>3, NoTokenAssumption DEF Brings, Apart, AskedByHolder
<1> HIDE DEF q
<1> QED BY <1>2, <1>3, <1>4, <1>5, ServerMoveApart

LEMMA GoOnApart ==
  ASSUME Inv, Apart, NEW w \in Workers, NEW pc \in Pc, GoTo(w, pc),
         work[w].pc \in {"find", "consume", "user", "check", "verify", "disable"},
         pc \in {"consume", "sweep", "user", "issue", "disable", "purge"},
         pc \in {"consume", "sweep", "user"} => work[w].pc \in {"find", "consume"},
         pc = "issue" => work[w].kind = "login" \/ work[w].pc = "user",
         pc = "purge" => account'.leaving,
         account.leaving => account'.leaving, swept => swept',
         \A t \in Tokens : \/ token'[t] = token[t]
                           \/ /\ token'[t] # "none"
                              /\ account'.leaving \/ swept' \/ t = work[w].tok,
         UNCHANGED <<from, held, disk>>
  PROVE  Apart'
<1> DEFINE q == [work[w] EXCEPT !.pc = pc]
<1>1. work[w] \in Worker
  BY DEF Inv, TypeOK
<1>2. q \in Worker /\ Go(w, q)
  BY <1>1 DEF Worker, GoTo
<1>3. /\ q.client = work[w].client /\ q.kind = work[w].kind /\ q.tok = work[w].tok
      /\ q.new = work[w].new /\ q.pc = pc
  BY <1>1 DEF Worker
<1>4. \A t \in Tokens : Exchanges(q, t) => Exchanges(work[w], t)
  BY <1>3 DEF Exchanges
<1>5. \A t \in Tokens : Brings(q, t) => Brings(work[w], t)
  BY <1>3 DEF Brings
<1>6. q.new = NoToken
  BY <1>3 DEF Apart, AskedByHolder
<1> HIDE DEF q
<1> QED BY <1>2, <1>3, <1>4, <1>5, <1>6, ServerMoveApart

LEMMA QuietServeApart ==
  ASSUME Inv, Apart, NEW w \in Workers,
         Find(w) \/ CheckUser(w) \/ CheckLogin(w) \/ Verify(w) \/ Disable(w) \/ Fail(w)
         \/ Link(w)
  PROVE  Apart'
<1>1. work[w] \in Worker /\ RequestOK(work[w], token, from)
  BY DEF Inv, TypeOK
<1>2. UNCHANGED <<token, from, held, disk, swept>>
      /\ (account.leaving => account'.leaving) /\ (swept => swept')
  <2>1. UNCHANGED <<token, from, held, disk, swept>>
    BY DEF Find, CheckUser, CheckLogin, Verify, Disable, Fail, Link, server, clients
  <2>2. account' = account \/ account' = [status |-> "disabled", leaving |-> TRUE]
    BY DEF Find, CheckUser, CheckLogin, Verify, Disable, Fail, Link, server, clients
  <2>3. account.leaving => account'.leaving
    <3>1. [status |-> "disabled", leaving |-> TRUE].leaving
      OBVIOUS
    <3> QED BY <2>2, <3>1, Zenon
  <2> QED BY <2>1, <2>3, Zenon
<1>3. ASSUME Answer(w, FALSE), work[w].pc \notin {"idle", "answer", "retry"}
      PROVE  Apart'
  BY <1>2, <1>3, AnswerApart
<1>4. CASE Find(w)
  BY <1>2, <1>4, GoOnApart DEF Find, At, Pc
<1>5. CASE CheckUser(w)
  BY <1>2, <1>3, <1>5, GoOnApart DEF CheckUser, At, Pc
<1>6. CASE CheckLogin(w)
  BY <1>1, <1>2, <1>3, <1>6, GoOnApart DEF CheckLogin, At, Pc, RequestOK
<1>7. CASE Verify(w)
  BY <1>2, <1>3, <1>7, GoOnApart DEF Verify, At, Pc
<1>8. CASE Disable(w)
  <2>1. account'.leaving /\ At(w, "disable") /\ GoTo(w, "purge")
    BY <1>8 DEF Disable
  <2> QED BY <1>2, <2>1, GoOnApart DEF At, Pc
<1>9. CASE Fail(w)
  BY <1>3, <1>9 DEF Fail
<1>10. CASE Link(w)
  <2>1. Answer(w, TRUE) /\ work[w].pc = "link"
    BY <1>10 DEF Link, At
  <2> QED BY <1>2, <2>1, AnswerApart
<1> QED BY <1>4, <1>5, <1>6, <1>7, <1>8, <1>9, <1>10

LEMMA RevokeServeApart ==
  ASSUME Inv, Apart, NEW w \in Workers, Consume(w) \/ Sweep(w) \/ Revoke(w) \/ Purge(w)
  PROVE  Apart'
<1>1. work[w] \in Worker /\ RequestOK(work[w], token, from)
      /\ token \in [Tokens -> {"none", "live", "revoked"}]
  BY DEF Inv, TypeOK
<1>2. UNCHANGED <<from, held, disk, account>>
      /\ (account.leaving => account'.leaving) /\ (swept => swept')
  <2>1. UNCHANGED <<from, held, disk, account>>
    BY DEF Consume, Sweep, Revoke, Purge, clients
  <2>2. swept' = swept \/ swept' = TRUE
    BY DEF Consume, Sweep, Revoke, Purge
  <2>3. swept => swept'
    BY <2>2, InvParts DEF AccountTypes
  <2>4. account.leaving => account'.leaving
    BY <2>1
  <2> QED BY <2>1, <2>3, <2>4
<1>3. \A t \in Tokens : token'[t] = token[t] \/ token'[t] = "revoked"
  BY <1>1 DEF Consume, Sweep, Revoke, Purge, RevokeAll
<1>4. CASE Consume(w) \/ Revoke(w)
  <2>1. \A t \in Tokens : t # work[w].tok => token'[t] = token[t]
    BY <1>1, <1>4 DEF Consume, Revoke
  <2>2. \A t \in Tokens : \/ token'[t] = token[t]
                          \/ /\ token'[t] # "none"
                             /\ account'.leaving \/ swept' \/ t = work[w].tok
    BY <1>3, <2>1
  <2>3. CASE Consume(w)
    <3>1. GoTo(w, "user") /\ work[w].pc = "consume" /\ "user" \in Pc
      BY <2>3 DEF Consume, At, Pc
    <3> QED BY <1>2, <2>2, <3>1, GoOnApart
  <2>4. CASE Revoke(w)
    <3>1. Answer(w, TRUE) /\ work[w].pc = "revoke"
      BY <2>4 DEF Revoke, At
    <3> QED BY <1>2, <2>2, <3>1, AnswerApart
  <2> QED BY <1>4, <2>3, <2>4
<1>5. CASE Sweep(w)
  BY <1>2, <1>3, <1>5, AnswerApart DEF Sweep, At
<1>6. CASE Purge(w)
  <2>1. account'.leaving
    BY <1>2, <1>6 DEF Purge, At, Apart, AskedByHolder
  <2> QED BY <1>2, <1>3, <1>6, <2>1, AnswerApart DEF Purge, At
<1> QED BY <1>4, <1>5, <1>6

\* The successor is new, the exchange is over with it, and the holder of the
\* token it replaces waits for it.
LEMMA IssueApart ==
  ASSUME Inv, Apart, NEW w \in Workers, Issue(w)
  PROVE  Apart'
<1> DEFINE q == work[w]
<1>1. q \in Worker /\ RequestOK(q, token, from) /\ TokenTypes /\ TokensOK /\ RequestsOK
      /\ ClientTypes
  BY InvParts DEF RequestsOK
<1>2. q.pc = "issue" /\ q.kind \in {"refresh", "login"} /\ (q.kind = "login" => q.tok = NoToken)
      /\ (q.kind = "refresh" => q.tok \in Tokens)
  BY <1>1 DEF Issue, At, RequestOK
<1>3. PICK t \in Tokens :
          /\ token[t] = "none"
          /\ token' = [token EXCEPT ![t] = "live"]
          /\ from' = [from EXCEPT ![t] = q.tok]
          /\ Go(w, [q EXCEPT !.pc = IF q.kind = "login" THEN "answer" ELSE "link",
                             !.new = t, !.ok = q.kind = "login"])
  BY DEF Issue
<1> DEFINE r == [q EXCEPT !.pc = IF q.kind = "login" THEN "answer" ELSE "link",
                          !.new = t, !.ok = q.kind = "login"]
<1>4. UNCHANGED <<account, swept, held, disk>>
  BY DEF Issue, clients
<1>5. /\ r.client = q.client /\ r.kind = q.kind /\ r.tok = q.tok /\ r.new = t
      /\ r.pc \in {"link", "answer"} /\ Brings(r, t)
      /\ \A x : ~ Exchanges(r, x)
      /\ \A x : Brings(r, x) => x = t
  BY <1>1, <1>2 DEF Brings, Exchanges, Worker
<1>6. /\ work'[w] = r /\ \A v \in Workers : v # w => work'[v] = work[v]
      /\ \A x \in Tokens : x # t => token'[x] = token[x] /\ from'[x] = from[x]
      /\ token'[t] = "live" /\ from'[t] = q.tok
  BY <1>1, <1>3 DEF Go, RequestsOK, TokenTypes
<1> HIDE DEF r
<1>7. \A v \in Workers : /\ work'[v].tok = work[v].tok /\ work'[v].client = work[v].client
                         /\ work'[v].kind = work[v].kind
                         /\ work'[v].pc = "retry" <=> work[v].pc = "retry"
  BY <1>2, <1>5, <1>6
<1>8. /\ \A c \in Clients : held[c] # t
      /\ \A v \in Workers : work[v].tok # t
      /\ \A x \in Tokens : from[x] # t
      /\ \A v \in Workers : ~ Brings(work[v], t)
  BY <1>1, <1>3, NoTokenAssumption DEF Apart, HeldApart, AskedByHolder, TokensOK, OneWay
<1>9. \A x \in Tokens : q.tok # NoToken => Exchanges(q, q.tok) /\ q.tok \in Tokens
  BY <1>2 DEF Exchanges
<1>10. HeldApart'
  BY <1>1, <1>4, <1>6, <1>8 DEF Apart, HeldApart, ClientTypes
<1>11. AskedByHolder'
  <2>1. ASSUME NEW v \in Workers
        PROVE  /\ work'[v].tok # NoToken => /\ token'[work'[v].tok] # "none"
                                            /\ work'[v].kind \in {"refresh", "logout"}
                                            /\ work'[v].pc # "idle"
               /\ work'[v].new # NoToken => work'[v].pc \in {"link", "answer", "retry"}
               /\ work'[v].pc = "purge" => account'.leaving
    <3>1. work[v] \in Worker
      BY <1>1 DEF RequestsOK
    <3> QED BY <1>4, <1>5, <1>6, <1>7, <1>8, <3>1 DEF Apart, AskedByHolder, Worker
  <2>2. \A v \in Workers : work'[v].tok # NoToken /\ work'[v].pc # "retry" =>
                              \A c \in Clients : held'[c] = work'[v].tok => work'[v].client = c
    BY <1>4, <1>7 DEF Apart, AskedByHolder
  <2> QED BY <2>1, <2>2 DEF AskedByHolder
<1>12. OneExchange'
  <2> SUFFICES ASSUME NEW v \in Workers, NEW x \in Tokens, Exchanges(work'[v], x)
               PROVE  /\ \A y \in Tokens : from'[y] # x
                      /\ \A u \in Workers : Exchanges(work'[u], x) => u = v
    BY DEF OneExchange
  <2>1. v # w /\ Exchanges(work[v], x)
    BY <1>5, <1>6
  <2>2. x # q.tok
    BY <1>2, <2>1, NoTokenAssumption DEF Apart, OneExchange, Exchanges
  <2> QED BY <1>5, <1>6, <2>1, <2>2 DEF Apart, OneExchange
<1>13. OneWay'
  <2> SUFFICES ASSUME NEW v \in Workers, NEW x \in Tokens, Brings(work'[v], x)
               PROVE  /\ token'[x] # "none" /\ Good(x)'
                      /\ \A y \in Tokens : from'[y] # x
                      /\ \A c \in Clients : held'[c] # x
                      /\ \A u \in Workers : work'[u].tok # x /\ (Brings(work'[u], x) => u = v)
    BY DEF OneWay
  <2>1. CASE v = w
    <3>1. x = t /\ q.tok # t
      BY <1>5, <1>6, <1>8, <2>1
    <3> QED BY <1>4, <1>5, <1>6, <1>7, <1>8, <2>1, <3>1 DEF Good
  <2>2. CASE v # w
    <3>1. Brings(work[v], x)
      BY <1>6, <2>2
    <3>2. x # t /\ q.tok # x
      BY <1>8, <3>1 DEF Apart, OneWay
    <3> QED BY <1>4, <1>5, <1>6, <1>7, <3>1, <3>2 DEF Good, Apart, OneWay
  <2> QED BY <2>1, <2>2
<1>14. HolderWaits'
  <2> SUFFICES ASSUME NEW c \in Clients, held[c] # NoToken
               PROVE  /\ \/ \A x \in Tokens : from'[x] # held[c]
                         \/ \E v \in Workers : Waits(work[v], c, {"refresh"})'
                      /\ Good(held[c])' \/ \E v \in Workers : Waits(work[v], c, {"refresh", "logout"})'
    BY <1>4 DEF HolderWaits, Good, Waits
  <2>1. \A v \in Workers, kinds \in {{"refresh"}, {"refresh", "logout"}} :
            Waits(work[v], c, kinds) => Waits(work[v], c, kinds)'
    BY <1>4, <1>7 DEF Waits
  <2>2. held[c] \in Tokens /\ held[c] # t
    BY <1>1, <1>8 DEF ClientTypes
  <2>3. Good(held[c]) => Good(held[c])'
    BY <1>4, <1>6, <2>2 DEF Good
  <2>4. CASE held[c] = q.tok
    <3>1. Waits(q, c, {"refresh"})
      BY <1>2, <2>4 DEF Apart, AskedByHolder, Waits
    <3> QED BY <2>1, <2>3, <3>1 DEF Apart, HolderWaits
  <2>5. CASE held[c] # q.tok
    BY <1>6, <2>1, <2>3, <2>5 DEF Apart, HolderWaits
  <2> QED BY <2>4, <2>5
<1>15. OneTimeUse'
  <2> SUFFICES ASSUME NEW x \in Tokens, NEW y \in Tokens, from'[x] = from'[y], from'[x] # NoToken
               PROVE  x = y
    BY DEF OneTimeUse
  <2>1. \A z \in Tokens : q.tok # NoToken => from[z] # q.tok
    BY <1>2, NoTokenAssumption DEF Apart, OneExchange, Exchanges
  <2> QED BY <1>6, <2>1 DEF Apart, OneTimeUse
<1> QED BY <1>10, <1>11, <1>12, <1>13, <1>14, <1>15 DEF Apart

LEMMA ServeApart ==
  ASSUME Inv, Apart, NEW w \in Workers, Serve(w)
  PROVE  Apart'
  BY QuietServeApart, RevokeServeApart, IssueApart DEF Serve

-----------------------------------------------------------------------------
(* What the clients do to it                                               *)

LEMMA IdleIsNothing ==
  /\ Idle \in Worker /\ Idle.pc = "idle" /\ Idle.tok = NoToken /\ Idle.new = NoToken
  /\ Idle.kind = "none"
  /\ \A t : ~ Exchanges(Idle, t) /\ ~ Brings(Idle, t)
  BY DEF Idle, Worker, Pc, Kinds, Exchanges, Brings

LEMMA SendApart ==
  ASSUME Inv, Apart, NEW c \in Clients, NEW kind \in Kinds \ {"none"},
         NEW t \in Tokens \cup {NoToken}, Send(c, kind, t),
         kind \in {"refresh", "logout"} => t = held[c] /\ t # NoToken,
         kind \in {"login", "delete"} => t = NoToken,
         kind = "refresh" => ~ Pending(c, {"refresh"})
  PROVE  Apart'
<1>1. PICK w \in Workers :
          /\ At(w, "idle")
          /\ Go(w, [Idle EXCEPT !.pc = FirstPc(kind), !.kind = kind, !.client = c, !.tok = t])
  BY DEF Send
<1> DEFINE q == [Idle EXCEPT !.pc = FirstPc(kind), !.kind = kind, !.client = c, !.tok = t]
<1>2. /\ UNCHANGED <<token, from, account, swept, held, disk>>
      /\ work \in [Workers -> Worker] /\ held \in [Clients -> Tokens \cup {NoToken}]
  BY DEF Send, server, clients, Inv, TypeOK
<1>3. work'[w] = q /\ \A v \in Workers : v # w => work'[v] = work[v]
  BY <1>1, <1>2 DEF Go
<1>4. /\ q.client = c /\ q.kind = kind /\ q.tok = t /\ q.new = NoToken
      /\ q.pc = FirstPc(kind)
      /\ q.pc \in {"find", "check", "revoke", "verify"}
      /\ q.pc = "find" <=> kind = "refresh"
  BY DEF Idle, Kinds, FirstPc
<1> HIDE DEF q
<1>5. \A x : /\ ~ Brings(q, x)
             /\ Exchanges(q, x) => kind = "refresh" /\ x = t
  BY <1>4 DEF Brings, Exchanges
<1>6. work[w].pc = "idle" /\ work[w].tok = NoToken
  BY <1>1 DEF At, Apart, AskedByHolder
<1>7. kind = "refresh" => \A v \in Workers : v # w => ~ Exchanges(work[v], t)
  <2> SUFFICES ASSUME kind = "refresh", NEW v \in Workers, Exchanges(work[v], t)
               PROVE  FALSE
    OBVIOUS
  <2>1. work[v].client = c /\ work[v].kind = "refresh"
    BY DEF Exchanges, Apart, AskedByHolder
  <2> QED BY <2>1 DEF Pending
<1>8. kind = "refresh" => \A x \in Tokens : from[x] # t
  BY DEF Apart, HolderWaits, Waits, Pending
<1>9. t # NoToken => t \in Tokens /\ token[t] # "none" /\ kind \in {"refresh", "logout"}
                     /\ t = held[c]
  BY <1>2 DEF Kinds, Apart, HeldApart
<1>10. HeldApart'
  BY <1>2 DEF Apart, HeldApart
<1>11. AskedByHolder'
  <2>1. ASSUME NEW v \in Workers
        PROVE  /\ work'[v].tok # NoToken => /\ token'[work'[v].tok] # "none"
                                            /\ work'[v].kind \in {"refresh", "logout"}
                                            /\ work'[v].pc # "idle"
               /\ work'[v].new # NoToken => work'[v].pc \in {"link", "answer", "retry"}
               /\ work'[v].pc = "purge" => account'.leaving
               /\ work'[v].tok # NoToken /\ work'[v].pc # "retry" =>
                      \A d \in Clients : held'[d] = work'[v].tok => work'[v].client = d
    <3>1. CASE v = w
      BY <1>2, <1>3, <1>4, <1>9, <3>1 DEF Apart, HeldApart
    <3>2. CASE v # w
      BY <1>2, <1>3, <3>2 DEF Apart, AskedByHolder
    <3> QED BY <3>1, <3>2
  <2> QED BY <2>1 DEF AskedByHolder
<1>12. OneExchange'
  BY <1>2, <1>3, <1>5, <1>7, <1>8 DEF Apart, OneExchange
<1>13. OneWay'
  <2> SUFFICES ASSUME NEW v \in Workers, NEW x \in Tokens, Brings(work'[v], x)
               PROVE  /\ token'[x] # "none" /\ Good(x)'
                      /\ \A y \in Tokens : from'[y] # x
                      /\ \A d \in Clients : held'[d] # x
                      /\ \A u \in Workers : work'[u].tok # x /\ (Brings(work'[u], x) => u = v)
    BY DEF OneWay
  <2>1. v # w /\ Brings(work[v], x)
    BY <1>3, <1>5
  <2>2. x # t
    BY <1>9, <2>1, NoTokenAssumption DEF Apart, OneWay
  <2> QED BY <1>2, <1>3, <1>4, <1>5, <2>1, <2>2 DEF Good, Apart, OneWay
<1>14. HolderWaits'
  <2>1. \A v \in Workers, d \in Clients, kinds \in {{"refresh"}, {"refresh", "logout"}} :
            held[d] # NoToken /\ Waits(work[v], d, kinds) => Waits(work[v], d, kinds)'
    BY <1>2, <1>3, <1>6 DEF Waits
  <2> QED BY <1>2, <2>1 DEF Apart, HolderWaits, Good
<1>15. OneTimeUse'
  BY <1>2 DEF Apart, OneTimeUse
<1> QED BY <1>10, <1>11, <1>12, <1>13, <1>14, <1>15 DEF Apart

\* A request is over, and its client may have forgotten its token; it has if it
\* asked to refresh it or to sign out.  The request may go on in the server, or
\* be repeated by the phone.
LEMMA DropApart ==
  ASSUME Inv, Apart, KeptApart, NEW w \in Workers, NEW q \in Worker, Go(w, q),
         \/ q = Idle
         \/ q = [work[w] EXCEPT !.client = NoClient]
         \/ q = [work[w] EXCEPT !.pc = "retry"] /\ work[w].client \in Clients,
         UNCHANGED server,
         \/ q.pc # "retry" /\ UNCHANGED clients /\ (work[w].kind \in {"refresh", "logout"} =>
                                     work[w].pc = "retry" \/ work[w].client = NoClient)
         \/ work[w].client \in Clients /\ Forget(work[w].client)
  PROVE  Apart'
<1>1. /\ UNCHANGED <<token, from, account, swept>>
      /\ work \in [Workers -> Worker] /\ held \in [Clients -> Tokens \cup {NoToken}]
  BY DEF server, Inv, TypeOK
<1>2. work'[w] = q /\ \A v \in Workers : v # w => work'[v] = work[v]
  BY <1>1 DEF Go
<1>3. \A d \in Clients : held'[d] = held[d] \/ (held'[d] = NoToken /\ d = work[w].client)
  BY <1>1 DEF clients, Forget, Store
<1>4. \/ q.tok = NoToken /\ q.new = NoToken /\ q.pc = "idle"
      \/ /\ q.tok = work[w].tok /\ q.new = work[w].new /\ q.pc = work[w].pc
         /\ q.kind = work[w].kind /\ q.client = NoClient
      \/ /\ q.tok = work[w].tok /\ q.new = work[w].new /\ q.pc = "retry"
         /\ q.kind = work[w].kind
  BY <1>1, IdleIsNothing DEF Worker
<1>5. \A t \in Tokens : /\ Exchanges(q, t) => Exchanges(work[w], t)
                        /\ Brings(q, t) => Brings(work[w], t)
  <2>1. CASE q = Idle
    BY <2>1, IdleIsNothing
  <2>2. CASE q = [work[w] EXCEPT !.client = NoClient]
    <3>1. q.tok = work[w].tok /\ q.new = work[w].new /\ q.pc = work[w].pc
          /\ q.kind = work[w].kind /\ q.ok = work[w].ok
      BY <1>1, <2>2 DEF Worker
    <3> QED BY <3>1 DEF Exchanges, Brings
  <2>3. CASE q = [work[w] EXCEPT !.pc = "retry"]
    <3>1. q.pc = "retry"
      BY <1>1, <2>3 DEF Worker
    <3> QED BY <3>1 DEF Exchanges, Brings
  <2> QED BY <2>1, <2>2, <2>3
<1>6. HeldApart'
  <2>1. ASSUME NEW d \in Tabs
        PROVE  held'[d] = disk'
    <3>1. d \in Clients /\ held[d] = disk
      BY DEF Clients, Apart, HeldApart
    <3>2. CASE UNCHANGED clients
      BY <3>1, <3>2 DEF clients
    <3>3. CASE work[w].client \in Clients /\ Forget(work[w].client)
      BY <1>1, <3>1, <3>3 DEF Forget, Store, KeptApart
    <3> QED BY <3>2, <3>3
  <2> QED BY <1>1, <1>3, <2>1 DEF Apart, HeldApart
<1>7. AskedByHolder'
  <2>1. ASSUME NEW v \in Workers
        PROVE  /\ work'[v].tok # NoToken => /\ token'[work'[v].tok] # "none"
                                            /\ work'[v].kind \in {"refresh", "logout"}
                                            /\ work'[v].pc # "idle"
               /\ work'[v].new # NoToken => work'[v].pc \in {"link", "answer", "retry"}
               /\ work'[v].pc = "purge" => account'.leaving
    BY <1>1, <1>2, <1>4 DEF Apart, AskedByHolder
  <2>2. ASSUME NEW v \in Workers, work'[v].tok # NoToken, work'[v].pc # "retry",
               NEW d \in Clients, held'[d] = work'[v].tok
        PROVE  work'[v].client = d
    <3>1. held[d] = held'[d] /\ work[v].tok = work'[v].tok /\ work[v].pc = work'[v].pc
      BY <1>2, <1>3, <1>4, <2>2
    <3>2. work[v].client = d /\ work[v].kind \in {"refresh", "logout"}
      BY <2>2, <3>1 DEF Apart, AskedByHolder
    <3>3. v # w
      <4> SUFFICES ASSUME v = w PROVE FALSE
        OBVIOUS
      <4>1. work[w].client = d /\ work[w].pc # "retry" /\ held'[d] # NoToken
        BY <2>2, <3>1, <3>2
      <4>2. held'[d] = NoToken
        BY <1>1, <3>2, <4>1, NoClientAssumption DEF Forget, Store
      <4> QED BY <4>1, <4>2
    <3> QED BY <1>2, <3>2, <3>3
  <2> QED BY <2>1, <2>2 DEF AskedByHolder
<1>8. OneExchange'
  BY <1>1, <1>2, <1>5 DEF Apart, OneExchange
<1>9. OneWay'
  <2>1. \A v \in Workers, t \in Tokens : Brings(work'[v], t) => Brings(work[v], t)
    BY <1>2, <1>5
  <2>2. \A v \in Workers : work'[v].tok \in {work[v].tok, NoToken}
    BY <1>2, <1>4
  <2>3. \A d \in Clients : held'[d] \in {held[d], NoToken}
    BY <1>3
  <2> QED BY <1>1, <2>1, <2>2, <2>3, NoTokenAssumption DEF Good, Apart, OneWay
<1>10. HolderWaits'
  <2> SUFFICES ASSUME NEW d \in Clients, held'[d] # NoToken
               PROVE  /\ \/ \A x \in Tokens : from[x] # held'[d]
                         \/ \E v \in Workers : Waits(work[v], d, {"refresh"})'
                      /\ Good(held[d])' \/ \E v \in Workers : Waits(work[v], d, {"refresh", "logout"})'
    BY <1>1, <1>3 DEF HolderWaits, Good, Waits
  <2>1. held'[d] = held[d]
    BY <1>3
  <2>2. \A v \in Workers, kinds \in {{"refresh"}, {"refresh", "logout"}} :
            Waits(work[v], d, kinds) => v # w
    <3> SUFFICES ASSUME work[w].client = d, work[w].kind \in {"refresh", "logout"},
                        work[w].pc # "retry"
                 PROVE  FALSE
      BY DEF Waits
    <3>1. held'[d] = NoToken
      BY <1>1, NoClientAssumption DEF Forget, Store
    <3> QED BY <3>1
  <2>3. \A v \in Workers, kinds \in {{"refresh"}, {"refresh", "logout"}} :
            Waits(work[v], d, kinds) => Waits(work[v], d, kinds)'
    BY <1>2, <2>1, <2>2 DEF Waits
  <2>4. Good(held[d]) => Good(held[d])'
    BY <1>1, <2>1 DEF Good
  <2> QED BY <1>1, <2>1, <2>3, <2>4 DEF Apart, HolderWaits
<1>11. OneTimeUse'
  BY <1>1 DEF Apart, OneTimeUse
<1> QED BY <1>6, <1>7, <1>8, <1>9, <1>10, <1>11 DEF Apart

\* The client stores the token that was on its way to it.
LEMMA DeliverApart ==
  ASSUME Inv, Apart, KeptApart, NEW w \in Workers, NEW r \in Worker, Go(w, r),
         At(w, "answer"), work[w].ok, work[w].client \in Clients, work[w].new \in Tokens,
         Store(work[w].client, work[w].new),
         r = Idle \/ r = [work[w] EXCEPT !.pc = "retry"],
         UNCHANGED server
  PROVE  Apart'
<1> DEFINE c == work[w].client
           t == work[w].new
<1>1. /\ UNCHANGED <<token, from, account, swept>>
      /\ work \in [Workers -> Worker] /\ held \in [Clients -> Tokens \cup {NoToken}]
  BY DEF server, Inv, TypeOK
<1>2. work'[w] = r /\ \A v \in Workers : v # w => work'[v] = work[v]
  BY <1>1 DEF Go
<1>3. /\ held'[c] = t /\ \A d \in Clients : d # c => held'[d] = held[d]
      /\ disk' = IF c \in Tabs THEN t ELSE disk
  BY <1>1 DEF Store
<1>4. /\ token[t] # "none" /\ Good(t)
      /\ \A x \in Tokens : from[x] # t
      /\ \A d \in Clients : held[d] # t
      /\ \A v \in Workers : work[v].tok # t /\ (Brings(work[v], t) => v = w)
  <2>1. Brings(work[w], t)
    BY DEF At, Brings
  <2> QED BY <2>1 DEF Apart, OneWay
<1>5. \A x : ~ Exchanges(r, x) /\ ~ Brings(r, x)
  BY <1>1, IdleIsNothing DEF Exchanges, Brings, Worker
<1>6. \/ r.tok = NoToken /\ r.new = NoToken /\ r.pc = "idle"
      \/ /\ r.tok = work[w].tok /\ r.new = work[w].new /\ r.pc = "retry"
         /\ r.kind = work[w].kind
  BY <1>1, IdleIsNothing DEF Worker
<1>7. HeldApart'
  <2>1. ASSUME NEW d \in Tabs
        PROVE  held'[d] = disk'
    <3>1. d \in Clients /\ held[d] = disk
      BY DEF Clients, Apart, HeldApart
    <3> QED BY <1>3, <3>1 DEF KeptApart
  <2> QED BY <1>1, <1>3, <1>4, <2>1 DEF Apart, HeldApart
<1>8. AskedByHolder'
  <2>1. ASSUME NEW v \in Workers
        PROVE  /\ work'[v].tok # NoToken => /\ token'[work'[v].tok] # "none"
                                            /\ work'[v].kind \in {"refresh", "logout"}
                                            /\ work'[v].pc # "idle"
               /\ work'[v].new # NoToken => work'[v].pc \in {"link", "answer", "retry"}
               /\ work'[v].pc = "purge" => account'.leaving
    BY <1>1, <1>2, <1>6 DEF Apart, AskedByHolder
  <2>2. ASSUME NEW v \in Workers, work'[v].tok # NoToken, work'[v].pc # "retry",
               NEW d \in Clients, held'[d] = work'[v].tok
        PROVE  work'[v].client = d
    <3>1. v # w /\ work'[v] = work[v]
      BY <1>2, <1>6, <2>2
    <3>2. d # c
      BY <1>3, <1>4, <2>2, <3>1
    <3> QED BY <1>3, <2>2, <3>1, <3>2 DEF Apart, AskedByHolder
  <2> QED BY <2>1, <2>2 DEF AskedByHolder
<1>9. OneExchange'
  BY <1>1, <1>2, <1>5 DEF Apart, OneExchange
<1>10. OneWay'
  <2> SUFFICES ASSUME NEW v \in Workers, NEW x \in Tokens, Brings(work'[v], x)
               PROVE  /\ token'[x] # "none" /\ Good(x)'
                      /\ \A y \in Tokens : from'[y] # x
                      /\ \A d \in Clients : held'[d] # x
                      /\ \A u \in Workers : work'[u].tok # x /\ (Brings(work'[u], x) => u = v)
    BY DEF OneWay
  <2>1. v # w /\ Brings(work[v], x)
    BY <1>2, <1>5
  <2>2. x # t
    BY <1>4, <2>1
  <2> QED BY <1>1, <1>2, <1>3, <1>5, <1>6, <2>1, <2>2, NoTokenAssumption
          DEF Good, Apart, OneWay
<1>11. HolderWaits'
  <2> SUFFICES ASSUME NEW d \in Clients, held'[d] # NoToken
               PROVE  /\ \/ \A x \in Tokens : from[x] # held'[d]
                         \/ \E v \in Workers : Waits(work[v], d, {"refresh"})'
                      /\ Good(held[d])' \/ \E v \in Workers : Waits(work[v], d, {"refresh", "logout"})'
    BY <1>1 DEF HolderWaits, Good, Waits
  <2>1. CASE d = c
    BY <1>1, <1>3, <1>4, <2>1 DEF Good
  <2>2. CASE d # c
    <3>1. \A v \in Workers, kinds \in {{"refresh"}, {"refresh", "logout"}} :
              Waits(work[v], d, kinds) => Waits(work[v], d, kinds)'
      BY <1>2, <1>3, <2>2 DEF Waits
    <3>2. held'[d] = held[d] /\ (Good(held[d]) => Good(held[d])')
      BY <1>1, <1>3, <2>2 DEF Good
    <3> QED BY <1>1, <3>1, <3>2 DEF Apart, HolderWaits
  <2> QED BY <2>1, <2>2
<1>12. OneTimeUse'
  BY <1>1 DEF Apart, OneTimeUse
<1> QED BY <1>7, <1>8, <1>9, <1>10, <1>11, <1>12 DEF Apart

\* A client that waits for no exchange reloads: it finds the token it had.
LEMMA ReloadApart ==
  ASSUME Inv, Apart, KeptApart, NEW c \in Clients, Reload(c)
  PROVE  Apart'
<1>1. /\ UNCHANGED <<token, from, account, swept, disk>>
      /\ work \in [Workers -> Worker] /\ held \in [Clients -> Tokens \cup {NoToken}]
  BY DEF Reload, server, Inv, TypeOK
<1>2. \A d \in Clients : held'[d] = held[d]
  BY <1>1 DEF Reload, Apart, HeldApart
<1>3. \A v \in Workers : work[v].client = c => work[v].kind \notin {"refresh", "logout"}
  BY DEF Reload, KeptApart, Pending
<1>4. ASSUME NEW v \in Workers
      PROVE  /\ work[v].client # c => work'[v] = work[v]
             /\ \/ work'[v] = work[v] \/ work'[v] = Idle
                \/ work'[v] = [work[v] EXCEPT !.client = NoClient]
  BY DEF Reload
<1>5. ASSUME NEW v \in Workers
      PROVE  /\ work'[v].tok # NoToken => work'[v] = work[v]
             /\ \/ work'[v].pc = "idle" /\ work'[v].new = NoToken
                \/ work'[v].pc = work[v].pc /\ work'[v].new = work[v].new
             /\ work'[v].tok \in {work[v].tok, NoToken}
             /\ \A t \in Tokens : /\ Exchanges(work'[v], t) => Exchanges(work[v], t)
                                  /\ Brings(work'[v], t) => Brings(work[v], t)
  <2>1. CASE work'[v] = work[v]
    BY <2>1
  <2>2. CASE work'[v] = Idle
    BY <2>2, IdleIsNothing
  <2>3. CASE work'[v] = [work[v] EXCEPT !.client = NoClient] /\ work'[v] # work[v]
    <3>1. work'[v].tok = work[v].tok /\ work'[v].pc = work[v].pc /\ work'[v].ok = work[v].ok
          /\ work'[v].new = work[v].new /\ work'[v].kind = work[v].kind
      BY <1>1, <2>3 DEF Worker
    <3>2. work[v].tok = NoToken
      BY <1>3, <1>4, <2>3 DEF Apart, AskedByHolder
    <3> QED BY <3>1, <3>2 DEF Exchanges, Brings
  <2> QED BY <1>4, <2>1, <2>2, <2>3
<1>6. HeldApart'
  BY <1>1, <1>2 DEF Apart, HeldApart, Clients
<1>7. AskedByHolder'
  BY <1>1, <1>2, <1>5 DEF Apart, AskedByHolder
<1>8. OneExchange'
  BY <1>1, <1>5 DEF Apart, OneExchange
<1>9. OneWay'
  BY <1>1, <1>2, <1>5, NoTokenAssumption DEF Good, Apart, OneWay
<1>10. HolderWaits'
  <2>1. \A v \in Workers, d \in Clients, kinds \in {{"refresh"}, {"refresh", "logout"}} :
            Waits(work[v], d, kinds) => Waits(work[v], d, kinds)'
    BY <1>2, <1>3, <1>4 DEF Waits
  <2> QED BY <1>1, <1>2, <2>1 DEF Apart, HolderWaits, Good
<1>11. OneTimeUse'
  BY <1>1 DEF Apart, OneTimeUse
<1> QED BY <1>6, <1>7, <1>8, <1>9, <1>10, <1>11 DEF Apart

LEMMA SignOutApart ==
  ASSUME Inv, Apart, KeptApart, NEW c \in Clients, SignOut(c)
  PROVE  Apart'
<1>1. /\ UNCHANGED <<token, from, account, swept, work>>
      /\ c \in Tabs /\ held \in [Clients -> Tokens \cup {NoToken}]
  BY DEF SignOut, server, Inv, TypeOK
<1>2. \A d \in Clients : held'[d] = IF d = c THEN NoToken ELSE held[d]
  BY <1>1 DEF SignOut, Forget, Store
<1>3. HeldApart'
  <2>1. \A d \in Tabs : d = c
    BY <1>1 DEF KeptApart
  <2>2. disk' = NoToken
    BY <1>1 DEF SignOut, Forget, Store
  <2> QED BY <1>1, <1>2, <2>1, <2>2 DEF Apart, HeldApart
<1>4. AskedByHolder'
  BY <1>1, <1>2 DEF Apart, AskedByHolder
<1>5. OneExchange' /\ OneTimeUse'
  BY <1>1 DEF Apart, OneExchange, OneTimeUse, Exchanges
<1>6. OneWay'
  BY <1>1, <1>2, NoTokenAssumption DEF Apart, OneWay, Brings, Good
<1>7. HolderWaits'
  BY <1>1, <1>2 DEF Apart, HolderWaits, Waits, Good
<1> QED BY <1>3, <1>4, <1>5, <1>6, <1>7 DEF Apart

LEMMA AskApart ==
  ASSUME Inv, Apart, KeptApart, NEW c \in Clients, Ask(c)
  PROVE  Apart'
<1>1. held \in [Clients -> Tokens \cup {NoToken}]
  BY DEF Inv, TypeOK
<1>2. CASE Refresh(c)
  BY <1>1, <1>2, SendApart DEF Refresh, Kinds
<1>3. CASE LogIn(c)
  BY <1>3, SendApart DEF LogIn, Kinds
<1>4. CASE LogOut(c)
  BY <1>1, <1>4, SendApart DEF LogOut, Kinds
<1>5. CASE DeleteAccount(c)
  BY <1>5, SendApart DEF DeleteAccount, Kinds
<1> QED BY <1>2, <1>3, <1>4, <1>5, SignOutApart, ReloadApart DEF Ask

LEMMA ReceiveApart ==
  ASSUME Inv, Apart, KeptApart, NEW w \in Workers, Receive(w)
  PROVE  Apart'
<1>1. work[w] \in Worker /\ held \in [Clients -> Tokens \cup {NoToken}]
  BY DEF Inv, TypeOK
<1>2. UNCHANGED server /\ (work[w].client # NoClient => work[w].client \in Clients)
  BY <1>1 DEF Receive, Refreshed, Retried, LoggedIn, LoggedOut, Deleted, Refused, GiveUp,
              Unheard, Worker
<1>3. Idle \in Worker /\ [work[w] EXCEPT !.client = NoClient] \in Worker
      /\ [work[w] EXCEPT !.pc = "retry"] \in Worker
  BY <1>1, IdleIsNothing DEF Worker, Pc
<1>4. [work[w] EXCEPT !.client = NoClient].pc = work[w].pc /\ Idle.pc # "retry"
      /\ [work[w] EXCEPT !.pc = "retry"].pc = "retry"
  BY <1>1, IdleIsNothing DEF Worker
<1>5. ASSUME Done(w), work[w].client \in Clients, Forget(work[w].client)
      PROVE  Apart'
  BY <1>2, <1>3, <1>5, DropApart DEF Done
<1>6. ASSUME Done(w), UNCHANGED clients,
             work[w].kind \in {"refresh", "logout"} =>
                 work[w].pc = "retry" \/ work[w].client = NoClient
      PROVE  Apart'
  BY <1>2, <1>3, <1>4, <1>6, DropApart DEF Done
<1>7. ASSUME At(w, "answer"), work[w].client # NoClient, work[w].ok,
             Store(work[w].client, work[w].new), Done(w) \/ GoTo(w, "retry")
      PROVE  Apart'
  <2>1. PICK r \in {Idle, [work[w] EXCEPT !.pc = "retry"]} : Go(w, r)
    BY <1>7 DEF Done, GoTo
  <2>2. CASE work[w].new \in Tokens
    BY <1>2, <1>3, <1>7, <2>1, <2>2, DeliverApart
  <2>3. CASE work[w].new = NoToken
    <3>1. Forget(work[w].client)
      BY <1>7, <2>3 DEF Forget
    <3> QED BY <1>2, <1>3, <1>7, <2>1, <3>1, DropApart
  <2> QED BY <1>1, <2>2, <2>3 DEF Worker
<1>8. CASE Refreshed(w)
  BY <1>7, <1>8 DEF Refreshed
<1>9. CASE Retried(w)
  <2>1. CASE work[w].client \in Clients /\ Forget(work[w].client)
    BY <1>5, <1>9, <2>1 DEF Retried
  <2>2. CASE UNCHANGED clients
    BY <1>6, <1>9, <2>2 DEF Retried, At
  <2>3. CASE work[w].client = NoClient /\ Forget(NoClient)
    <3>1. UNCHANGED clients
      BY <1>1, <2>3, NoClientAssumption DEF Forget, Store, clients, Clients
    <3> QED BY <2>2, <3>1
  <2> QED BY <1>2, <1>9, <2>1, <2>2, <2>3 DEF Retried
<1>10. CASE LoggedIn(w)
  BY <1>7, <1>10 DEF LoggedIn
<1>11. CASE LoggedOut(w) \/ Deleted(w)
  BY <1>2, <1>5, <1>11 DEF LoggedOut, Deleted
<1>12. CASE Refused(w)
  BY <1>2, <1>5, <1>6, <1>12 DEF Refused, Refusal
<1>13. CASE GiveUp(w)
  <2>1. \/ work[w].client \in Clients /\ Forget(work[w].client)
        \/ UNCHANGED clients /\ work[w].kind \notin {"refresh", "logout"}
    BY <1>2, <1>13 DEF GiveUp, Refusal
  <2>2. CASE Done(w)
    BY <1>5, <1>6, <2>1, <2>2
  <2>3. CASE Go(w, [work[w] EXCEPT !.client = NoClient])
    <3>1. work[w].pc # "retry"
      BY <1>13 DEF GiveUp
    <3> QED BY <1>2, <1>3, <1>4, <2>1, <2>3, <3>1, DropApart
  <2> QED BY <1>13, <2>2, <2>3 DEF GiveUp
<1>14. CASE Unheard(w)
  BY <1>6, <1>14 DEF Unheard
<1> QED BY <1>8, <1>9, <1>10, <1>11, <1>12, <1>13, <1>14 DEF Receive

-----------------------------------------------------------------------------
LEMMA InitApart == Init => Apart
<1> SUFFICES ASSUME Init
             PROVE  Apart
  OBVIOUS
<1>1. \A w \in Workers : work[w] = Idle
  BY DEF Init
<1>2. HeldApart
  BY DEF Init, HeldApart, Clients
<1>3. AskedByHolder
  BY <1>1, IdleIsNothing DEF AskedByHolder
<1>4. OneExchange /\ OneWay
  BY <1>1, IdleIsNothing DEF OneExchange, OneWay
<1>5. HolderWaits /\ OneTimeUse
  BY DEF Init, HolderWaits, OneTimeUse
<1> QED BY <1>2, <1>3, <1>4, <1>5 DEF Apart

LEMMA RestApart ==
  ASSUME Apart, UNCHANGED <<token, from, held, disk, swept, work>>,
         account'.leaving = account.leaving
  PROVE  Apart'
<1>1. HeldApart' /\ AskedByHolder' /\ OneExchange' /\ OneTimeUse'
  BY DEF Apart, HeldApart, AskedByHolder, OneExchange, Exchanges, OneTimeUse
<1>2. OneWay' /\ HolderWaits'
  BY DEF Apart, OneWay, HolderWaits, Brings, Waits, Good
<1> QED BY <1>1, <1>2 DEF Apart

LEMMA NextApart == KeptApart /\ Inv /\ Apart /\ [Next]_vars => Apart'
<1> SUFFICES ASSUME KeptApart, Inv, Apart, [Next]_vars
             PROVE  Apart'
  OBVIOUS
<1>1. CASE UNCHANGED vars
  BY <1>1, RestApart DEF vars
<1>2. ASSUME NEW status \in {"active", "disabled"}, SetStatus(status)
      PROVE  Apart'
  <2>1. account'.leaving = account.leaving
    BY <1>2 DEF SetStatus, Inv, TypeOK
  <2> QED BY <1>2, <2>1, RestApart DEF SetStatus, clients
<1> QED BY <1>1, <1>2, AskApart, ServeApart, ReceiveApart DEF Next

LEMMA ApartInvariant == ASSUME KeptApart PROVE Spec => []Apart
<1>1. Inv /\ Apart /\ [Next]_vars => Apart'
  BY NextApart
<1> QED BY <1>1, InitApart, Invariance, PTL DEF Spec

\* "Refresh tokens rotated on every use (one-time-use)": where no two tabs share
\* a token and no client is restarted while it waits for an exchange or for a
\* sign-out, no token is ever exchanged twice, though consumeRefreshToken()
\* reads and marks it in two steps, and whatever fails, overlaps or is given up.
THEOREM TokensUsedOnce ==
  ASSUME KeptApart
  PROVE  Spec => []OneTimeUse
<1>1. Apart => OneTimeUse
  BY DEF Apart
<1> QED BY <1>1, ApartInvariant, PTL

\* Under the same condition no device is signed out by what the others do: the
\* token it holds is one the server will exchange, unless the account was
\* deleted, a reuse was detected, or its answer is on the way.
THEOREM HeldTokensLive ==
  ASSUME KeptApart
  PROVE  Spec => []HeldIsLive
<1>1. Apart => HeldIsLive
  <2> SUFFICES ASSUME HolderWaits
               PROVE  HeldIsLive
    BY DEF Apart
  <2>1. \A c \in Clients : (\E w \in Workers : Waits(work[w], c, {"refresh", "logout"}))
                             => Pending(c, {"refresh", "logout"})
    BY DEF Waits, Pending
  <2> QED BY <2>1 DEF HolderWaits, HeldIsLive, Good
<1> QED BY <1>1, ApartInvariant, PTL
=============================================================================
