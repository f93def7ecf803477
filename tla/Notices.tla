------------------------------- MODULE Notices -------------------------------
(***************************************************************************)
(* Messages to many members, and their inboxes: a manager's broadcast      *)
(* (broadcastEvent() of admin.controller.ts, BroadcastScreen.tsx), the     *)
(* notice of a recap (publishRecap() of event.controller.ts), that of a    *)
(* community suspended or restored (super.controller.ts), and              *)
(* notification.controller.ts.                                             *)
(*                                                                         *)
(* The recipients are read once; their notices are then written one after  *)
(* the other, and each write may fail.  A broadcast stops at the first     *)
(* that does; fanOut() goes on with the others.  Members answer and leave  *)
(* meanwhile.  Titles, texts, channels and dates are left out: nothing     *)
(* reads the channels and the date of a broadcast.                         *)
(***************************************************************************)
EXTENDS Naturals, FiniteSets, Sequences

CONSTANTS
    People,     \* members of the community with an answer to the event
    MaxSends,   \* bound: requests to send
    MaxMoves,   \* bound: answers changed, members gone
    MaxMarks    \* bound: requests to mark as read

NoticesAssumption == MaxSends \in Nat /\ MaxMoves \in Nat /\ MaxMarks \in Nat

Kinds == {"broadcast", "recap", "suspended", "restored"}
ToAll == {"suspended", "restored"}
Numbers == 1..MaxSends

VARIABLES
    standing,    \* what each member's RSVP says; "present": going, and checked in
    active,      \* those with an active membership
    suspended,   \* the community is
    send,        \* the requests to send, in the order of their arrival
    mail,        \* the notices in each member's inbox, the oldest first
    moves, marks,
    inTurn       \* no two changes of the community's status have overlapped
vars == <<standing, active, suspended, send, mail, moves, marks, inTurn>>

\* todo: those still to be told; meant: those to be told by what was so from
\* the request's arrival to its reading; missed: those whose notice was not
\* written.
Send == [kind : Kinds, pc : {"save", "read", "deliver", "answered", "failed"},
         was : BOOLEAN,     \* the community was suspended when it was loaded
         first : Numbers,   \* the first request with the same message
         todo : SUBSET People, meant : SUBSET People, missed : SUBSET People]
\* A notice: of which request, and by which mark it was read (0: it is not).
Notice == [of : Numbers, read : 0..MaxMarks, first : 0..MaxMarks]

TypeOK ==
    /\ standing \in [People -> {"out", "waitlist", "going", "present"}]
    /\ active \in SUBSET People /\ suspended \in BOOLEAN
    /\ Len(send) <= MaxSends /\ \A k \in DOMAIN send : send[k] \in Send
    /\ \A u \in People : \A i \in DOMAIN mail[u] : mail[u][i] \in Notice
    /\ moves \in 0..MaxMoves /\ marks \in 0..MaxMarks /\ inTurn \in BOOLEAN

Init ==
    /\ standing \in [People -> {"waitlist", "going", "present"}]
    /\ active = People /\ suspended = FALSE
    /\ send = <<>> /\ mail = [u \in People |-> <<>>]
    /\ moves = 0 /\ marks = 0 /\ inTurn = TRUE

-----------------------------------------------------------------------------
(* Whom a request tells                                                    *)

\* A member with that answer, and an active membership or not.
IsTold(kind, answer, is) ==
    CASE kind = "broadcast" -> answer # "out"
      [] kind = "recap" -> answer = "present"
      [] kind \in ToAll -> is
Recipients(kind) == {u \in People : IsTold(kind, standing[u], u \in active)}

Sent(k) == send[k].pc \in {"answered", "failed"}
\* Requests about the community's status that are not through with it.
Changing == {k \in DOMAIN send : send[k].kind \in ToAll /\ ~ Sent(k)}

Arrive(kind, pc, first) ==
    /\ Len(send) < MaxSends
    /\ send' = Append(send, [kind |-> kind, pc |-> pc, was |-> suspended, first |-> first,
                             todo |-> {}, meant |-> Recipients(kind), missed |-> {}])

\* broadcastEvent(), and publishRecap() once the recap is saved.
BeginSend(kind) ==
    /\ kind \in {"broadcast", "recap"}
    /\ Arrive(kind, "read", Len(send) + 1)
    /\ UNCHANGED <<standing, active, suspended, mail, moves, marks, inTurn>>

\* The composer's button is there again after an error, and for the second
\* that "Sent" is shown.
PressAgain(k) ==
    /\ send[k].kind = "broadcast" /\ Sent(k)
    /\ Arrive("broadcast", "read", send[k].first)
    /\ UNCHANGED <<standing, active, suspended, mail, moves, marks, inTurn>>

\* suspend() and restore() load the community.
BeginStatus(kind) ==
    /\ kind \in ToAll
    /\ Arrive(kind, "save", Len(send) + 1)
    /\ inTurn' = (inTurn /\ Changing = {})
    /\ UNCHANGED <<standing, active, suspended, mail, moves, marks>>

\* suspendCommunity() and restoreCommunity(): a status that is the one loaded
\* is not written.
SaveStatus(k) ==
    LET want == send[k].kind = "suspended" IN
    /\ send[k].pc = "save"
    /\ suspended' = IF want # send[k].was THEN want ELSE suspended
    /\ send' = [send EXCEPT ![k].pc = "read"]
    /\ UNCHANGED <<standing, active, mail, moves, marks, inTurn>>

\* Mutant of ReadRecipients: those who wait are forgotten.
ReadRecipientsGoing(k) ==
    LET us == {u \in Recipients(send[k].kind) : send[k].kind = "broadcast" => standing[u] # "waitlist"} IN
    /\ send[k].pc = "read"
    /\ send' = [send EXCEPT ![k].todo = us,
                            ![k].pc = IF us = {} THEN "answered" ELSE "deliver"]
    /\ UNCHANGED <<standing, active, suspended, mail, moves, marks, inTurn>>

ReadRecipients(k) ==
    LET us == Recipients(send[k].kind) IN
    /\ send[k].pc = "read"
    /\ send' = [send EXCEPT ![k].todo = us,
                            ![k].pc = IF us = {} THEN "answered" ELSE "deliver"]
    /\ UNCHANGED <<standing, active, suspended, mail, moves, marks, inTurn>>

Without(k, u) ==
    [send[k] EXCEPT !.todo = @ \ {u}, !.pc = IF send[k].todo = {u} THEN "answered" ELSE @]

Deliver(k, u) ==
    /\ send[k].pc = "deliver" /\ u \in send[k].todo
    /\ mail' = [mail EXCEPT ![u] = Append(@, [of |-> k, read |-> 0, first |-> 0])]
    /\ send' = [send EXCEPT ![k] = Without(k, u)]
    /\ UNCHANGED <<standing, active, suspended, moves, marks, inTurn>>

\* Mutant of Miss: one that fails ends the fan-out.
MissAndStop(k, u) ==
    /\ send[k].pc = "deliver" /\ u \in send[k].todo /\ send[k].kind # "broadcast"
    /\ send' = [send EXCEPT ![k].missed = @ \cup {u}, ![k].pc = "answered"]
    /\ UNCHANGED <<standing, active, suspended, mail, moves, marks, inTurn>>

\* fanOut() counts a notice that was not written and goes on.
Miss(k, u) ==
    /\ send[k].pc = "deliver" /\ u \in send[k].todo /\ send[k].kind # "broadcast"
    /\ send' = [send EXCEPT ![k] = [Without(k, u) EXCEPT !.missed = @ \cup {u}]]
    /\ UNCHANGED <<standing, active, suspended, mail, moves, marks, inTurn>>

\* A read, a save or insertMany() fails, or the server stops.
Fail(k) ==
    /\ ~ Sent(k)
    /\ send' = [send EXCEPT ![k].pc = "failed"]
    /\ UNCHANGED <<standing, active, suspended, mail, moves, marks, inTurn>>

-----------------------------------------------------------------------------
(* The members meanwhile                                                   *)

\* What is to be told of member u, once his answer and membership are those.
StillMeant(k, u, answer, is) ==
    IF send[k].pc \in {"save", "read"} /\ ~ IsTold(send[k].kind, answer, is)
    THEN [send[k] EXCEPT !.meant = @ \ {u}]
    ELSE send[k]

\* A member answers, cancels, is promoted or checked in; or leaves the
\* community, whose events keep his RSVP.
Move(u) ==
    /\ moves < MaxMoves /\ moves' = moves + 1
    /\ \E answer \in {"out", "waitlist", "going", "present"}, is \in {FALSE, (u \in active)} :
          /\ answer = standing[u] <=> is # (u \in active)
          /\ standing' = [standing EXCEPT ![u] = answer]
          /\ active' = IF is THEN active ELSE active \ {u}
          /\ send' = [k \in DOMAIN send |-> StillMeant(k, u, answer, is)]
    /\ UNCHANGED <<suspended, mail, marks, inTurn>>

Read(n, by) == IF n.read = 0 THEN [n EXCEPT !.read = by, !.first = by] ELSE n

\* markRead(): one that is read already answers 404.
MarkRead(u, i) ==
    /\ marks < MaxMarks /\ marks' = marks + 1
    /\ mail' = [mail EXCEPT ![u][i] = Read(@, marks')]
    /\ UNCHANGED <<standing, active, suspended, send, moves, inTurn>>

\* Mutant of MarkAllRead: those that were read are marked again.
MarkAllReadAgain(u) ==
    /\ marks < MaxMarks /\ marks' = marks + 1
    /\ mail' = [mail EXCEPT ![u] = [i \in DOMAIN @ |-> [Read(@[i], marks') EXCEPT !.read = marks']]]
    /\ UNCHANGED <<standing, active, suspended, send, moves, inTurn>>

MarkAllRead(u) ==
    /\ marks < MaxMarks /\ marks' = marks + 1
    /\ mail' = [mail EXCEPT ![u] = [i \in DOMAIN @ |-> Read(@[i], marks')]]
    /\ UNCHANGED <<standing, active, suspended, send, moves, inTurn>>

-----------------------------------------------------------------------------
Next ==
    \/ \E kind \in Kinds : BeginSend(kind) \/ BeginStatus(kind)
    \/ \E k \in DOMAIN send :
          \/ PressAgain(k) \/ SaveStatus(k) \/ ReadRecipients(k) \/ Fail(k)
          \/ \E u \in People : Deliver(k, u) \/ Miss(k, u)
    \/ \E u \in People :
          \/ Move(u) \/ MarkAllRead(u)
          \/ \E i \in DOMAIN mail[u] : MarkRead(u, i)

Spec == Init /\ [][Next]_vars

-----------------------------------------------------------------------------
(* What the inbox shows                                                    *)

\* bucketForType()
Bucket(kind) ==
    CASE kind = "broadcast" -> "events"     \* event_broadcast
      [] kind = "recap" -> "recap"          \* recap.published
      [] kind \in ToAll -> "community"      \* community.suspended, .restored

\* groupUnread
Unread(u) == {i \in DOMAIN mail[u] : mail[u][i].read = 0}
Badge(u, bucket) == Cardinality({i \in Unread(u) : Bucket(send[mail[u][i].of].kind) = bucket})

-----------------------------------------------------------------------------
(* Properties                                                              *)

Copies(u, k) == Cardinality({i \in DOMAIN mail[u] : mail[u][i].of = k})

\* A request that has been answered has reached once everyone it was to reach
\* from its arrival to its reading, but for those it could not write to; and
\* it writes to nobody twice (notification.service.ts:117,
\* admin.controller.ts:501).
EveryoneTold ==
    \A k \in DOMAIN send, u \in People :
       /\ Copies(u, k) <= 1
       /\ send[k].pc = "answered" /\ u \in send[k].meant \ send[k].missed => Copies(u, k) = 1

\* A member has a message as often as it was sent, of which all but the last
\* may have failed (BroadcastScreen.tsx:287).
OncePerPress ==
    \A m \in DOMAIN send, u \in People :
       Cardinality({i \in DOMAIN mail[u] : send[mail[u][i].of].first = m})
         <= Cardinality({k \in DOMAIN send : send[k].first = m})

\* The last a member has heard of the community's status is so, if the
\* changes came one after the other and he was told of the last
\* (super.controller.ts:132).
LastSaysStatus ==
    LET changes == {k \in DOMAIN send : send[k].kind \in ToAll}
        last == CHOOSE k \in changes : \A j \in changes : j <= k IN
    inTurn /\ changes # {} /\ send[last].pc = "answered" =>
       \A u \in send[last].meant \ send[last].missed :
          LET heard == {i \in DOMAIN mail[u] : send[mail[u][i].of].kind \in ToAll} IN
          /\ heard # {}
          /\ LET i == CHOOSE i \in heard : \A j \in heard : j <= i IN
             (send[mail[u][i].of].kind = "suspended") = suspended

\* A notice stays read by the mark that read it first
\* (notification.controller.ts:54 and 66).
ReadOnce == \A u \in People : \A i \in DOMAIN mail[u] : mail[u][i].read = mail[u][i].first

\* The numbers on the filters add up to that on All (InboxScreen.tsx:139).
BadgesAddUp ==
    \A u \in People :
       Badge(u, "events") + Badge(u, "recap") + Badge(u, "community") = Cardinality(Unread(u))

NoticesWork == EveryoneTold /\ OncePerPress /\ LastSaysStatus /\ ReadOnce /\ BadgesAddUp
=============================================================================
