------------------------------ MODULE Questions ------------------------------
(***************************************************************************)
(* The questions and answers of an event: backend/src/controllers/         *)
(* event-qa.controller.ts, and the page of them in the web client          *)
(* (EventQAScreen.tsx), which offers its members to ask and vote if they   *)
(* are going, and its managers to answer, pin and resolve.                 *)
(*                                                                         *)
(* A request loads a question and saves it later.  A vote is pushed to the *)
(* array of voters, which raises the document's version; a vote withdrawn  *)
(* is spliced out, which sends the whole array, and only if the version is *)
(* the one loaded.  What a button does is decided by the document loaded,  *)
(* not by what the page showed.                                            *)
(***************************************************************************)
EXTENDS Naturals, FiniteSets

CONSTANTS
    Attendees, Hosts,   \* the members going, and the managers, each with a page
    Nobody,
    MaxQuestions,       \* bound: questions asked
    MaxTaps             \* bound: requests about questions

QuestionsAssumption == Nobody \notin Hosts /\ MaxQuestions \in Nat /\ MaxTaps \in Nat

Asked == 1..MaxQuestions

VARIABLES
    board,    \* the EventQA documents, by their order of creation
    hand,     \* each attendee's page: a request under way
    desk,     \* each host's page
    taps,     \* requests begun
    vote      \* what each attendee's last tap on a question's arrow was to do
vars == <<board, hand, desk, taps, vote>>

\* The array of voters by its entries: <<u, n>> is the entry of u that came
\* after n others of u.
Question == [voters : SUBSET (Attendees \X (0..MaxTaps)), pinned : BOOLEAN,
             resolved : BOOLEAN, answer : Hosts \cup {Nobody}, version : 0..MaxTaps]
NewQuestion == [voters |-> {}, pinned |-> FALSE, resolved |-> FALSE, answer |-> Nobody,
                version |-> 0]

Boards == UNION {[1..n -> Question] : n \in 0..MaxQuestions}
Open == DOMAIN board

NoCall == [pc |-> "idle", q |-> 0, doc |-> NewQuestion]
Pc == {"idle", "upvote", "withdraw", "answer", "pin", "resolve"}
Call == [pc : Pc, q : 0..MaxQuestions, doc : Question]

\* The two requests an attendee may have under way: the arrow is not disabled
\* while one is.
Hand == [{1, 2} -> Call]
\* The question a host has the box for an answer open at (0: none), whether
\* there is text in it, and his request under way.
Desk == [at : 0..MaxQuestions, text : BOOLEAN, call : Call]

TypeOK ==
    /\ DOMAIN board \in {1..n : n \in 0..MaxQuestions}
    /\ \A q \in Open : board[q] \in Question
    /\ \A u \in Attendees, i \in {1, 2} : hand[u][i] \in Call
    /\ \A h \in Hosts : desk[h] \in Desk
    /\ taps \in 0..MaxTaps
    /\ vote \in [Attendees -> [Asked -> {"in", "out", "unsure"}]]

Init ==
    /\ board = <<>>
    /\ hand = [u \in Attendees |-> [i \in {1, 2} |-> NoCall]]
    /\ desk = [h \in Hosts |-> [at |-> 0, text |-> FALSE, call |-> NoCall]]
    /\ taps = 0
    /\ vote = [u \in Attendees |-> [q \in Asked |-> "out"]]

-----------------------------------------------------------------------------
Voters(q) == {e[1] : e \in q.voters}
Loaded(pc, q) == [pc |-> pc, q |-> q, doc |-> board[q]]
Tapping == taps < MaxTaps /\ taps' = taps + 1
Under(u, q) == {i \in {1, 2} : hand[u][i].pc # "idle" /\ hand[u][i].q = q}

\* submit() and create()
Ask(u) ==
    /\ Cardinality(Open) < MaxQuestions /\ Tapping
    /\ board' = [q \in 1..Cardinality(Open) + 1 |-> IF q \in Open THEN board[q] ELSE NewQuestion]
    /\ UNCHANGED <<hand, desk, vote>>

\* upvote() loads the question; the page showed the voter's arrow lit or not
\* (`lit`).
TapArrow(u, q, lit) ==
    /\ Tapping
    /\ \E i \in {1, 2} :
          /\ hand[u][i] = NoCall
          /\ hand' = [hand EXCEPT ![u][i] =
                        Loaded(IF u \in Voters(board[q]) THEN "withdraw" ELSE "upvote", q)]
    /\ vote' = [vote EXCEPT ![u][q] =
                  IF Under(u, q) # {} \/ @ = "unsure" \/ lit # (u \in Voters(board[q]))
                  THEN "unsure" ELSE IF lit THEN "out" ELSE "in"]
    /\ UNCHANGED <<board, desk>>

SaveUpvote(u, i) ==
    LET c == hand[u][i] IN
    /\ c.pc = "upvote"
    /\ board' = [board EXCEPT
         ![c.q].voters = @ \cup {<<u, Cardinality({e \in @ : e[1] = u})>>},
         ![c.q].version = @ + 1]
    /\ hand' = [hand EXCEPT ![u][i] = NoCall]
    /\ UNCHANGED <<desk, taps, vote>>

\* The first of his entries is spliced out; the others move up.
Spliced(voters, u) ==
    LET n == Cardinality({e \in voters : e[1] = u}) IN voters \ {<<u, n - 1>>}

\* Mutant of SaveWithdraw: the array is sent whatever the version.
SaveWithdrawUnversioned(u, i) ==
    LET c == hand[u][i] IN
    /\ c.pc = "withdraw"
    /\ board' = [board EXCEPT ![c.q].voters = Spliced(c.doc.voters, u),
                              ![c.q].version = @ + 1]
    /\ hand' = [hand EXCEPT ![u][i] = NoCall]
    /\ UNCHANGED <<desk, taps, vote>>

\* A save that fails answers 500, and the vote stays.
SaveWithdraw(u, i) ==
    LET c == hand[u][i] IN
    /\ c.pc = "withdraw"
    /\ hand' = [hand EXCEPT ![u][i] = NoCall]
    /\ IF board[c.q].version = c.doc.version
       THEN /\ board' = [board EXCEPT ![c.q].voters = Spliced(c.doc.voters, u),
                                      ![c.q].version = @ + 1]
            /\ UNCHANGED vote
       ELSE /\ vote' = [vote EXCEPT ![u][c.q] = IF @ = "out" THEN "in" ELSE @]
            /\ UNCHANGED board
    /\ UNCHANGED <<desk, taps>>

-----------------------------------------------------------------------------
(* The hosts                                                               *)

\* The box is opened at a question his page shows without an answer; text in
\* the box of another is dropped.  Opened boxes stay so when the page is
\* loaded again.
StartAnswer(h, q) ==
    /\ desk[h].at # q /\ board[q].answer = Nobody
    /\ desk' = [desk EXCEPT ![h].at = q, ![h].text = FALSE]
    /\ UNCHANGED <<board, hand, taps, vote>>

CancelAnswer(h) ==
    /\ desk[h].at # 0
    /\ desk' = [desk EXCEPT ![h].at = 0, ![h].text = FALSE]
    /\ UNCHANGED <<board, hand, taps, vote>>

Type(h) ==
    /\ desk[h].at # 0 /\ ~ desk[h].text
    /\ desk' = [desk EXCEPT ![h].text = TRUE]
    /\ UNCHANGED <<board, hand, taps, vote>>

HostCalls(h, pc, q) ==
    /\ desk[h].call = NoCall /\ Tapping
    /\ desk' = [desk EXCEPT ![h].call = Loaded(pc, q)]
    /\ UNCHANGED <<board, hand, vote>>

PostAnswer(h) == desk[h].text /\ HostCalls(h, "answer", desk[h].at)
TapPin(h, q) == HostCalls(h, "pin", q)

\* Mutant of TapResolve: the button is there without an answer.
TapResolveAny(h, q) == HostCalls(h, "resolve", q)

\* Offered once his page shows an answer.
TapResolve(h, q) == board[q].answer # Nobody /\ HostCalls(h, "resolve", q)

\* answer() resolves what was not when loaded; pin() and resolve() turn round
\* what they loaded.  An answer saved closes the box that is open by then,
\* and drops its text.
SaveHost(h) ==
    LET c == desk[h].call
        d == board[c.q] IN
    /\ c.pc # "idle"
    /\ board' = [board EXCEPT ![c.q] =
         CASE c.pc = "answer" -> [d EXCEPT !.answer = h, !.resolved = d.resolved \/ ~ c.doc.resolved]
           [] c.pc = "pin" -> [d EXCEPT !.pinned = ~ c.doc.pinned]
           [] c.pc = "resolve" -> [d EXCEPT !.resolved = ~ c.doc.resolved]]
    /\ desk' = [desk EXCEPT ![h] = IF c.pc = "answer"
                                   THEN [at |-> 0, text |-> FALSE, call |-> NoCall]
                                   ELSE [desk[h] EXCEPT !.call = NoCall]]
    /\ UNCHANGED <<hand, taps, vote>>

-----------------------------------------------------------------------------
(* What the page shows                                                     *)

\* A host's questions in ranks: unanswered, pinned, the rest, resolved.
Rank(q) ==
    LET d == board[q] IN
    IF d.answer = Nobody /\ ~ d.resolved THEN 0
    ELSE IF d.pinned /\ ~ d.resolved THEN 1
    ELSE IF d.resolved THEN 3 ELSE 2

\* list(): pinned first, the newest first among equals; the sort of a host's
\* page keeps that order within a rank.
Before(q, r) ==
    \/ board[q].pinned /\ ~ board[r].pinned
    \/ board[q].pinned = board[r].pinned /\ q > r
BeforeAtDesk(q, r) == Rank(q) < Rank(r) \/ (Rank(q) = Rank(r) /\ Before(q, r))

\* A host's filters, and the numbers on them.
Filtered(filter) ==
    CASE filter = "all" -> Open
      [] filter = "resolved" -> {q \in Open : board[q].resolved}
      [] filter = "open" -> {q \in Open : ~ board[q].resolved}

\* The command center's badge.
Unanswered == {q \in Open : ~ board[q].resolved /\ board[q].answer = Nobody}

-----------------------------------------------------------------------------
Next ==
    \/ \E u \in Attendees :
          \/ Ask(u)
          \/ \E q \in Open, lit \in BOOLEAN : TapArrow(u, q, lit)
          \/ \E i \in {1, 2} : SaveUpvote(u, i) \/ SaveWithdraw(u, i)
    \/ \E h \in Hosts :
          \/ CancelAnswer(h) \/ Type(h) \/ PostAnswer(h) \/ SaveHost(h)
          \/ \E q \in Open : StartAnswer(h, q) \/ TapPin(h, q) \/ TapResolve(h, q)

Spec == Init /\ [][Next]_vars

-----------------------------------------------------------------------------
(* Properties                                                              *)

\* While an attendee taps a question's arrow once at a time, on a page that
\* shows his vote as it is, he counts once or not at all, as he meant it:
\* nobody else's vote or withdrawal takes or gives it (event-qa.controller.ts:74).
VotesCounted ==
    \A u \in Attendees, q \in Open :
       vote[u][q] # "unsure" =>
          /\ Cardinality({e \in board[q].voters : e[1] = u}) <= 1
          /\ Under(u, q) = {} => (vote[u][q] = "in" <=> u \in Voters(board[q]))

\* No question leaves the open list without an answer: the server would let
\* it, the page does not offer it (EventQAScreen.tsx:539).
ResolvedAreAnswered == \A q \in Open : board[q].resolved => board[q].answer # Nobody

\* A host's page puts what awaits an answer above all else, and its badge, its
\* filters and their numbers agree (EventQAScreen.tsx:83).
TriageAgrees ==
    /\ \A q \in Unanswered, r \in Open \ Unanswered : BeforeAtDesk(q, r)
    /\ Unanswered \subseteq Filtered("open")
    /\ Cardinality(Filtered("open")) + Cardinality(Filtered("resolved")) = Cardinality(Open)

QuestionsWork == VotesCounted /\ ResolvedAreAnswered /\ TriageAgrees
=============================================================================
