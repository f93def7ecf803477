----------------------------- MODULE MCEventDay -----------------------------
(***************************************************************************)
(* An event, its RSVPs served one at a time: a behaviour is one of         *)
(* EventRsvp, of EventDay, of Questions, of Notices or of Recap, each from *)
(* an event of its own, and the others stay as they are.                   *)
(***************************************************************************)
EXTENDS EventRsvp, TLC

CONSTANTS
    Browsing, Doors, Seats, MaxAnswers,   \* EventDay
    Hosts, MaxQuestions, MaxTaps,         \* Questions
    People, MaxSends, MaxMoves, MaxMarks, \* Notices
    Photos, MaxPhotos, MaxRecaps          \* Recap

VARIABLES
    part,
    answers, figures, priced, eventPage, toggle, served, meant, again,
    board, hand, desk, taps, vote,
    standing, active, suspended, send, mail, moves, marks, inTurn,
    summary, screen, request, stored, chosen, recaps

D == INSTANCE EventDay WITH Members <- Users, NoMember <- NoUser,
                            row <- answers, tab <- eventPage
Q == INSTANCE Questions WITH Attendees <- Users \ Browsing, Nobody <- NoUser
N == INSTANCE Notices
R == INSTANCE Recap WITH Managers <- Doors

ASSUME PartsAssumption ==
    /\ D!EventDayAssumption /\ Q!QuestionsAssumption /\ N!NoticesAssumption
    /\ R!RecapAssumption

dayVars == <<answers, figures, priced, eventPage, toggle, served, meant, again>>
boardVars == <<board, hand, desk, taps, vote>>
mailVars == <<standing, active, suspended, send, mail, moves, marks, inTurn>>
recapVars == <<summary, screen, request, stored, chosen, recaps>>
allVars == <<part, vars, dayVars, boardVars, mailVars, recapVars>>

NoRsvps ==
    /\ Init
    /\ event.capacity = Unlimited /\ event.status = "published"
NoDay == D!Init /\ priced.covered = {}

\* One waits and the others are there: who goes is told what those who wait are
\* (IsTold), and Move() leads to the rest.
Waiter == CHOOSE u \in People : TRUE
SomeNotices == N!Init /\ standing = [u \in People |-> IF u = Waiter THEN "waitlist" ELSE "present"]
NoNotices == N!Init /\ N!Recipients("recap") = People

AllInit ==
    /\ part \in {"rsvps", "day", "questions", "notices", "recap"}
    /\ IF part = "rsvps" THEN Init ELSE NoRsvps
    /\ IF part = "day" THEN D!Init ELSE NoDay
    /\ Q!Init
    /\ IF part = "notices" THEN SomeNotices ELSE NoNotices
    /\ R!Init

AllNext ==
    /\ UNCHANGED part
    /\ \/ /\ part = "rsvps" /\ Next
          /\ UNCHANGED <<dayVars, boardVars, mailVars, recapVars>>
       \/ /\ part = "day" /\ D!Next
          /\ UNCHANGED <<vars, boardVars, mailVars, recapVars>>
       \/ /\ part = "questions" /\ Q!Next
          /\ UNCHANGED <<vars, dayVars, mailVars, recapVars>>
       \/ /\ part = "notices" /\ N!Next
          /\ UNCHANGED <<vars, dayVars, boardVars, recapVars>>
       \/ /\ part = "recap" /\ R!Next
          /\ UNCHANGED <<vars, dayVars, boardVars, mailVars>>

AllSpec == AllInit /\ [][AllNext]_allVars

\* The type invariants of the other parts, and the properties they state.
EventDayWorks ==
    /\ part = "day" => D!TypeOK /\ D!EventDayWorks
    /\ part = "questions" => Q!TypeOK /\ Q!QuestionsWork
    /\ part = "notices" => N!TypeOK /\ N!NoticesWork
    /\ part = "recap" => R!TypeOK /\ R!RecapHolds

Symmetry == Permutations(Users \ Browsing) \cup Permutations(Doors)
=============================================================================
