------------------------------ MODULE EventDay ------------------------------
(***************************************************************************)
(* An event as its members and its managers have it on their screens: the  *)
(* page of the event and where its button leads, the list at the door and  *)
(* the marks of who is there.                                              *)
(*                                                                         *)
(* The server answers one RSVP at a time here (EventRsvp has them          *)
(* overlap); the door's check-in loads a row and saves it later.  Mongoose *)
(* saves the fields that were changed: a check-in leaves the answer alone  *)
(* and an answer leaves the mark.  A member also has a phone, whose taps   *)
(* his page learns of only when it is loaded again.                        *)
(*                                                                         *)
(* The event is published and has a capacity; whether it costs money may   *)
(* change.  Paying is left to Payments.                                    *)
(***************************************************************************)
EXTENDS Naturals, FiniteSets

CONSTANTS
    Members,
    Browsing,    \* those who have a browser; all have phones
    Doors,       \* screens of managers with the list of attendees
    NoMember,
    Seats,       \* event.capacity
    MaxAnswers   \* bound: answers and cancellations served

EventDayAssumption ==
    /\ Browsing \subseteq Members
    /\ Seats \in Nat \ {0} /\ MaxAnswers \in Nat

VARIABLES
    row,       \* the EventRSVP of each member
    figures,   \* event.metrics
    priced,    \* the event costs money, and who is covered by a subscription
    tab,       \* the page in each browser
    toggle,    \* the check-in each door has under way
    served,    \* answers and cancellations served
    meant,     \* what the last tap on a member's box was to do
    again      \* somebody who was going has answered again
vars == <<row, figures, priced, tab, toggle, served, meant, again>>

Status == {"none", "going", "waitlist", "cancelled"}
Row == [status : Status, marked : BOOLEAN, rank : 0..Cardinality(Members)]
NoRow == [status |-> "none", marked |-> FALSE, rank |-> 0]

Pages == {"detail", "checkout", "confirmed", "waitlisted"}
Tab == [page : Pages, going : BOOLEAN, price : BOOLEAN,
        busy : {"no", "answer", "cancel", "accepted", "refused", "cancelled"},
        undone : BOOLEAN]   \* he has cancelled since, on his phone

NoToggle == [who |-> NoMember, to |-> FALSE]

TypeOK ==
    /\ row \in [Members -> Row]
    /\ figures \in [going : 0..MaxAnswers, waiting : {n - MaxAnswers : n \in 0..2 * MaxAnswers}]
    /\ priced \in [now : BOOLEAN, covered : SUBSET Members]
    /\ tab \in [Browsing -> Tab]
    /\ toggle \in [Doors -> [who : Members \cup {NoMember}, to : BOOLEAN]]
    /\ served \in 0..MaxAnswers
    /\ meant \in [Members -> {"in", "out", "unsure"}]
    /\ again \in BOOLEAN

Going == {u \in Members : row[u].status = "going"}
Waiting == {u \in Members : row[u].status = "waitlist"}
Marked == {u \in Members : row[u].marked}

Init ==
    /\ row = [u \in Members |-> NoRow]
    /\ figures = [going |-> 0, waiting |-> 0]
    /\ \E c \in SUBSET Browsing : priced = [now |-> FALSE, covered |-> c]
    /\ tab = [u \in Browsing |-> [page |-> "detail", going |-> FALSE, price |-> FALSE,
                                 busy |-> "no", undone |-> FALSE]]
    /\ toggle = [d \in Doors |-> NoToggle]
    /\ served = 0
    /\ meant = [u \in Members |-> "out"]
    /\ again = FALSE

-----------------------------------------------------------------------------
(* The server: rsvp() with status 'going', and cancelRsvp()                *)

MustPay(u) == priced.now /\ u \notin priced.covered

\* His own row counts as well; a row there already changes its answer and
\* leaves the counters.
Answer(u) ==
    LET status == IF Cardinality(Going) >= Seats THEN "waitlist" ELSE "going"
        first == row[u].status = "none" IN
    /\ row' = [row EXCEPT ![u].status = status,
                          ![u].rank = IF first
                                      THEN 1 + Cardinality({v \in Members : row[v] # NoRow})
                                      ELSE @]
    /\ figures' = IF ~ first THEN figures
                  ELSE IF status = "going" THEN [figures EXCEPT !.going = @ + 1]
                  ELSE [figures EXCEPT !.waiting = @ + 1]
    /\ again' = (again \/ u \in Going)

\* Who has waited longest is promoted.
Oldest(us) == {u \in us : \A v \in us : row[u].rank <= row[v].rank}

Cancel(u) ==
    LET next == IF u \in Going THEN Oldest(Waiting) ELSE {} IN
    /\ row' = [v \in Members |->
                 IF v = u THEN [row[v] EXCEPT !.status = "cancelled"]
                 ELSE IF v \in next THEN [row[v] EXCEPT !.status = "going"] ELSE row[v]]
    /\ LET left == IF u \in Going /\ figures.going > 0
                   THEN figures.going - 1 ELSE figures.going IN
       figures' = IF next = {} THEN [figures EXCEPT !.going = left]
                  ELSE [going |-> left + 1, waiting |-> figures.waiting - 1]
    /\ UNCHANGED again

Serving == served < MaxAnswers /\ served' = served + 1

-----------------------------------------------------------------------------
(* A member's page of the event                                            *)

\* The page is loaded.  It is told whether he is going, never that he waits.
Load(u) ==
    /\ tab[u].busy = "no"
    /\ tab' = [tab EXCEPT ![u] = [@ EXCEPT !.going = u \in Going, !.price = priced.now]]
    /\ UNCHANGED <<row, figures, priced, toggle, served, meant, again>>

\* onRsvp()
Tap(u) ==
    /\ tab[u].page = "detail" /\ tab[u].busy = "no"
    /\ LET t == tab[u] IN
       tab' = [tab EXCEPT ![u] =
                 IF t.going THEN [t EXCEPT !.busy = "cancel"]
                 ELSE IF t.price /\ u \notin priced.covered THEN [t EXCEPT !.page = "checkout"]
                 ELSE [t EXCEPT !.busy = "answer"]]
    /\ UNCHANGED <<row, figures, priced, toggle, served, meant, again>>

\* doRsvp(): a payment begun answers 402.
ServeAnswer(u) ==
    /\ tab[u].busy = "answer" /\ Serving
    /\ IF MustPay(u)
       THEN /\ tab' = [tab EXCEPT ![u].busy = "refused"]
            /\ UNCHANGED <<row, figures, again>>
       ELSE /\ Answer(u)
            /\ tab' = [tab EXCEPT ![u].busy = "accepted", ![u].undone = FALSE]
    /\ UNCHANGED <<priced, toggle, meant>>

\* cancelRsvpHandler()
ServeCancel(u) ==
    /\ tab[u].busy = "cancel" /\ Serving
    /\ Cancel(u)
    /\ tab' = [tab EXCEPT ![u].busy = "cancelled"]
    /\ UNCHANGED <<priced, toggle, meant>>

\* The answer is in: accepted whether he is going or waits, refused as if the
\* event were full.  The page is loaded anew.
Land(u) ==
    /\ tab[u].busy \in {"accepted", "refused", "cancelled"}
    /\ tab' = [tab EXCEPT ![u] =
                 [@ EXCEPT !.page = CASE tab[u].busy = "accepted" -> "confirmed"
                                      [] tab[u].busy = "refused" -> "waitlisted"
                                      [] OTHER -> "detail",
                           !.going = u \in Going, !.price = priced.now, !.busy = "no"]]
    /\ UNCHANGED <<row, figures, priced, toggle, served, meant, again>>

Back(u) ==
    /\ tab[u].page # "detail"
    /\ tab' = [tab EXCEPT ![u].page = "detail"]
    /\ UNCHANGED <<row, figures, priced, toggle, served, meant, again>>

\* The member answers or cancels on his phone.
Phone(u) ==
    /\ Serving
    /\ \/ u \notin Going /\ ~ MustPay(u) /\ Answer(u) /\ UNCHANGED tab
       \/ /\ u \in Going \cup Waiting /\ Cancel(u)
          /\ tab' = [v \in Browsing |-> IF v = u THEN [tab[v] EXCEPT !.undone = TRUE] ELSE tab[v]]
    /\ UNCHANGED <<priced, toggle, meant>>

\* An edit of the event sets or lifts its price.
SetPrice ==
    /\ priced' = [priced EXCEPT !.now = ~ @]
    /\ UNCHANGED <<row, figures, tab, toggle, served, meant, again>>

-----------------------------------------------------------------------------
(* The door                                                                *)

\* The lists of the segments.
Listed(segment) ==
    {u \in Members :
       /\ row[u].status \notin {"none", "cancelled"}
       /\ segment = "arriving" => u \in Going \ Marked
       /\ segment = "checkedIn" => u \in Marked
       /\ segment = "waitlist" => u \in Waiting}

\* The numbers on the segments.
Number(segment) ==
    CASE segment = "all" -> Cardinality(Listed("all"))
      [] segment = "arriving" -> Cardinality(Going \ Marked)
      [] segment = "checkedIn" -> Cardinality(Marked)
      [] segment = "waitlist" -> Cardinality(Waiting)

\* waitlistPosition
Position(u) == 1 + Cardinality({v \in Waiting : row[v].rank < row[u].rank})

\* The no-shows of the command center, of those who answered or are there.
NoShows == Cardinality(Going \cup Marked) - Cardinality(Marked)

\* A manager taps the box of an attendee, whose list showed him marked or
\* not (`saw`); the row is loaded.  Those who wait have no box, but one who has
\* answered again may have it on an old list.  A door has one check-in under
\* way.
TapBox(d, u, saw) ==
    /\ toggle[d] = NoToggle
    /\ row[u] # NoRow /\ (u \in Waiting => again)
    /\ toggle' = [toggle EXCEPT ![d] = [who |-> u, to |-> ~ row[u].marked]]
    /\ meant' = [meant EXCEPT ![u] =
                   IF \/ saw # row[u].marked
                      \/ @ = "unsure"
                      \/ \E e \in Doors : toggle[e].who = u
                   THEN "unsure"
                   ELSE IF saw THEN "out" ELSE "in"]
    /\ UNCHANGED <<row, figures, priced, tab, served, again>>

\* Only attendedAt is written.
SaveBox(d) ==
    /\ toggle[d] # NoToggle
    /\ row' = [row EXCEPT ![toggle[d].who].marked = toggle[d].to]
    /\ toggle' = [toggle EXCEPT ![d] = NoToggle]
    /\ UNCHANGED <<figures, priced, tab, served, meant, again>>

\* A check-in of them all that finds a box under way leaves it to chance.
MeantIn(us) ==
    [u \in Members |-> IF u \notin us THEN meant[u]
                       ELSE IF \E e \in Doors : toggle[e].who = u THEN "unsure"
                       ELSE IF meant[u] = "unsure" THEN "unsure" ELSE "in"]

\* Mutant of CheckInAll: those who wait are checked in, too.
CheckInEverybody ==
    /\ Going \ Marked # {}
    /\ row' = [u \in Members |-> IF u \in Going \cup Waiting THEN [row[u] EXCEPT !.marked = TRUE]
                                 ELSE row[u]]
    /\ meant' = MeantIn(Going \ Marked)
    /\ UNCHANGED <<figures, priced, tab, toggle, served, again>>

CheckInAll ==
    /\ Going \ Marked # {}
    /\ row' = [u \in Members |-> IF u \in Going THEN [row[u] EXCEPT !.marked = TRUE] ELSE row[u]]
    /\ meant' = MeantIn(Going \ Marked)
    /\ UNCHANGED <<figures, priced, tab, toggle, served, again>>

\* Whom publishRecap() tells, and who may read the recap of an event that is
\* not completed yet: getEventById() calls him attending.
Told == Going \cap Marked
Readers == Going

-----------------------------------------------------------------------------
Next ==
    \/ \E u \in Browsing : \/ Load(u) \/ Tap(u) \/ ServeAnswer(u) \/ ServeCancel(u)
                           \/ Land(u) \/ Back(u)
    \/ \E u \in Members : Phone(u)
    \/ SetPrice
    \/ \E d \in Doors : \/ SaveBox(d)
                        \/ \E u \in Members, saw \in BOOLEAN : TapBox(d, u, saw)
    \/ CheckInAll

Spec == Init /\ [][Next]_vars

-----------------------------------------------------------------------------
(* Properties                                                              *)

\* While the boxes of a member are tapped one after the other, each on a list
\* that shows him as he is, he is marked as the last tap meant it, whatever he
\* answers or cancels meanwhile (event.controller.ts:258).
MarkedAsMeant ==
    \A u \in Members :
       (\A d \in Doors : toggle[d].who # u) =>
          /\ meant[u] = "in" => row[u].marked
          /\ meant[u] = "out" => ~ row[u].marked

\* A member whose page says "You're in" has a place or waits for one, unless
\* he has cancelled on his phone since (EventDetailScreen.tsx:68).
ConfirmedHolds ==
    \A u \in Browsing :
       tab[u].page = "confirmed" /\ ~ tab[u].undone => u \in Going \cup Waiting

\* The event's own count of those going is never above the rows, so that the
\* places left are not understated, as long as nobody who is going answers
\* again (event.service.ts:262).
GoingNotOverstated == ~ again => figures.going <= Cardinality(Going)

\* The list at the door calls first whom a cancellation promotes
\* (event.service.ts:318 and 348).
FirstIsNext == \A u \in Waiting : Position(u) = 1 <=> u \in Oldest(Waiting)

\* The segments count what they list, but for those who were marked and have
\* cancelled; the no-shows are those going who are not marked
\* (AttendeeListScreen.tsx:53, EventCommandCenterScreen.tsx:55).
FiguresOfDoor ==
    /\ \A s \in {"all", "arriving", "waitlist"} : Number(s) = Cardinality(Listed(s))
    /\ Number("checkedIn") - Cardinality(Listed("checkedIn"))
         = Cardinality({u \in Marked : row[u].status = "cancelled"})
    /\ NoShows = Number("arriving")

\* Who is told of the recap may read it (event.controller.ts:297,
\* PostEventSummaryScreen.tsx:66).
ToldMayRead == Told \subseteq Readers

\* The event's screens work on its day.
EventDayWorks ==
    /\ MarkedAsMeant /\ ConfirmedHolds /\ GoingNotOverstated
    /\ FirstIsNext /\ FiguresOfDoor /\ ToldMayRead
=============================================================================
