------------------------------ MODULE Recurring ------------------------------
(***************************************************************************)
(* A recurring event: the parent, its rule, and the instances that         *)
(* createEvent() and the nightly job materialise of it (backend/src/       *)
(* services/recurring.service.ts, jobs/recurringEvents.job.ts), while its  *)
(* managers cancel and edit it (services/event.service.ts).                *)
(*                                                                         *)
(* Time is counted in days.  A day is over when the time of day at which   *)
(* the event starts has passed, so today is the first day of a window that *)
(* starts now, and a horizon of n days ends with today + n - 1.  Day 0 is  *)
(* a Sunday.  Rules by the month are left out, and of an edit all but the  *)
(* status: the rule and the dates of a series cannot be edited.            *)
(***************************************************************************)
EXTENDS Serving

CONSTANTS
    LastDay,    \* bound: the days there are
    Ticks,      \* bound: days that pass
    Copies,     \* bound: instances of one date
    Horizon,    \* HORIZON_DAYS
    Start,      \* startAt of the parent
    Rules,      \* the recurrence rules a series may have
    Parent,     \* the parent, beside its instances
    EventRequests    \* bound: cancellations and edits of a behaviour

Days == 0..LastDay
Freq == {"daily", "weekly", "biweekly"}
EndType == {"never", "until", "count"}
Rule == [freq : Freq, interval : Nat \ {0}, byDay : SUBSET (0..6),
         endType : EndType, limit : Nat]    \* until, or count

ASSUME DaysAssumption ==
    /\ LastDay \in Nat /\ Ticks \in Nat /\ Copies \in Nat
    /\ Horizon \in Nat \ {0} /\ Start \in Nat
    /\ Ticks + Horizon <= LastDay + 1
ASSUME RulesAssumption == Rules \subseteq Rule
ASSUME EventRequestsAssumption == EventRequests \in Nat
ASSUME ParentAssumption == Parent \notin Days \X (1..Copies)

VARIABLES
    today,
    rule,
    event,    \* the status of the Event documents
    ended,    \* the dates a cancellation has called off, and no edit since
    task      \* what the workers are doing
eventVars == <<today, rule, event, ended, pool, sent, task>>

Status == {"none", "draft", "published", "cancelled", "completed"}
\* <<d, n>> is the instance of day d that n - 1 others came before.
Instances == Days \X (1..Copies)
Docs == Instances \cup {Parent}
Scope == {"this", "future", "all"}

EventPc == {"idle", "load", "find", "insert",
            "findDocs", "cancel", "saveEdit", "snapshot", "commit"}
EventWorker == [pc : EventPc,
           target : Docs, scope : Scope,
           status : Status,           \* of the parent as loaded, or the patch's
           day : 0..Ticks,            \* the first day of the window
           dates : SUBSET Days,       \* yet to be inserted
           docs : SUBSET Docs,        \* yet to be saved
           seen : [Docs -> Status]]   \* the snapshot of the transaction

NoEvents == [i \in Docs |-> "none"]
EventIdle == [pc |-> "idle", target |-> Parent, scope |-> "this", status |-> "none", day |-> 0,
         dates |-> {}, docs |-> {}, seen |-> NoEvents]

RecurringTypeOK ==
    /\ today \in 0..Ticks
    /\ rule \in Rules
    /\ event \in [Docs -> Status]
    /\ ended \in SUBSET Days
    /\ pool \in SUBSET Workers
    /\ sent \in 0..EventRequests
    /\ task \in [Workers -> EventWorker]

RecurringInit ==
    /\ today = 0
    /\ rule \in Rules
    /\ event = NoEvents
    /\ ended = {}
    /\ pool \in Pools
    /\ sent = 0
    /\ task = [w \in Workers |-> EventIdle]

-----------------------------------------------------------------------------
EventAt(w, pc) == task[w].pc = pc
Exists(i) == event[i] # "none"
EventDone(w) == task' = [task EXCEPT ![w] = EventIdle]
Of(d) == {n \in 1..Copies : Exists(<<d, n>>)}

Tick ==
    /\ today < Ticks
    /\ today' = today + 1
    /\ UNCHANGED <<rule, event, ended, pool, sent, task>>

-----------------------------------------------------------------------------
(* computeOccurrences()                                                    *)

Step == IF rule.freq = "daily" THEN rule.interval ELSE 1
Weekday(d) == rule.byDay = {} \/ d % 7 \in rule.byDay

\* The candidates of the walk from startAt on, and of the walk that counts:
\* the latter goes by single days whatever the interval.
Candidate(d) == d >= Start /\ (d - Start) % Step = 0 /\ Weekday(d)
Counted(d) == d >= Start /\ Weekday(d)

\* Mutant of CountedBefore: what has passed does not count.
CountedNever(from) == 0

\* countOccurrencesBetween()
CountedBefore(from) == Cardinality({d \in Days : Counted(d) /\ d < from})

\* Mutant of Window: it ends one day early.
WindowOneShort(from) == {d \in Days : Candidate(d) /\ from <= d /\ d < from + Horizon - 1}

Window(from) == {d \in Days : Candidate(d) /\ from <= d /\ d < from + Horizon}

Occurrences(from) ==
    CASE rule.endType = "never" -> Window(from)
      [] rule.endType = "until" -> {d \in Window(from) : d <= rule.limit}
      [] rule.endType = "count" ->
            {d \in Window(from) :
                CountedBefore(from) + Cardinality({e \in Window(from) : e < d}) < rule.limit}

-----------------------------------------------------------------------------
(* createEvent(), materializeAllRecurringParents(), materializeInstances() *)

Materialize(w) == task' = [task EXCEPT ![w].pc = "load"]

CreateEvent(w) ==
    /\ w \in pool /\ EventAt(w, "idle") /\ ~ Exists(Parent)
    /\ \E s \in {"draft", "published"} : event' = [event EXCEPT ![Parent] = s]
    /\ Materialize(w)
    /\ UNCHANGED <<today, rule, ended, pool, sent>>

BeginJob(w) ==
    /\ w \in pool /\ EventAt(w, "idle") /\ event[Parent] \in {"draft", "published"}
    /\ Materialize(w)
    /\ UNCHANGED <<today, rule, event, ended, pool, sent>>

LoadParent(w) ==
    /\ EventAt(w, "load")
    /\ task' = [task EXCEPT ![w].pc = "find", ![w].status = event[Parent], ![w].day = today,
                            ![w].dates = Occurrences(today)]
    /\ UNCHANGED <<today, rule, event, ended, pool, sent>>

\* Mutant of FindExisting: nothing is skipped.
FindNothing(w) ==
    /\ EventAt(w, "find")
    /\ task' = [task EXCEPT ![w].pc = "insert"]
    /\ UNCHANGED <<today, rule, event, ended, pool, sent>>

FindExisting(w) ==
    /\ EventAt(w, "find")
    /\ task' = [task EXCEPT ![w].pc = "insert", ![w].dates = {d \in @ : Of(d) = {}}]
    /\ UNCHANGED <<today, rule, event, ended, pool, sent>>

\* insertMany(), if there is anything to insert
InsertMany(w) ==
    /\ EventAt(w, "insert")
    /\ \A d \in task[w].dates : Cardinality(Of(d)) < Copies
    /\ event' = [i \in Docs |->
                    IF \E d \in task[w].dates : i = <<d, Cardinality(Of(d)) + 1>>
                    THEN task[w].status ELSE event[i]]
    /\ EventDone(w)
    /\ UNCHANGED <<today, rule, ended, pool, sent>>

-----------------------------------------------------------------------------
(* cancelEvent()                                                           *)

DateOf(i) == IF i = Parent THEN Start ELSE i[1]

\* Mutant of Concerned: the parent is left as it is.
ConcernedInstances(i, scope) ==
    IF scope = "this" THEN {i}
    ELSE {j \in Instances : Exists(j) /\ (scope = "future" => DateOf(j) >= DateOf(i))}

\* The documents the scope of a request to i selects.
Concerned(i, scope) ==
    IF scope = "this" THEN {i}
    ELSE {Parent} \cup
         {j \in Instances : Exists(j) /\ (scope = "future" => DateOf(j) >= DateOf(i))}

CalledOff(w) ==
    IF task[w].scope = "this" THEN {}
    ELSE {d \in Days : task[w].scope = "future" => d >= DateOf(task[w].target)}

EventBegin(w, i) ==
    /\ w \in pool /\ EventAt(w, "idle") /\ Exists(i) /\ sent < EventRequests
    /\ sent' = sent + 1
    /\ UNCHANGED <<today, rule, event, ended, pool>>

Live(docs) == {i \in docs : event[i] # "cancelled"}

BeginCancel(w, i, scope) ==
    /\ EventBegin(w, i)
    /\ task' = [task EXCEPT ![w] = [EventIdle EXCEPT
                   !.pc = IF scope = "this" THEN "cancel" ELSE "findDocs",
                   !.target = i, !.scope = scope,
                   !.docs = IF scope = "this" THEN Live({i}) ELSE {}]]

FindDocs(w) ==
    /\ EventAt(w, "findDocs")
    /\ task' = [task EXCEPT ![w].pc = "cancel",
                            ![w].docs = Live(Concerned(task[w].target, task[w].scope))]
    /\ UNCHANGED <<today, rule, event, ended, pool, sent>>

\* cancelOne()
CancelOne(w, i) ==
    /\ EventAt(w, "cancel") /\ i \in task[w].docs
    /\ event' = [event EXCEPT ![i] = "cancelled"]
    /\ task' = [task EXCEPT ![w].docs = @ \ {i}]
    /\ UNCHANGED <<today, rule, ended, pool, sent>>

EndCancel(w) ==
    /\ EventAt(w, "cancel") /\ task[w].docs = {}
    /\ ended' = ended \cup CalledOff(w)
    /\ EventDone(w)
    /\ UNCHANGED <<today, rule, event, pool, sent>>

-----------------------------------------------------------------------------
(* updateEvent(), applyScopedEdit(), with a patch of the status            *)

\* A save writes the status only if it is another than the one loaded.
Unlike(docs, s) == {i \in docs : event[i] # s}

BeginEdit(w, i, scope, s) ==
    /\ EventBegin(w, i)
    /\ task' = [task EXCEPT ![w] = [EventIdle EXCEPT
                   !.pc = IF scope = "this" THEN "saveEdit" ELSE "snapshot",
                   !.target = i, !.scope = scope, !.status = s,
                   !.docs = IF scope = "this" THEN Unlike({i}, s) ELSE {}]]

Patch(w) ==
    /\ event' = [i \in Docs |-> IF i \in task[w].docs THEN task[w].status ELSE event[i]]
    /\ ended' = IF Parent \in task[w].docs THEN {}
                ELSE ended \ {DateOf(i) : i \in task[w].docs}
    /\ EventDone(w)

SaveEdit(w) ==
    /\ EventAt(w, "saveEdit")
    /\ Patch(w)
    /\ UNCHANGED <<today, rule, pool, sent>>

Snapshot(w) ==
    /\ EventAt(w, "snapshot")
    /\ task' = [task EXCEPT ![w].pc = "commit", ![w].seen = event,
                   ![w].docs = Unlike(Concerned(task[w].target, task[w].scope), task[w].status)]
    /\ UNCHANGED <<today, rule, event, ended, pool, sent>>

\* The transaction is tried again if one of its documents has changed.
Commit(w) ==
    /\ EventAt(w, "commit")
    /\ IF \A i \in task[w].docs : event[i] = task[w].seen[i]
       THEN Patch(w)
       ELSE /\ task' = [task EXCEPT ![w].pc = "snapshot", ![w].docs = {}, ![w].seen = NoEvents]
            /\ UNCHANGED <<event, ended>>
    /\ UNCHANGED <<today, rule, pool, sent>>

-----------------------------------------------------------------------------
EventReceive(w) ==
    \/ CreateEvent(w) \/ BeginJob(w)
    \/ \E i \in Docs, scope \in Scope :
          \/ BeginCancel(w, i, scope)
          \/ \E s \in {"draft", "published", "completed"} : BeginEdit(w, i, scope, s)

EventServe(w) ==
    \/ LoadParent(w) \/ FindExisting(w) \/ InsertMany(w)
    \/ FindDocs(w) \/ EndCancel(w) \/ \E i \in Docs : CancelOne(w, i)
    \/ SaveEdit(w) \/ Snapshot(w) \/ Commit(w)

RecurringNext == Tick \/ \E w \in Workers : EventReceive(w) \/ EventServe(w)

RecurringSpec == RecurringInit /\ [][RecurringNext]_eventVars

-----------------------------------------------------------------------------
(* What the rule asks for, of every day by itself                          *)

Wanted(d) ==
    /\ Candidate(d)
    /\ rule.endType = "until" => d <= rule.limit
    /\ rule.endType = "count" => Cardinality({e \in Days : Candidate(e) /\ e < d}) < rule.limit

\* The count that is kept is that of the dates.
CountKept == rule.endType = "count" => Step = 1

(* Properties                                                              *)

\* The instances are on dates the rule asks for, however often the window has
\* been topped up, from whatever day, and however requests overlap: a series
\* that ends after a number of occurrences gets no more of them.
DatesOfRule == \A i \in Instances : Exists(i) => Wanted(i[1])

\* w ends materializeInstances(), and every date the rule asks for in its
\* window has an instance.
Ends(w) == EventAt(w, "insert") /\ task'[w].pc = "idle"
Filled(w) ==
    \A d \in Days : Wanted(d) /\ task[w].day <= d /\ d < task[w].day + Horizon => Of(d)' # {}

\* When materializeInstances() ends, every date the rule asks for in its
\* window has an instance, if need be one of an overlapping run.  Not for
\* series that end after a number of occurrences some days apart.
WindowFilled == [][\A w \in Workers : Ends(w) /\ CountKept => Filled(w)]_eventVars

\* "Idempotent": a date has one instance.  Only while requests do not overlap:
\* two runs that look for the instances there are before either inserts
\* create each date twice.
OneInstancePerDate == Cardinality(pool) = 1 => \A d \in Days : Cardinality(Of(d)) <= 1

\* A cancellation of all or of the future instances holds: until someone edits
\* the status, no instance of those dates is live, none the job adds later
\* either.  Only while requests do not overlap: a run that has loaded the
\* parent before adds its instances after.
EndedStays ==
    Cardinality(pool) = 1 =>
        \A i \in Instances : i[1] \in ended => event[i] \in {"none", "cancelled"}

\* The window is filled of every series: what is counted as past is what has
\* taken place.  "Used to keep `count` accurate when materializing forward in
\* time after some occurrences have already passed."
CountAccurate == [][\A w \in Workers : Ends(w) => Filled(w)]_eventVars
=============================================================================
