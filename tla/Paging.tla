------------------------------- MODULE Paging -------------------------------
(***************************************************************************)
(* The lists the API serves in pages (backend/src/utils/pagination.ts):    *)
(* the members of a community, the communities to discover, the posts and  *)
(* the initiatives.  A page is one query; the reader asks for the next     *)
(* with the cursor of the last, while others create, delete and pin.       *)
(*                                                                         *)
(* Rows are numbered by (createdAt, _id).  "plain" stands for the lists    *)
(* that page over all they show in that order; "posts" are sorted with     *)
(* the pinned ones first; "initiatives" hides some rows from who is not    *)
(* staff, by a filter that the cursor's replaces on later pages.           *)
(***************************************************************************)
EXTENDS Naturals, FiniteSets

CONSTANTS
    MaxRows,    \* bound: rows ever created
    Limits      \* the page sizes asked for

PagingAssumption == MaxRows \in Nat /\ Limits \subseteq Nat \ {0}

Rows == 1..MaxRows
Kinds == {"plain", "posts", "initiatives"}

VARIABLES
    list,     \* its kind, and the rows there are, pinned or hidden
    reader,   \* pages read so far
    steady    \* rows that have been there since the first page
vars == <<list, reader, steady>>

List == [kind : Kinds, next : 1..MaxRows + 1, rows : SUBSET Rows,
         pinned : SUBSET Rows, hidden : SUBSET Rows, everPinned : BOOLEAN]
Reader == [limit : Limits, staff : BOOLEAN,
           cursor : 0..MaxRows,           \* 0: none
           pc : {"first", "next", "end"},
           seen : [Rows -> 0..MaxRows]]   \* how often each row was shown

TypeOK ==
    /\ list \in List
    /\ reader \in Reader
    /\ steady \in SUBSET Rows

Init ==
    /\ \E k \in Kinds :
          list = [kind |-> k, next |-> 1, rows |-> {}, pinned |-> {}, hidden |-> {},
                  everPinned |-> FALSE]
    /\ \E n \in Limits, s \in BOOLEAN :
          reader = [limit |-> n, staff |-> s, cursor |-> 0, pc |-> "first",
                    seen |-> [r \in Rows |-> 0]]
    /\ steady = {}

-----------------------------------------------------------------------------
(* One page                                                                *)

\* cursorFilter(), and the filter of the list it is merged into: a second
\* $or replaces the first.
Matches(r) ==
    IF reader.cursor = 0
    THEN list.kind = "initiatives" /\ ~ reader.staff => r \notin list.hidden
    ELSE r < reader.cursor

\* r is shown before q.
Before(r, q) ==
    IF list.kind = "posts" /\ (r \in list.pinned) # (q \in list.pinned)
    THEN r \in list.pinned
    ELSE r > q

Matching == {r \in list.rows : Matches(r)}
Rank(r) == Cardinality({q \in Matching : Before(q, r)})

\* .limit(limit + 1), of which the page is the first limit
Fetched == {r \in Matching : Rank(r) <= reader.limit}
Page == {r \in Matching : Rank(r) < reader.limit}

\* Mutant of NextCursor: the cursor of the row that was fetched in excess.
NextCursorOfExcess == CHOOSE r \in Fetched : Rank(r) = reader.limit

\* nextCursorFor()
NextCursor == CHOOSE r \in Page : Rank(r) = reader.limit - 1

ReadPage ==
    LET more == Cardinality(Fetched) > reader.limit IN
    /\ reader.pc # "end"
    /\ reader' = [reader EXCEPT !.seen = [r \in Rows |-> IF r \in Page THEN @[r] + 1 ELSE @[r]],
                                !.cursor = IF more THEN NextCursor ELSE @,
                                !.pc = IF more THEN "next" ELSE "end"]
    /\ steady' = IF reader.pc = "first" THEN list.rows ELSE steady
    /\ UNCHANGED list

-----------------------------------------------------------------------------
(* What others do meanwhile                                                *)

CreateRow ==
    /\ list.next <= MaxRows
    /\ \E h \in SUBSET {list.next} :
          list' = [list EXCEPT !.next = @ + 1, !.rows = @ \cup {list.next},
                               !.hidden = @ \cup h]
    /\ UNCHANGED <<reader, steady>>

DeleteRow(r) ==
    /\ r \in list.rows
    /\ list' = [list EXCEPT !.rows = @ \ {r}, !.pinned = @ \ {r}, !.hidden = @ \ {r}]
    /\ steady' = steady \ {r}
    /\ UNCHANGED reader

\* pinPost()
PinPost(r, pinned) ==
    /\ list.kind = "posts" /\ r \in list.rows
    /\ list' = IF pinned
               THEN [list EXCEPT !.pinned = @ \cup {r}, !.everPinned = TRUE]
               ELSE [list EXCEPT !.pinned = @ \ {r}]
    /\ UNCHANGED <<reader, steady>>

Next ==
    \/ ReadPage \/ CreateRow
    \/ \E r \in Rows : DeleteRow(r) \/ \E p \in BOOLEAN : PinPost(r, p)

Spec == Init /\ [][Next]_vars

-----------------------------------------------------------------------------
(* Properties                                                              *)

\* The pages of a list add up to it: no row is shown twice, and a reader who
\* has come to the end has been shown every row that was there throughout,
\* whatever was created and deleted between two pages.  Not for posts some of
\* which are pinned, which the cursor does not know about, nor for the
\* initiatives as one who is not staff sees them.
PagesAddUp ==
    \/ list.everPinned
    \/ list.kind = "initiatives" /\ ~ reader.staff
    \/ /\ \A r \in Rows : reader.seen[r] <= 1
       /\ reader.pc = "end" => \A r \in steady : reader.seen[r] = 1
=============================================================================
