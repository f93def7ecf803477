---------------------------- MODULE ContentProofs ----------------------------
(***************************************************************************)
(* Theorems about what a community's members read and add, for any number  *)
(* of rows, members, comments and files: the pages of a list, a post and   *)
(* its comments, and the materials of an event, each an instance in        *)
(* MCCommunities; and about all the parts of MCCommunities together.       *)
(***************************************************************************)
EXTENDS MCCommunities, CommunityProofs, SequenceTheorems, WellFoundedInduction

-----------------------------------------------------------------------------
(* Numbers                                                                 *)

\* Of sets of things that are finitely many, one has no other inside.
LEMMA Smallest ==
  ASSUME NEW S, IsFiniteSet(S), NEW Sets \in SUBSET SUBSET S, Sets # {}
  PROVE  \E x \in Sets : \A y \in Sets : y \subseteq x => y = x
<1>1. IsWellFoundedOn(StrictSubsetOrdering(S), SUBSET S)
  BY FS_StrictSubsetOrderingWellFounded, FS_FiniteSubsetsOfFinite
<1>2. PICK x \in Sets : \A y \in Sets : ~ (<<y, x>> \in StrictSubsetOrdering(S))
  BY <1>1, WFMin
<1> QED BY <1>2 DEF StrictSubsetOrdering

\* A set of natural numbers that has a bound has a greatest one.
LEMMA Greatest ==
  ASSUME NEW n \in Nat, NEW S \in SUBSET (0..n), S # {}
  PROVE  \E x \in S : \A y \in S : y <= x
<1> DEFINE Above(x) == {y \in S : y > x}
           Tails == {Above(x) : x \in S}
<1>1. Tails \in SUBSET SUBSET (0..n) /\ Tails # {}
  OBVIOUS
<1>5. IsFiniteSet(0..n)
  BY FS_Interval
<1>2. PICK least \in Tails : \A s \in Tails : s \subseteq least => s = least
  <2>1. \E least \in Tails : \A s \in Tails : s \subseteq least => s = least
    <3>1. PICK all, tails : all = 0..n /\ tails = Tails
      OBVIOUS
    <3>2. IsFiniteSet(all) /\ tails \in SUBSET SUBSET all /\ tails # {}
      BY <1>1, <1>5, <3>1
    <3>3. \E least \in tails : \A s \in tails : s \subseteq least => s = least
      BY <3>2, Smallest
    <3> QED BY <3>1, <3>3
  <2> QED BY <2>1
<1>3. PICK x \in S : least = Above(x)
  OBVIOUS
<1>4. ASSUME NEW y \in S PROVE y <= x
  <2>1. SUFFICES ASSUME y > x PROVE FALSE
    OBVIOUS
  <2>2. Above(y) \in Tails /\ Above(y) \subseteq Above(x)
    <3>1. \A z \in S : z > y => z > x
      BY <2>1
    <3> QED BY <3>1
  <2>3. y \in Above(x) /\ y \notin Above(y)
    BY <2>1
  <2> QED BY <1>2, <1>3, <2>2, <2>3
<1> QED BY <1>4

-----------------------------------------------------------------------------
(* The pages of a list                                                     *)

\* What others do leaves no row pinned unseen, and rows are numbered as made.
ListOK ==
    /\ list.rows \subseteq 1..list.next - 1
    /\ list.everPinned \/ list.pinned = {}
    /\ steady \subseteq list.rows

\* The cursor goes down with every page, so that a row is not shown for ever.
CursorOK ==
    /\ reader.pc = "first" => reader.cursor = 0 /\ \A r \in P!Rows : reader.seen[r] = 0
    /\ reader.pc = "next" =>
          /\ reader.cursor > 0
          /\ \A r \in P!Rows : reader.seen[r] + reader.cursor <= MaxRows + 1

\* A list whose cursor knows its order and its filter.
InOrder == ~ list.everPinned /\ (list.kind = "initiatives" => reader.staff)

\* The rows from the cursor on have been shown, those before it have not.
ShownOnce ==
    /\ \A r \in P!Rows : reader.seen[r] <= 1
    /\ reader.pc = "next" =>
          /\ \A r \in P!Rows : r < reader.cursor => reader.seen[r] = 0
          /\ \A r \in steady : r >= reader.cursor => reader.seen[r] = 1
    /\ reader.pc = "end" => \A r \in steady : reader.seen[r] = 1

PagingInv == P!TypeOK /\ ListOK /\ CursorOK /\ (InOrder => ShownOnce)

LEMMA PagingConstants == MaxRows \in Nat /\ Limits \subseteq Nat \ {0}
BY PartsAssumption DEF P!PagingAssumption

LEMMA PagingCounts == \A S : P!Cardinality(S) = Cardinality(S)
BY DEF P!Cardinality, Cardinality

LEMMA RowsFinite ==
  \A rs \in SUBSET P!Rows : IsFiniteSet(rs) /\ Cardinality(rs) \in Nat
<1>1. IsFiniteSet(P!Rows)
  BY PagingConstants, FS_Interval DEF P!Rows
<1> QED BY <1>1, FS_Subset, FS_CardinalityType

\* The order of a list is a strict one.
LEMMA BeforeStrict ==
  ASSUME P!TypeOK, NEW r \in P!Rows, NEW q \in P!Rows, NEW x \in P!Rows
  PROVE  /\ ~ P!Before(r, r)
         /\ r # q => P!Before(r, q) \/ P!Before(q, r)
         /\ P!Before(r, q) /\ P!Before(q, x) => P!Before(r, x)
<1>1. r \in Int /\ q \in Int /\ x \in Int
  BY PagingConstants DEF P!Rows
<1> QED BY <1>1 DEF P!Before

LEMMA MatchingRows == P!TypeOK => P!Matching \in SUBSET P!Rows
BY DEF P!TypeOK, P!List, P!Matching

LEMMA RankType ==
  ASSUME P!TypeOK, NEW r \in P!Rows
  PROVE  P!Rank(r) \in Nat
<1>1. {q \in P!Matching : P!Before(q, r)} \in SUBSET P!Rows
  BY MatchingRows
<1> QED BY <1>1, RowsFinite, PagingCounts DEF P!Rank

\* What is shown later has the higher rank.
LEMMA RankGrows ==
  ASSUME P!TypeOK, NEW r \in P!Matching, NEW q \in P!Matching, P!Before(r, q)
  PROVE  P!Rank(r) < P!Rank(q)
<1> DEFINE Ahead(x) == {y \in P!Matching : P!Before(y, x)}
<1>1. P!Matching \in SUBSET P!Rows
  BY MatchingRows
<1>2. /\ IsFiniteSet(Ahead(r)) /\ Cardinality(Ahead(r)) \in Nat
      /\ IsFiniteSet(Ahead(q)) /\ Cardinality(Ahead(q)) \in Nat
  <2>1. Ahead(r) \in SUBSET P!Rows /\ Ahead(q) \in SUBSET P!Rows
    BY <1>1
  <2> QED BY <2>1, RowsFinite
<1>3. r \notin Ahead(r)
  BY <1>1, BeforeStrict
<1>4. Ahead(r) \cup {r} \in SUBSET Ahead(q)
  BY <1>1, BeforeStrict
<1>5. Cardinality(Ahead(r) \cup {r}) = Cardinality(Ahead(r)) + 1
  BY <1>2, <1>3, FS_AddElement
<1>6. Cardinality(Ahead(r) \cup {r}) <= Cardinality(Ahead(q))
  BY <1>2, <1>4, FS_Subset
<1> QED BY <1>2, <1>5, <1>6, PagingCounts DEF P!Rank

\* Of what was fetched in excess of a page, the page has a last row.
LEMMA CursorThere ==
  ASSUME P!TypeOK, Cardinality(P!Fetched) > reader.limit
  PROVE  P!NextCursor \in P!Page /\ P!Rank(P!NextCursor) = reader.limit - 1
<1> DEFINE n == reader.limit
           f == [r \in P!Fetched |-> P!Rank(r)]
<1>1. n \in Nat \ {0}
  BY PagingConstants DEF P!TypeOK, P!Reader
<1>2. P!Fetched \in SUBSET P!Matching /\ P!Matching \in SUBSET P!Rows
  BY MatchingRows DEF P!Fetched
<1>3. f \in [P!Fetched -> 0..n]
  <2>1. ASSUME NEW r \in P!Fetched PROVE P!Rank(r) \in 0..n
    BY <1>1, <1>2, RankType DEF P!Fetched
  <2> QED BY <2>1
<1>4. f \in Injection(P!Fetched, 0..n)
  <2>1. ASSUME NEW r \in P!Fetched, NEW q \in P!Fetched, r # q PROVE f[r] # f[q]
    <3>1. P!Before(r, q) \/ P!Before(q, r)
      BY <1>2, <2>1, BeforeStrict
    <3>2. P!Rank(r) \in Nat /\ P!Rank(q) \in Nat
      BY <1>2, RankType
    <3> QED BY <1>2, <3>1, <3>2, RankGrows
  <2> QED BY <1>3, <2>1 DEF Injection, IsInjective
<1>5. IsFiniteSet(0..n) /\ Cardinality(0..n) = n + 1
  BY <1>1, FS_Interval
<1>6. Cardinality(P!Fetched) \in Nat
  BY <1>2, RowsFinite
<1>7. f \in Surjection(P!Fetched, 0..n)
  BY <1>1, <1>4, <1>5, <1>6, FS_Injection
<1>8. PICK r \in P!Fetched : f[r] = n - 1
  <2>1. n - 1 \in 0..n
    BY <1>1
  <2> QED BY <1>7, <2>1 DEF Surjection
<1>9. r \in P!Page /\ P!Rank(r) = n - 1
  BY <1>1, <1>2, <1>8 DEF P!Page
<1> QED BY <1>9 DEF P!NextCursor

LEMMA InOrderBefore ==
  ASSUME P!TypeOK, ListOK, InOrder, NEW r \in P!Rows, NEW q \in P!Rows
  PROVE  P!Before(r, q) <=> r > q
BY DEF P!Before, ListOK, InOrder

\* A page that nothing was fetched in excess of has the rest of the list.
LEMMA LastPage ==
  ASSUME P!TypeOK, ListOK, InOrder, ~ (Cardinality(P!Fetched) > reader.limit)
  PROVE  P!Page = P!Matching
<1> DEFINE n == reader.limit
           Rest == {r \in P!Matching : P!Rank(r) >= n}
<1>1. n \in Nat \ {0}
  BY PagingConstants DEF P!TypeOK, P!Reader
<1>2. P!Matching \in SUBSET P!Rows
  BY MatchingRows
<1>3. SUFFICES ASSUME Rest # {} PROVE FALSE
  <2>1. \A r \in P!Matching : P!Rank(r) \in Nat
    BY <1>2, RankType
  <2> QED BY <1>1, <1>3, <2>1 DEF P!Page
<1>4. PICK r \in Rest : \A q \in Rest : q <= r
  <2>1. Rest \in SUBSET (0..MaxRows)
    <3>1. Rest \in SUBSET P!Rows
      BY <1>2
    <3> QED BY <3>1, PagingConstants DEF P!Rows
  <2> QED BY <1>3, <2>1, PagingConstants, Greatest
<1> DEFINE Ahead == {q \in P!Matching : P!Before(q, r)}
<1>5. r \in P!Rows /\ P!Rank(r) \in Nat /\ P!Rank(r) >= n
  BY <1>2, <1>4, RankType
<1>6. Ahead \in SUBSET P!Fetched
  <2>1. ASSUME NEW q \in Ahead PROVE q \in P!Fetched
    <3>1. q \in P!Rows /\ q > r
      BY <1>2, <1>5, InOrderBefore
    <3>2. q \notin Rest
      BY <1>4, <1>5, <3>1 DEF P!Rows
    <3> QED BY <1>1, <3>1, <3>2, RankType DEF P!Fetched
  <2> QED BY <2>1
<1>7. /\ IsFiniteSet(P!Fetched) /\ Cardinality(P!Fetched) \in Nat
      /\ IsFiniteSet(Ahead) /\ Cardinality(Ahead) = P!Rank(r)
  <2>1. P!Fetched \in SUBSET P!Rows /\ Ahead \in SUBSET P!Rows
    BY <1>2 DEF P!Fetched
  <2> QED BY <2>1, RowsFinite, PagingCounts DEF P!Rank
<1>8. CASE P!Rank(r) > n
  <2>1. Cardinality(Ahead) <= Cardinality(P!Fetched)
    BY <1>6, <1>7, FS_Subset
  <2> QED BY <1>1, <1>5, <1>7, <1>8, <2>1
<1>9. CASE P!Rank(r) = n
  <2>1. Ahead \cup {r} \in SUBSET P!Fetched
    BY <1>1, <1>4, <1>6, <1>9 DEF P!Fetched
  <2>2. r \notin Ahead
    BY <1>5, BeforeStrict
  <2>3. Cardinality(Ahead \cup {r}) = n + 1
    BY <1>7, <1>9, <2>2, FS_AddElement
  <2>4. Cardinality(Ahead \cup {r}) <= Cardinality(P!Fetched)
    BY <1>7, <2>1, FS_Subset
  <2> QED BY <1>1, <1>7, <2>3, <2>4
<1> QED BY <1>1, <1>5, <1>8, <1>9

LEMMA PagingInit == P!Init => PagingInv
<1> SUFFICES ASSUME P!Init PROVE PagingInv
  OBVIOUS
<1>1. reader.seen = [r \in P!Rows |-> 0] /\ reader.pc = "first" /\ reader.cursor = 0
  BY DEF P!Init
<1>2. list \in P!List /\ list.rows = {} /\ list.pinned = {} /\ steady = {}
  BY PagingConstants DEF P!Init, P!List, P!Kinds
<1>3. reader \in P!Reader
  BY PagingConstants DEF P!Init, P!Reader
<1> QED BY <1>1, <1>2, <1>3 DEF PagingInv, P!TypeOK, ListOK, CursorOK, InOrder, ShownOnce

\* One page more: a row is shown only before the cursor, which goes down.
LEMMA ReadPageOK == PagingInv /\ P!ReadPage => PagingInv'
<1> SUFFICES ASSUME PagingInv, P!ReadPage PROVE PagingInv'
  OBVIOUS
<1> DEFINE more == Cardinality(P!Fetched) > reader.limit
           next == IF more THEN P!NextCursor ELSE reader.cursor
<1>1. /\ list \in P!List /\ reader \in P!Reader /\ steady \in SUBSET P!Rows
      /\ P!TypeOK /\ ListOK /\ CursorOK
  BY DEF PagingInv, P!TypeOK
<1>2. /\ reader.limit \in Nat \ {0} /\ reader.limit \in Limits /\ reader.staff \in BOOLEAN
      /\ reader.cursor \in 0..MaxRows /\ reader.pc \in {"first", "next"}
      /\ reader.seen \in [P!Rows -> 0..MaxRows]
  BY <1>1, PagingConstants DEF P!Reader, P!ReadPage
<1>3. /\ reader'.limit = reader.limit /\ reader'.staff = reader.staff
      /\ reader'.cursor = next /\ reader'.pc = (IF more THEN "next" ELSE "end")
      /\ reader'.seen = [r \in P!Rows |-> IF r \in P!Page THEN reader.seen[r] + 1
                                          ELSE reader.seen[r]]
      /\ reader' \in [limit : Limits, staff : BOOLEAN, cursor : {next},
                      pc : {"next", "end"}, seen : {reader'.seen}]
  BY <1>1, <1>2, PagingCounts DEF P!ReadPage, P!Reader
<1>4. list' = list /\ steady' = IF reader.pc = "first" THEN list.rows ELSE steady
  BY DEF P!ReadPage
<1>5. P!Matching \in SUBSET P!Rows /\ P!Page \in SUBSET P!Matching
  BY <1>1, MatchingRows DEF P!Page
<1>6. \A r \in P!Matching : reader.cursor # 0 => r < reader.cursor
  BY DEF P!Matching, P!Matches
<1>7. more => P!NextCursor \in P!Page /\ P!Rank(P!NextCursor) = reader.limit - 1
  BY <1>1, CursorThere
<1>8. /\ next \in 0..MaxRows
      /\ more => next \in P!Rows /\ (reader.cursor # 0 => next < reader.cursor)
  <2>1. CASE more
    <3>1. next \in P!Matching /\ next \in P!Rows
      BY <1>5, <1>7, <2>1
    <3>2. next \in 0..MaxRows
      BY <3>1, PagingConstants DEF P!Rows
    <3> QED BY <1>6, <3>1, <3>2
  <2>2. CASE ~ more
    <3>1. next = reader.cursor
      BY <2>2
    <3> QED BY <1>2, <2>2, <3>1
  <2> QED BY <2>1, <2>2
<1>9. \A r \in P!Rows : /\ r \in Int /\ 1 <= r /\ r <= MaxRows
                        /\ reader.seen[r] \in Int /\ 0 <= reader.seen[r]
                        /\ reader'.seen[r] = IF r \in P!Page THEN reader.seen[r] + 1
                                             ELSE reader.seen[r]
  BY <1>2, <1>3, PagingConstants DEF P!Rows
<1>10. reader'.seen \in [P!Rows -> 0..MaxRows]
  <2>1. ASSUME NEW r \in P!Rows PROVE reader'.seen[r] \in 0..MaxRows
    <3>1. reader.seen[r] \in 0..MaxRows
      BY <1>2
    <3>2. CASE r \notin P!Page
      BY <1>9, <3>1, <3>2
    <3>3. CASE r \in P!Page /\ reader.pc = "first"
      BY <1>1, <1>9, <3>3, PagingConstants DEF CursorOK
    <3>4. CASE r \in P!Page /\ reader.pc = "next"
      <4>1. r < reader.cursor /\ reader.seen[r] + reader.cursor <= MaxRows + 1
        BY <1>1, <1>2, <1>5, <1>6, <3>4 DEF CursorOK
      <4> QED BY <1>2, <1>9, <3>4, <4>1, PagingConstants
    <3> QED BY <1>2, <3>2, <3>3, <3>4
  <2> QED BY <1>3, <2>1
<1>11. reader' \in P!Reader
  BY <1>3, <1>8, <1>10 DEF P!Reader
<1>12. list.rows \in SUBSET P!Rows
  BY <1>1 DEF P!List
<1>13. P!TypeOK' /\ ListOK'
  BY <1>1, <1>4, <1>11, <1>12 DEF P!TypeOK, ListOK
<1>14. CursorOK'
  <2>1. SUFFICES ASSUME more PROVE next > 0 /\ \A r \in P!Rows : reader'.seen[r] + next <= MaxRows + 1
    BY <1>3 DEF CursorOK
  <2>2. next \in P!Rows
    BY <1>8, <2>1
  <2>3. ASSUME NEW r \in P!Rows PROVE reader'.seen[r] + next <= MaxRows + 1
    <3>1. next <= MaxRows
      BY <1>9, <2>2
    <3>2. CASE reader.pc = "first"
      <4>1. reader.seen[r] = 0
        BY <1>1, <3>2 DEF CursorOK
      <4> QED BY <1>8, <1>9, <3>1, <4>1, PagingConstants
    <3>3. CASE reader.pc = "next"
      <4>1. reader.cursor > 0 /\ reader.seen[r] + reader.cursor <= MaxRows + 1
        BY <1>1, <3>3 DEF CursorOK
      <4> QED BY <1>2, <1>8, <1>9, <2>1, <4>1, PagingConstants
    <3> QED BY <1>2, <3>2, <3>3
  <2> QED BY <1>9, <2>2, <2>3
<1>15. InOrder' => ShownOnce'
  <2>1. SUFFICES ASSUME InOrder PROVE ShownOnce'
    BY <1>3, <1>4 DEF InOrder
  <2>2. ShownOnce
    BY <2>1 DEF PagingInv
  <2>3. /\ reader.pc = "first" => P!Matching = list.rows
        /\ reader.pc = "next" => P!Matching = {r \in list.rows : r < reader.cursor}
    BY <1>1, <1>2, <2>1 DEF P!Matching, P!Matches, CursorOK, InOrder
  <2>4. \A r \in P!Page : reader.seen[r] = 0
    <3>1. CASE reader.pc = "first"
      BY <1>1, <1>5, <3>1 DEF CursorOK
    <3>2. CASE reader.pc = "next"
      BY <1>5, <2>2, <2>3, <3>2 DEF ShownOnce
    <3> QED BY <1>2, <3>1, <3>2
  <2>5. \A r \in P!Rows : reader'.seen[r] <= 1
    BY <1>9, <2>2, <2>4 DEF ShownOnce
  <2>6. steady' \subseteq list.rows
    BY <1>1, <1>4 DEF ListOK
  <2>7. \A r \in steady' : r \notin P!Matching => reader.seen[r] = 1
    <3>1. CASE reader.pc = "first"
      BY <1>4, <2>3, <3>1
    <3>2. CASE reader.pc = "next"
      <4>1. \A r \in steady : ~ (r < reader.cursor) => reader.seen[r] = 1
        BY <1>2, <1>9, <1>12, <1>1, <2>2, <3>2 DEF ShownOnce, ListOK
      <4> QED BY <1>4, <2>3, <2>6, <3>2, <4>1
    <3> QED BY <1>2, <3>1, <3>2
  <2>8. CASE more
    <3>1. P!NextCursor = next /\ next \in P!Matching /\ next \in P!Rows
      BY <1>5, <1>7, <1>8, <2>8
    <3>2. \A r \in P!Matching : r \in P!Page <=> r >= next
      <4> SUFFICES ASSUME NEW r \in P!Matching PROVE r \in P!Page <=> r >= next
        OBVIOUS
      <4>1. P!Rank(r) \in Nat /\ r \in P!Rows
        BY <1>1, <1>5, RankType
      <4>2. P!Rank(next) = reader.limit - 1
        BY <1>7, <2>8, <3>1
      <4>3. CASE r = next
        BY <1>2, <4>2, <4>3, <1>9, <3>1 DEF P!Page
      <4>4. CASE r > next
        <5>1. P!Rank(r) < P!Rank(next)
          BY <1>1, <2>1, <3>1, <4>1, <4>4, InOrderBefore, RankGrows
        <5> QED BY <1>2, <1>9, <3>1, <4>1, <4>2, <4>4, <5>1 DEF P!Page
      <4>5. CASE next > r
        <5>1. P!Rank(next) < P!Rank(r)
          BY <1>1, <2>1, <3>1, <4>1, <4>5, InOrderBefore, RankGrows
        <5> QED BY <1>2, <1>9, <3>1, <4>1, <4>2, <4>5, <5>1 DEF P!Page
      <4> QED BY <1>9, <3>1, <4>1, <4>3, <4>4, <4>5
    <3>3. \A r \in P!Rows : r < next => reader'.seen[r] = 0
      <4> SUFFICES ASSUME NEW r \in P!Rows, r < next PROVE reader'.seen[r] = 0
        OBVIOUS
      <4>1. r \notin P!Page
        BY <1>5, <1>9, <3>1, <3>2
      <4>2. CASE reader.pc = "first"
        BY <1>1, <1>9, <4>1, <4>2 DEF CursorOK
      <4>3. CASE reader.pc = "next"
        <5>1. r < reader.cursor
          BY <1>1, <1>2, <1>8, <1>9, <2>8, <3>1, <4>3 DEF CursorOK
        <5> QED BY <1>9, <2>2, <4>1, <4>3, <5>1 DEF ShownOnce
      <4> QED BY <1>2, <4>2, <4>3
    <3>4. \A r \in steady' : r >= next => reader'.seen[r] = 1
      <4> SUFFICES ASSUME NEW r \in steady', r >= next PROVE reader'.seen[r] = 1
        OBVIOUS
      <4>1. r \in P!Rows
        BY <1>12, <2>6
      <4>2. CASE r \in P!Matching
        BY <1>9, <2>4, <3>2, <4>1, <4>2
      <4>3. CASE r \notin P!Matching
        BY <1>5, <1>9, <2>7, <4>1, <4>3
      <4> QED BY <4>2, <4>3
    <3> QED BY <1>3, <2>5, <2>8, <3>3, <3>4 DEF ShownOnce
  <2>9. CASE ~ more
    <3>1. P!Page = P!Matching
      BY <1>1, <2>1, <2>9, LastPage
    <3>2. ASSUME NEW r \in steady' PROVE reader'.seen[r] = 1
      <4>1. r \in P!Rows
        BY <1>12, <2>6
      <4> QED BY <1>9, <2>4, <2>7, <3>1, <4>1
    <3> QED BY <1>3, <2>5, <2>9, <3>2 DEF ShownOnce
  <2> QED BY <2>8, <2>9
<1> QED BY <1>13, <1>14, <1>15 DEF PagingInv

LEMMA OthersOK ==
  ASSUME PagingInv, P!CreateRow \/ \E r \in P!Rows : P!DeleteRow(r) \/ \E p \in BOOLEAN : P!PinPost(r, p)
  PROVE  PagingInv'
<1>1. reader' = reader /\ list \in P!List /\ steady \in SUBSET P!Rows /\ ListOK
  BY DEF PagingInv, P!TypeOK, P!CreateRow, P!DeleteRow, P!PinPost
<1>2. list' \in P!List /\ ListOK'
  <2>1. CASE P!CreateRow
    <3>1. PICK h \in SUBSET {list.next} :
             list' = [list EXCEPT !.next = @ + 1, !.rows = @ \cup {list.next}, !.hidden = @ \cup h]
      BY <2>1 DEF P!CreateRow
    <3>5. list.next \in 1..MaxRows + 1 /\ list.next <= MaxRows /\ steady' = steady
      BY <1>1, <2>1 DEF P!CreateRow, P!List
    <3>2. list.next \in P!Rows /\ list.next + 1 \in 1..MaxRows + 1 /\ list.next \in Nat /\ steady' = steady
      BY <3>5, PagingConstants DEF P!Rows
    <3>3. list' \in P!List
      BY <1>1, <3>1, <3>2 DEF P!List
    <3>4. list.rows \cup {list.next} \subseteq 1..(list.next + 1) - 1
      BY <1>1, <3>2 DEF ListOK, P!Rows
    <3> QED BY <1>1, <3>1, <3>2, <3>3, <3>4 DEF ListOK, P!List
  <2>2. CASE \E r \in P!Rows : P!DeleteRow(r)
    BY <1>1, <2>2 DEF P!DeleteRow, P!List, ListOK
  <2>3. CASE \E r \in P!Rows, p \in BOOLEAN : P!PinPost(r, p)
    <3>1. PICK r \in P!Rows, p \in BOOLEAN : P!PinPost(r, p)
      BY <2>3
    <3>2. CASE p
      BY <1>1, <3>1, <3>2 DEF P!PinPost, P!List, ListOK
    <3>3. CASE ~ p
      <4>1. list' = [list EXCEPT !.pinned = @ \ {r}] /\ steady' = steady
        BY <3>1, <3>3 DEF P!PinPost
      <4> QED BY <1>1, <4>1 DEF P!List, ListOK
    <3> QED BY <3>2, <3>3
  <2> QED BY <2>1, <2>2, <2>3
<1>3. steady' \subseteq steady /\ list'.kind = list.kind /\ (list.everPinned => list'.everPinned)
  BY <1>1 DEF P!CreateRow, P!DeleteRow, P!PinPost, P!List
<1>4. P!TypeOK' /\ CursorOK'
  BY <1>1, <1>2, <1>3 DEF PagingInv, P!TypeOK, CursorOK
<1>5. InOrder' => ShownOnce'
  <2>1. InOrder' => InOrder
    BY <1>1, <1>3 DEF InOrder
  <2> QED BY <1>1, <1>3, <2>1 DEF PagingInv, ShownOnce
<1> QED BY <1>2, <1>4, <1>5 DEF PagingInv

LEMMA PagingStutters == PagingInv /\ UNCHANGED listVars => PagingInv'
BY DEF PagingInv, listVars, P!TypeOK, ListOK, CursorOK, InOrder, ShownOnce

LEMMA PagingNext == PagingInv /\ P!Next => PagingInv'
BY ReadPageOK, OthersOK DEF P!Next

LEMMA PagingImplies == PagingInv => P!TypeOK /\ P!PagesAddUp
BY DEF PagingInv, P!PagesAddUp, InOrder, ShownOnce

\* No row of a list is shown twice, and who has come to its end has been shown
\* all that was there throughout, for pages and lists of any size
\* (cursorFilter() and nextCursorFor() of pagination.ts).
THEOREM PagesRight == P!Spec => [](P!TypeOK /\ P!PagesAddUp)
<1>1. PagingInv /\ [P!Next]_P!vars => PagingInv'
  BY PagingNext, PagingStutters DEF P!vars, listVars
<1> QED BY <1>1, PagingInit, PagingImplies, PTL DEF P!Spec

-----------------------------------------------------------------------------
(* A post and its comments                                                 *)

PostsTyped ==
    /\ post \in T!Post /\ thread \in SUBSET T!Comment /\ IsFiniteSet(thread)
    /\ desk \in [T!Actors -> T!Desk]
    /\ hand \in [Writers -> T!Hand] /\ box \in [Writers -> T!Box]
    /\ calls \in 0..MaxCalls
    /\ decided \in {"none", "keep", "remove", "unsure"}
    /\ erased \in Nat /\ late \in Nat

\* Every comment, there or erased, and each to come, has had its request.
Saving == {s \in Writers \X {1, 2} : hand[s[1]][s[2]].pc = "save"}
CallsCounted ==
    /\ IsFiniteSet(Saving) /\ late <= Cardinality(thread)
    /\ Cardinality(thread) + erased + Cardinality(Saving) <= calls

\* A post is created once: the deleted one still has its author.
CreatedOnce ==
    /\ post.there => post.author # NoUser
    /\ post = T!NoPost => thread = {} /\ erased = 0 /\ decided = "none" /\ Saving = {}

CommentsCounted ==
    /\ T!CountAddsUp
    /\ T!BeingDeleted => Cardinality(thread) = late
    /\ \A c \in thread : c[3] < T!Posted(c[1], c[2])

\* What becomes of a member's comments under way.
HandOK(u, i) ==
    LET d == hand[u][i].draft
        kept == T!Posted(u, d) > 0 \/ erased > 0 IN
    /\ d \in 1..box[u].typed
    /\ box[u].draft \in {0, d} \cup box[u].loose
    /\ hand[u][i].pc = "saved" => kept
    /\ hand[u][i].pc = "save" =>
          /\ d = box[u].draft \/ d \in box[u].loose \/ kept
          /\ T!Posted(u, d) = 0 \/ d \in box[u].again
    /\ d = box[u].draft /\ i # box[u].last => d \in box[u].again

\* And of what is in the box.
BoxOK(u) ==
    /\ box[u].draft <= box[u].typed
    /\ \A i \in T!UnderWay(u) : HandOK(u, i)
    /\ T!UnderWay(u) = {1, 2} /\ hand[u][1].draft = hand[u][2].draft =>
          hand[u][1].draft \in box[u].again
    /\ box[u].draft = 0 \/ T!Posted(u, box[u].draft) = 0 \/ box[u].draft \in box[u].again
       \/ T!Pending(u)
    /\ \A d \in T!Drafts :
          /\ d <= box[u].typed \/ T!Posted(u, d) = 0
          /\ T!Posted(u, d) <= 1 \/ d \in box[u].again
    /\ \A d \in 1..box[u].typed :
          \/ box[u].draft = d \/ d \in box[u].loose
          \/ \E i \in T!UnderWay(u) : hand[u][i].draft = d
          \/ T!Posted(u, d) > 0 \/ erased > 0

PostsInv ==
    /\ PostsTyped /\ CallsCounted /\ CreatedOnce /\ CommentsCounted
    /\ T!DecisionStands /\ \A u \in Writers : BoxOK(u)

LEMMA PostsConstants ==
  MaxDrafts \in Nat /\ MaxCalls \in Nat /\ NoUser \notin T!Actors
BY PartsAssumption DEF T!PostsAssumption, T!Actors

LEMMA PostsCounts == \A S : T!Cardinality(S) = Cardinality(S)
BY DEF T!Cardinality, Cardinality

Said(u, d) == {c \in thread : c[1] = u /\ c[2] = d}

LEMMA PostedIs ==
  ASSUME PostsTyped, NEW u, NEW d
  PROVE  /\ T!Posted(u, d) \in Nat
         /\ T!Posted(u, d) = 0 <=> Said(u, d) = {}
         /\ T!Posted(u, d) <= Cardinality(thread)
<1>1. IsFiniteSet(thread) /\ Said(u, d) \in SUBSET thread
  BY DEF PostsTyped, Said
<1>2. IsFiniteSet(Said(u, d)) /\ Cardinality(Said(u, d)) <= Cardinality(thread)
  BY <1>1, FS_Subset
<1>3. Cardinality(Said(u, d)) \in Nat /\ (Cardinality(Said(u, d)) = 0 <=> Said(u, d) = {})
  BY <1>2, FS_CardinalityType, FS_EmptySet
<1> QED BY <1>2, <1>3, PostsCounts DEF T!Posted, Said

LEMMA PostsInit == T!Init => PostsInv
<1> SUFFICES ASSUME T!Init PROVE PostsInv
  OBVIOUS
<1>1. /\ post = T!NoPost /\ thread = {} /\ calls = 0 /\ decided = "none" /\ erased = 0 /\ late = 0
      /\ desk = [a \in T!Actors |-> T!NoDesk] /\ hand = [u \in Writers |-> T!NoHand]
      /\ box = [u \in Writers |->
                 [draft |-> 0, typed |-> 0, last |-> 1, loose |-> {}, again |-> {}]]
  BY DEF T!Init
<1>2. T!NoPost \in T!Post
  BY PostsConstants DEF T!NoPost, T!Post
<1>3. PostsTyped
  <2>1. IsFiniteSet(thread)
    BY <1>1, FS_EmptySet
  <2>2. T!NoDesk \in T!Desk
    BY <1>2 DEF T!NoDesk, T!Desk
  <2>3. T!NoHand \in T!Hand
    BY PostsConstants DEF T!NoHand, T!Hand
  <2>4. [draft |-> 0, typed |-> 0, last |-> 1, loose |-> {}, again |-> {}] \in T!Box
    BY PostsConstants DEF T!Box
  <2> QED BY <1>1, <1>2, <2>1, <2>2, <2>3, <2>4, PostsConstants DEF PostsTyped
<1>4. Cardinality(thread) = 0 /\ \A u, d : T!Posted(u, d) = 0
  <2>1. \A u, d : Said(u, d) = {}
    BY <1>1 DEF Said
  <2> QED BY <1>1, <1>3, <2>1, PostedIs, FS_EmptySet
<1>5. Saving = {} /\ IsFiniteSet(Saving) /\ Cardinality(Saving) = 0
  <2>1. Saving = {}
    BY <1>1 DEF Saving, T!NoHand
  <2> QED BY <2>1, FS_EmptySet
<1>6. CallsCounted /\ CreatedOnce /\ CommentsCounted /\ T!DecisionStands
  BY <1>1, <1>4, <1>5, PostsCounts
  DEF CallsCounted, CreatedOnce, CommentsCounted, T!NoPost, T!CountAddsUp, T!DecisionStands
<1>7. \A u \in Writers : T!UnderWay(u) = {}
  BY <1>1 DEF T!UnderWay, T!NoHand
<1>8. \A u \in Writers : box[u].draft = 0 /\ box[u].typed = 0
  BY <1>1
<1>10. ASSUME NEW u \in Writers PROVE BoxOK(u)
  BY <1>4, <1>7, <1>8 DEF BoxOK
<1> QED BY <1>3, <1>6, <1>10 DEF PostsInv

\* What is said of a member's page keeps while it, his requests and the
\* comments stay.
LEMMA PageKeeps ==
  ASSUME NEW u \in Writers, BoxOK(u), hand'[u] = hand[u], box'[u] = box[u], erased' = erased,
         \A d : T!Posted(u, d)' = T!Posted(u, d)
  PROVE  BoxOK(u)'
<1>1. T!UnderWay(u)' = T!UnderWay(u) /\ T!Pending(u)' = T!Pending(u)
  BY DEF T!UnderWay, T!Pending
<1>2. \A i : HandOK(u, i)' <=> HandOK(u, i)
  BY DEF HandOK
<1> QED BY <1>1, <1>2 DEF BoxOK

LEMMA PostedStays ==
  ASSUME thread' = thread
  PROVE  \A u, d : T!Posted(u, d)' = T!Posted(u, d)
BY DEF T!Posted

\* A step that touches neither the comments nor their requests.
LEMMA PostStep ==
  ASSUME PostsInv, UNCHANGED <<thread, hand, box, erased, late>>,
         post' \in T!Post, desk' \in [T!Actors -> T!Desk],
         calls' \in 0..MaxCalls, calls <= calls',
         decided' \in {"none", "keep", "remove", "unsure"},
         T!BeingDeleted' => T!BeingDeleted,
         post'.there => post'.author # NoUser,
         post' = T!NoPost => post = T!NoPost /\ decided' = decided,
         T!CountAddsUp', T!DecisionStands'
  PROVE  PostsInv'
<1>1. PostsTyped /\ CallsCounted /\ CreatedOnce /\ CommentsCounted /\ \A u \in Writers : BoxOK(u)
  BY DEF PostsInv
<1>2. \A u, d : T!Posted(u, d)' = T!Posted(u, d)
  BY PostedStays
<1>3. PostsTyped'
  BY <1>1 DEF PostsTyped
<1>4. Saving' = Saving
  BY DEF Saving
<1>5. CallsCounted'
  <2>1. Cardinality(thread) \in Nat /\ Cardinality(Saving) \in Nat /\ erased \in Nat /\ calls \in Nat
    BY <1>1, FS_CardinalityType, PostsConstants DEF PostsTyped, CallsCounted
  <2>2. calls' \in Nat
    BY PostsConstants
  <2> QED BY <1>1, <1>4, <2>1, <2>2 DEF CallsCounted
<1>6. CreatedOnce'
  BY <1>1, <1>4 DEF CreatedOnce
<1>7. CommentsCounted'
  <2>1. \A c \in thread' : c[3] < T!Posted(c[1], c[2])'
    BY <1>1, <1>2 DEF CommentsCounted
  <2>2. T!BeingDeleted' => Cardinality(thread)' = late'
    BY <1>1 DEF CommentsCounted
  <2> QED BY <2>1, <2>2 DEF CommentsCounted
<1>8. \A u \in Writers : BoxOK(u)'
  BY <1>1, <1>2, PageKeeps
<1> QED BY <1>3, <1>5, <1>6, <1>7, <1>8 DEF PostsInv

LEMMA PostFields ==
  ASSUME post \in T!Post, NEW v \in BOOLEAN
  PROVE  /\ [post EXCEPT !.there = v] \in T!Post
         /\ [post EXCEPT !["locked"] = v] \in T!Post
         /\ [post EXCEPT !["pinned"] = v] \in T!Post
         /\ [post EXCEPT !["hidden"] = v] \in T!Post
         /\ [post EXCEPT !["hidden"] = v].hidden = v
BY DEF T!Post

LEMMA CreateOK == ASSUME PostsInv, NEW a \in T!Actors, T!Create(a) PROVE PostsInv'
<1>1. /\ UNCHANGED <<thread, desk, hand, box, calls, decided, erased, late>>
      /\ post = T!NoPost
  BY DEF T!Create
<1>2. PICK k \in {"announcement", "discussion"} :
         post' = [T!NoPost EXCEPT !.there = TRUE, !.kind = k, !.author = a]
  BY DEF T!Create
<1>3. /\ post' = [there |-> TRUE, kind |-> k, author |-> a, pinned |-> FALSE, locked |-> FALSE,
                  hidden |-> FALSE, commentCount |-> 0]
      /\ a # NoUser
  BY <1>2, PostsConstants DEF T!NoPost
<1>4. post' \in T!Post
  BY <1>3, PostsConstants DEF T!Post
<1>5. thread = {} /\ erased = 0 /\ decided = "none"
  BY <1>1 DEF PostsInv, CreatedOnce
<1>6. T!CountAddsUp' /\ T!DecisionStands'
  BY <1>1, <1>3, <1>5, FS_EmptySet, PostsCounts DEF T!CountAddsUp, T!DecisionStands
<1>7. T!BeingDeleted
  BY <1>1 DEF T!BeingDeleted, T!NoPost
<1>8. PostsTyped /\ calls <= calls'
  BY <1>1, PostsConstants DEF PostsInv, PostsTyped
<1>9. post' # T!NoPost
  BY <1>3 DEF T!NoPost
<1> QED BY <1>1, <1>3, <1>4, <1>6, <1>7, <1>8, <1>9, PostStep DEF PostsTyped

LEMMA LoadOK ==
  ASSUME PostsInv, NEW a \in T!Actors,
         NEW pc \in {"erase"} \cup T!Updates \cup T!Pins \cup T!Decisions, T!Load(a, pc)
  PROVE  PostsInv'
<1>1. /\ UNCHANGED <<post, thread, hand, box, decided, erased, late>>
      /\ desk' = [desk EXCEPT ![a] = [pc |-> pc, doc |-> post]]
      /\ calls < MaxCalls /\ calls' = calls + 1 /\ post.there
  BY DEF T!Load, T!Calling
<1>2. PostsTyped /\ CommentsCounted /\ CreatedOnce /\ T!DecisionStands
  BY DEF PostsInv
<1>3. desk' \in [T!Actors -> T!Desk]
  <2>1. [pc |-> pc, doc |-> post] \in T!Desk
    BY <1>2 DEF PostsTyped, T!Desk
  <2> QED BY <1>1, <1>2, <2>1 DEF PostsTyped
<1>4. calls' \in 0..MaxCalls /\ calls <= calls'
  BY <1>1, <1>2, PostsConstants DEF PostsTyped
<1>5. T!BeingDeleted' => T!BeingDeleted
  <2>1. pc # "delete"
    BY DEF T!Updates, T!Pins, T!Decisions
  <2> QED BY <1>1, <1>2, <2>1 DEF T!BeingDeleted, PostsTyped
<1>6. T!CountAddsUp' /\ T!DecisionStands'
  BY <1>1, <1>2 DEF T!CountAddsUp, T!DecisionStands, CommentsCounted
<1> QED BY <1>1, <1>2, <1>3, <1>4, <1>5, <1>6, PostStep DEF PostsTyped, CreatedOnce

\* A field of the post is written, and the request is over.
LEMMA PostSaveOK ==
  ASSUME PostsInv, NEW a \in T!Actors, NEW f \in {"locked", "pinned", "hidden"}, NEW v \in BOOLEAN,
         UNCHANGED <<thread, hand, box, calls, erased, late>>, T!Done(a),
         post' = post \/ (post.there /\ post' = [post EXCEPT ![f] = v]),
         decided' \in {"none", "keep", "remove", "unsure"},
         ~ post.there => decided' = decided, T!DecisionStands'
  PROVE  PostsInv'
<1>1. PostsTyped /\ CommentsCounted /\ CreatedOnce
  BY DEF PostsInv
<1>2. /\ post' \in T!Post /\ post'.there = post.there /\ post'.author = post.author
      /\ post'.commentCount = post.commentCount
  <2>1. CASE post' = post
    BY <1>1, <2>1 DEF PostsTyped
  <2>2. CASE post' = [post EXCEPT ![f] = v]
    BY <1>1, <2>2 DEF PostsTyped, T!Post
  <2> QED BY <2>1, <2>2
<1>3. desk' = [desk EXCEPT ![a] = T!NoDesk] /\ T!NoDesk \in T!Desk
  BY PostsConstants DEF T!Done, T!NoDesk, T!Desk, T!NoPost, T!Post
<1>4. desk' \in [T!Actors -> T!Desk]
  BY <1>1, <1>3 DEF PostsTyped
<1>5. T!BeingDeleted' => T!BeingDeleted
  BY <1>1, <1>2, <1>3 DEF T!BeingDeleted, PostsTyped, T!NoDesk
<1>6. T!CountAddsUp'
  BY <1>1, <1>2 DEF T!CountAddsUp, CommentsCounted
<1>7. post' = T!NoPost => post = T!NoPost /\ decided' = decided
  BY <1>2 DEF T!NoPost
<1>8. calls' \in 0..MaxCalls /\ calls <= calls'
  BY <1>1, PostsConstants DEF PostsTyped
<1>9. post'.there => post'.author # NoUser
  BY <1>1, <1>2 DEF CreatedOnce
<1> QED BY <1>2, <1>4, <1>5, <1>6, <1>7, <1>8, <1>9, PostStep

LEMMA SavesOK ==
  ASSUME PostsInv, NEW a \in T!Actors, T!SaveUpdate(a) \/ T!SavePin(a) \/ T!SaveDecision(a)
  PROVE  PostsInv'
<1>1. PostsTyped /\ T!DecisionStands /\ desk[a] \in T!Desk
  BY DEF PostsInv, PostsTyped
<1>2. CASE T!SaveUpdate(a)
  <2>1. UNCHANGED <<thread, hand, box, calls, decided, erased, late>> /\ T!Done(a)
    BY <1>2 DEF T!SaveUpdate
  <2>2. PICK v \in BOOLEAN : v <=> desk[a].pc = "lock"
    OBVIOUS
  <2>3. post' = post \/ (post.there /\ post' = [post EXCEPT !["locked"] = v])
    <3>1. UNCHANGED post \/ (post.there /\ T!Set("locked", desk[a].pc = "lock", desk[a].doc))
      BY <1>2 DEF T!SaveUpdate
    <3>2. v = (desk[a].pc = "lock")
      BY <2>2
    <3>3. UNCHANGED post \/ (post.there /\ T!Set("locked", v, desk[a].doc))
      BY <3>1, <3>2
    <3> QED BY <3>3 DEF T!Set
  <2>4. post'.there = post.there /\ post'.hidden = post.hidden
    BY <1>1, <2>3 DEF PostsTyped, T!Post
  <2> QED BY <1>1, <2>1, <2>3, <2>4, PostSaveOK DEF PostsTyped, T!DecisionStands
<1>3. CASE T!SavePin(a)
  <2>1. UNCHANGED <<thread, hand, box, calls, decided, erased, late>> /\ T!Done(a)
    BY <1>3 DEF T!SavePin
  <2>2. PICK v \in BOOLEAN : v <=> desk[a].pc = "pin"
    OBVIOUS
  <2>3. post' = post \/ (post.there /\ post' = [post EXCEPT !["pinned"] = v])
    <3>1. UNCHANGED post \/ (post.there /\ T!Set("pinned", desk[a].pc = "pin", desk[a].doc))
      BY <1>3 DEF T!SavePin
    <3>2. v = (desk[a].pc = "pin")
      BY <2>2
    <3>3. UNCHANGED post \/ (post.there /\ T!Set("pinned", v, desk[a].doc))
      BY <3>1, <3>2
    <3> QED BY <3>3 DEF T!Set
  <2>4. post'.there = post.there /\ post'.hidden = post.hidden
    BY <1>1, <2>3 DEF PostsTyped, T!Post
  <2> QED BY <1>1, <2>1, <2>3, <2>4, PostSaveOK DEF PostsTyped, T!DecisionStands
<1>4. CASE T!SaveDecision(a)
  <2>1. UNCHANGED <<thread, hand, box, calls, erased, late>> /\ T!Done(a)
    BY <1>4 DEF T!SaveDecision
  <2>2. CASE post.there /\ desk[a].pc # "warn"
    <3>1. PICK hide \in BOOLEAN : hide <=> desk[a].pc = "remove"
      OBVIOUS
    <3>2. hide = (desk[a].pc = "remove")
      BY <3>1
    <3>3. /\ T!Set("hidden", hide, desk[a].doc)
          /\ decided' = IF desk[a].doc.hidden = hide /\ post.hidden # hide THEN "unsure"
                        ELSE desk[a].pc
      BY <1>4, <2>2, <3>2 DEF T!SaveDecision
    <3>4. desk[a].pc \in {"keep", "remove"}
      BY <1>4, <2>2 DEF T!SaveDecision, T!Decisions
    <3>5. post' = post \/ (post.there /\ post' = [post EXCEPT !["hidden"] = hide])
      BY <2>2, <3>3 DEF T!Set
    <3>6. decided' = "unsure" \/ (decided' = desk[a].pc /\ post'.hidden = hide)
      <4>1. CASE desk[a].doc.hidden = hide
        BY <3>3, <4>1 DEF T!Set
      <4>2. CASE desk[a].doc.hidden # hide
        <5>1. post' = [post EXCEPT !["hidden"] = hide]
          BY <3>3, <4>2 DEF T!Set
        <5>2. post'.hidden = hide
          BY <1>1, <5>1, PostFields DEF PostsTyped
        <5> QED BY <3>3, <4>2, <5>2
      <4> QED BY <4>1, <4>2
    <3>7. T!DecisionStands' /\ decided' \in {"none", "keep", "remove", "unsure"}
      BY <3>1, <3>4, <3>6 DEF T!DecisionStands
    <3> QED BY <2>1, <2>2, <3>5, <3>7, PostSaveOK
  <2>3. CASE ~ (post.there /\ desk[a].pc # "warn")
    <3>1. post' = post /\ decided' = decided
      BY <1>4, <2>3 DEF T!SaveDecision
    <3>2. T!DecisionStands' /\ decided' \in {"none", "keep", "remove", "unsure"}
      BY <1>1, <3>1 DEF PostsTyped, T!DecisionStands
    <3> QED BY <2>1, <3>1, <3>2, PostSaveOK
  <2> QED BY <2>2, <2>3
<1> QED BY <1>2, <1>3, <1>4

LEMMA PostDeleteOK == ASSUME PostsInv, NEW a \in T!Actors, T!Delete(a) PROVE PostsInv'
<1>1. PostsTyped /\ CommentsCounted /\ CreatedOnce /\ T!DecisionStands
  BY DEF PostsInv
<1>2. /\ UNCHANGED <<thread, hand, box, calls, decided, erased, late>>
      /\ desk[a].pc = "delete" /\ desk' = [desk EXCEPT ![a] = T!NoDesk]
      /\ post' = post \/ post' = [post EXCEPT !.there = FALSE]
  BY DEF T!Delete, T!Done
<1>3. /\ post' \in T!Post /\ post'.there \in {post.there, FALSE} /\ post'.author = post.author
      /\ post'.commentCount = post.commentCount /\ post'.hidden = post.hidden
      /\ post'.there = post.there => post' = post
  <2>1. CASE post' = post
    BY <1>1, <2>1 DEF PostsTyped
  <2>2. CASE post' = [post EXCEPT !.there = FALSE]
    BY <1>1, <2>2 DEF PostsTyped, T!Post
  <2> QED BY <1>2, <2>1, <2>2
<1>4. T!NoDesk \in T!Desk
  BY PostsConstants DEF T!NoDesk, T!Desk, T!NoPost, T!Post
<1>5. desk' \in [T!Actors -> T!Desk]
  BY <1>1, <1>2, <1>4 DEF PostsTyped
<1>6. T!BeingDeleted
  BY <1>2 DEF T!BeingDeleted
<1>7. T!CountAddsUp' /\ T!DecisionStands'
  BY <1>1, <1>2, <1>3 DEF T!CountAddsUp, CommentsCounted, T!DecisionStands
<1>8. post' = T!NoPost => post = T!NoPost
  <2>1. SUFFICES ASSUME post' = T!NoPost PROVE post = T!NoPost
    OBVIOUS
  <2>2. post'.author = NoUser /\ post'.there = FALSE
    BY <2>1 DEF T!NoPost
  <2>3. post.there = FALSE
    BY <1>1, <1>3, <2>2 DEF CreatedOnce, PostsTyped, T!Post
  <2> QED BY <1>3, <2>1, <2>2, <2>3
<1>9. post'.there => post'.author # NoUser
  BY <1>1, <1>3 DEF CreatedOnce
<1>10. calls' \in 0..MaxCalls /\ calls <= calls'
  BY <1>1, <1>2, PostsConstants DEF PostsTyped
<1> QED BY <1>1, <1>2, <1>3, <1>5, <1>6, <1>7, <1>8, <1>9, <1>10, PostStep DEF PostsTyped

LEMMA CountsThere ==
  ASSUME PostsInv
  PROVE  /\ PostsTyped /\ CallsCounted /\ CreatedOnce /\ CommentsCounted /\ T!DecisionStands
         /\ \A u \in Writers : BoxOK(u)
         /\ IsFiniteSet(thread) /\ IsFiniteSet(Saving)
         /\ Cardinality(thread) \in Nat /\ Cardinality(Saving) \in Nat
         /\ erased \in Nat /\ late \in Nat /\ calls \in Nat /\ calls <= MaxCalls
         /\ late <= Cardinality(thread)
         /\ Cardinality(thread) + erased + Cardinality(Saving) <= calls
BY FS_CardinalityType, PostsConstants DEF PostsInv, PostsTyped, CallsCounted

\* The first step of a deletion.
LEMMA EraseOK == ASSUME PostsInv, NEW a \in T!Actors, T!Erase(a) PROVE PostsInv'
<1>1. /\ thread' = {} /\ late' = 0 /\ erased' = erased + Cardinality(thread)
      /\ desk' = [desk EXCEPT ![a].pc = "delete"]
      /\ UNCHANGED <<post, hand, box, calls, decided>>
  BY PostsCounts DEF T!Erase
<1>2. PostsTyped'
  <2>1. desk' \in [T!Actors -> T!Desk]
    BY <1>1, CountsThere DEF PostsTyped, T!Desk
  <2> QED BY <1>1, <2>1, CountsThere, FS_EmptySet DEF PostsTyped
<1>3. Cardinality(thread') = 0 /\ \A u, d : T!Posted(u, d)' = 0
  <2>1. {} = {c \in {} : FALSE}
    OBVIOUS
  <2>2. \A u, d : Said(u, d)' = {}
    BY <1>1 DEF Said
  <2>3. PostsTyped' => \A u, d : T!Posted(u, d)' = 0
    <3>1. \A u, d : Cardinality(Said(u, d)') = 0
      BY <2>2, FS_EmptySet
    <3>2. \A u, d : T!Posted(u, d)' = Cardinality(Said(u, d)')
      BY PostsCounts DEF T!Posted, Said
    <3> QED BY <3>1, <3>2
  <2> QED BY <1>1, <1>2, <2>3, FS_EmptySet
<1>4. Saving' = Saving
  BY <1>1 DEF Saving
<1>5. CallsCounted' /\ CreatedOnce'
  <2>1. thread = {} => erased' = erased
    BY <1>1, CountsThere, FS_EmptySet
  <2> QED BY <1>1, <1>3, <1>4, <2>1, CountsThere DEF CallsCounted, CreatedOnce
<1>6. CommentsCounted'
  BY <1>1, <1>3, CountsThere, PostsCounts DEF CommentsCounted, T!CountAddsUp
<1>7. T!DecisionStands'
  BY <1>1, CountsThere DEF T!DecisionStands
<1>8. ASSUME NEW u \in Writers PROVE BoxOK(u)'
  <2>1. hand'[u] = hand[u] /\ box'[u] = box[u] /\ BoxOK(u)
    BY <1>1, CountsThere
  <2>2. T!UnderWay(u)' = T!UnderWay(u) /\ T!Pending(u)' = T!Pending(u)
    BY <2>1 DEF T!UnderWay, T!Pending
  <2>3. \A d : T!Posted(u, d) > 0 \/ erased > 0 => erased' > 0
    BY <1>1, CountsThere, PostedIs
  <2>4. \A i : HandOK(u, i) => HandOK(u, i)'
    BY <1>3, <2>1, <2>3 DEF HandOK
  <2> QED BY <1>3, <2>1, <2>2, <2>3, <2>4 DEF BoxOK
<1> QED BY <1>2, <1>5, <1>6, <1>7, <1>8 DEF PostsInv

\* A step of one member's page alone.
LEMMA PageStep ==
  ASSUME PostsInv, NEW u \in Writers,
         UNCHANGED <<post, thread, desk, decided, erased, late>>,
         hand' \in [Writers -> T!Hand], box' \in [Writers -> T!Box],
         \A v \in Writers \ {u} : hand'[v] = hand[v] /\ box'[v] = box[v],
         calls' \in 0..MaxCalls,
         IsFiniteSet(Saving'),
         Cardinality(Saving') + calls <= Cardinality(Saving) + calls',
         post = T!NoPost => Saving' = {},
         BoxOK(u)'
  PROVE  PostsInv'
<1>1. \A v, d : T!Posted(v, d)' = T!Posted(v, d)
  BY PostedStays
<1>2. PostsTyped'
  BY CountsThere DEF PostsTyped
<1>3. CallsCounted'
  <2>1. Cardinality(Saving') \in Nat /\ calls' \in Nat
    BY FS_CardinalityType, PostsConstants
  <2> QED BY <2>1, CountsThere DEF CallsCounted
<1>4. CreatedOnce'
  BY CountsThere DEF CreatedOnce
<1>5. CommentsCounted'
  <2>1. \A c \in thread' : c[3] < T!Posted(c[1], c[2])'
    BY <1>1, CountsThere DEF CommentsCounted
  <2> QED BY <2>1, CountsThere DEF CommentsCounted, T!CountAddsUp, T!BeingDeleted
<1>6. T!DecisionStands'
  BY CountsThere DEF T!DecisionStands
<1>7. ASSUME NEW v \in Writers PROVE BoxOK(v)'
  <2>1. CASE v = u
    BY <2>1
  <2>2. CASE v # u
    BY <1>1, <2>2, CountsThere, PageKeeps
  <2> QED BY <2>1, <2>2
<1> QED BY <1>2, <1>3, <1>4, <1>5, <1>6, <1>7 DEF PostsInv

LEMMA BoxThere ==
  ASSUME PostsInv, NEW u \in Writers
  PROVE  /\ hand[u] \in T!Hand /\ box[u] \in T!Box /\ BoxOK(u)
         /\ box[u].typed \in 0..MaxDrafts /\ box[u].draft \in 0..box[u].typed
         /\ box[u].last \in {1, 2}
         /\ T!UnderWay(u) \subseteq {1, 2}
         /\ \A i \in {1, 2} : i \in T!UnderWay(u) <=> hand[u][i].pc # "idle"
         /\ \A i \in T!UnderWay(u) : HandOK(u, i)
         /\ \A d : T!Posted(u, d) \in Nat
<1>1. BoxOK(u) /\ hand[u] \in T!Hand /\ box[u] \in T!Box
  BY CountsThere DEF PostsTyped
<1>2. box[u].typed \in 0..MaxDrafts /\ box[u].draft \in 0..MaxDrafts /\ box[u].last \in {1, 2}
  BY <1>1 DEF T!Box
<1>3. box[u].draft \in 0..box[u].typed
  BY <1>1, <1>2, PostsConstants DEF BoxOK
<1> QED BY <1>1, <1>2, <1>3, CountsThere, PostedIs DEF BoxOK, T!UnderWay

LEMMA WriteOK == ASSUME PostsInv, NEW u \in Writers, T!Write(u) PROVE PostsInv'
<1>13. PICK n, loose : /\ n = box[u].typed + 1
                       /\ loose = IF T!UnderWay(u) = {} THEN box[u].loose
                                  ELSE box[u].loose \cup ({box[u].draft, n} \ {0})
  OBVIOUS
<1>1. /\ UNCHANGED <<post, thread, desk, hand, calls, decided, erased, late>>
      /\ box[u].typed < MaxDrafts /\ (box[u].draft = 0 \/ T!Pending(u))
      /\ box' = [box EXCEPT ![u].draft = n, ![u].typed = n, ![u].loose = loose]
  BY <1>13 DEF T!Write
<1>2. box \in [Writers -> T!Box] /\ hand \in [Writers -> T!Hand] /\ calls \in 0..MaxCalls
  BY CountsThere DEF PostsTyped
<1>3. n \in 1..MaxDrafts /\ loose \in SUBSET T!Drafts
  <2>1. box[u].loose \in SUBSET T!Drafts
    BY <1>2 DEF T!Box
  <2>2. n \in 1..MaxDrafts /\ ({box[u].draft, n} \ {0}) \subseteq T!Drafts
    BY <1>1, <1>13, BoxThere, PostsConstants DEF T!Drafts
  <2> QED BY <1>13, <2>1, <2>2
<1>4. /\ box'[u] \in T!Box /\ box'[u].draft = n /\ box'[u].typed = n /\ box'[u].loose = loose
      /\ box'[u].last = box[u].last /\ box'[u].again = box[u].again
      /\ \A v \in Writers \ {u} : box'[v] = box[v]
  <2>1. /\ box'[u] = [box[u] EXCEPT !.draft = n, !.typed = n, !.loose = loose]
        /\ box[u] \in T!Box
    BY <1>1, <1>2
  <2>2. n \in 0..MaxDrafts
    BY <1>3
  <2>3. PICK b, c : b = box[u] /\ c = box'[u]
    OBVIOUS
  <2>4. c = [b EXCEPT !.draft = n, !.typed = n, !.loose = loose] /\ b \in T!Box
    BY <2>1, <2>3
  <2>5. /\ c \in T!Box /\ c.draft = n /\ c.typed = n /\ c.loose = loose
        /\ c.last = b.last /\ c.again = b.again
    BY <1>3, <2>2, <2>4 DEF T!Box
  <2> QED BY <1>1, <1>2, <2>3, <2>5
<1>5. box' \in [Writers -> T!Box]
  BY <1>1, <1>2, <1>4
<1>6. Saving' = Saving
  BY <1>1 DEF Saving
<1>7. /\ \A v, d : T!Posted(v, d)' = T!Posted(v, d)
      /\ T!UnderWay(u)' = T!UnderWay(u) /\ hand'[u] = hand[u] /\ erased' = erased
  BY <1>1, PostedStays DEF T!UnderWay
<1>8. /\ box[u].typed \in Nat /\ box[u].draft \in Nat /\ box[u].draft <= box[u].typed
      /\ \A i \in T!UnderWay(u) : hand[u][i].draft \in Nat /\ hand[u][i].draft <= box[u].typed
  BY BoxThere, PostsConstants DEF HandOK
<1>9. T!Posted(u, n) = 0
  <2>1. n \in T!Drafts /\ ~ (n <= box[u].typed)
    BY <1>3, <1>8, <1>13 DEF T!Drafts
  <2> QED BY <2>1, CountsThere DEF BoxOK
<1>10. ASSUME NEW i \in T!UnderWay(u) PROVE HandOK(u, i)'
  <2>1. loose = box[u].loose \cup ({box[u].draft, n} \ {0})
    BY <1>13
  <2>2. HandOK(u, i) /\ hand[u][i].draft \in 1..n /\ hand[u][i].draft # n /\ hand[u][i].draft # 0
    BY <1>8, <1>13, BoxThere DEF HandOK
  <2>3. n # 0
    BY <1>3
  <2>4. n \in loose /\ (hand[u][i].draft = box[u].draft => hand[u][i].draft \in loose)
    BY <2>1, <2>2, <2>3
  <2> QED BY <1>4, <1>7, <2>1, <2>2, <2>4 DEF HandOK
<1>11. BoxOK(u)'
  <2>1. BoxOK(u)
    BY CountsThere
  <2>2. n <= n /\ n \in Nat /\ box[u].typed \in Nat
    BY <1>8, <1>13
  <2>3. \A d \in T!Drafts : d <= n \/ T!Posted(u, d) = 0
    <3>1. \A d \in T!Drafts : d <= box[u].typed => d <= n
      BY <1>8, <1>13, PostsConstants DEF T!Drafts
    <3> QED BY <2>1, <3>1 DEF BoxOK
  <2>4. ASSUME NEW d \in 1..n
        PROVE  \/ n = d \/ d \in loose
               \/ \E i \in T!UnderWay(u) : hand[u][i].draft = d
               \/ T!Posted(u, d) > 0 \/ erased > 0
    <3>1. CASE d = n
      BY <3>1
    <3>2. CASE d # n
      <4>1. d \in 1..box[u].typed
        BY <1>8, <1>13, <3>2
      <4>2. CASE box[u].draft # d
        <5>1. \/ box[u].draft = d \/ d \in box[u].loose
              \/ \E i \in T!UnderWay(u) : hand[u][i].draft = d
              \/ T!Posted(u, d) > 0 \/ erased > 0
          BY <2>1, <4>1 DEF BoxOK
        <5> QED BY <1>13, <4>2, <5>1
      <4>3. CASE box[u].draft = d
        <5>1. T!Pending(u)
          BY <1>1, <4>1, <4>3
        <5> QED BY <4>3, <5>1 DEF T!Pending
      <4> QED BY <4>2, <4>3
    <3> QED BY <3>1, <3>2
  <2> QED BY <1>4, <1>7, <1>9, <1>10, <2>1, <2>2, <2>3, <2>4 DEF BoxOK
<1>12. /\ IsFiniteSet(Saving') /\ (post = T!NoPost => Saving' = {})
       /\ Cardinality(Saving') + calls <= Cardinality(Saving) + calls'
       /\ calls' \in 0..MaxCalls
  BY <1>1, <1>2, <1>6, CountsThere DEF CreatedOnce
<1> QED BY <1>1, <1>2, <1>4, <1>5, <1>11, <1>12, PageStep

LEMMA BeginCommentOK ==
  ASSUME PostsInv, NEW u \in Writers, NEW i \in {1, 2}, T!BeginComment(u, i)
  PROVE  PostsInv'
<1>13. PICK d, again : /\ d = box[u].draft
                       /\ again = IF T!Pending(u) THEN box[u].again \cup {box[u].draft}
                                  ELSE box[u].again
  OBVIOUS
<1>1. /\ UNCHANGED <<post, thread, desk, decided, erased, late>>
      /\ d # 0 /\ hand[u][i].pc = "idle" /\ calls < MaxCalls /\ calls' = calls + 1 /\ post.there
      /\ hand' = [hand EXCEPT ![u][i] = [pc |-> "save", draft |-> d]]
      /\ box' = [box EXCEPT ![u].last = i, ![u].again = again]
  BY <1>13 DEF T!BeginComment, T!Calling
<1>2. box \in [Writers -> T!Box] /\ hand \in [Writers -> T!Hand] /\ calls \in 0..MaxCalls
  BY CountsThere DEF PostsTyped
<1>3. /\ d \in 1..box[u].typed /\ d \in T!Drafts /\ d \in 0..MaxDrafts /\ box[u].typed \in 0..MaxDrafts
      /\ again \in SUBSET T!Drafts /\ box[u].again \subseteq again
      /\ T!Pending(u) => d \in again
  <2>1. box[u].again \in SUBSET T!Drafts
    BY <1>2 DEF T!Box
  <2>2. d \in 1..box[u].typed /\ d \in T!Drafts /\ d \in 0..MaxDrafts /\ box[u].typed \in 0..MaxDrafts
    BY <1>1, <1>13, BoxThere, PostsConstants DEF T!Drafts
  <2> QED BY <1>13, <2>1, <2>2
<1>4. /\ box'[u] \in T!Box /\ box'[u].draft = d /\ box'[u].typed = box[u].typed
      /\ box'[u].loose = box[u].loose /\ box'[u].last = i /\ box'[u].again = again
  <2>1. box'[u] = [box[u] EXCEPT !.last = i, !.again = again] /\ box[u] \in T!Box
    BY <1>1, <1>2
  <2>3. PICK b, c : b = box[u] /\ c = box'[u]
    OBVIOUS
  <2>4. c = [b EXCEPT !.last = i, !.again = again] /\ b \in T!Box
    BY <2>1, <2>3
  <2>5. /\ c \in T!Box /\ c.draft = b.draft /\ c.typed = b.typed /\ c.loose = b.loose
        /\ c.last = i /\ c.again = again
    BY <1>3, <2>4 DEF T!Box
  <2> QED BY <1>13, <2>3, <2>5
<1>5. /\ hand'[u][i] = [pc |-> "save", draft |-> d]
      /\ \A j \in {1, 2} \ {i} : hand'[u][j] = hand[u][j]
      /\ hand' \in [Writers -> T!Hand] /\ box' \in [Writers -> T!Box]
      /\ \A v \in Writers \ {u} : hand'[v] = hand[v] /\ box'[v] = box[v]
  <2>1. hand'[u] = [hand[u] EXCEPT ![i] = [pc |-> "save", draft |-> d]] /\ hand[u] \in T!Hand
    BY <1>1, <1>2
  <2>2. [pc |-> "save", draft |-> d] \in [pc : {"idle", "save", "saved"}, draft : 0..MaxDrafts]
    BY <1>3
  <2>3. /\ hand'[u] \in T!Hand /\ hand'[u][i] = [pc |-> "save", draft |-> d]
        /\ \A j \in {1, 2} \ {i} : hand'[u][j] = hand[u][j]
    BY <2>1, <2>2 DEF T!Hand
  <2> QED BY <1>1, <1>2, <1>4, <2>3
<1>6. /\ Saving' = Saving \cup {<<u, i>>} /\ <<u, i>> \notin Saving
  <2>1. ASSUME NEW s \in Writers \X {1, 2}
        PROVE  s \in Saving' <=> s \in Saving \cup {<<u, i>>}
    <3>1. PICK v \in Writers, j \in {1, 2} : s = <<v, j>>
      BY <2>1
    <3>2. CASE v = u /\ j = i
      BY <1>5, <3>1, <3>2 DEF Saving
    <3>3. CASE ~ (v = u /\ j = i)
      <4>1. hand'[v][j] = hand[v][j]
        BY <1>5, <3>3
      <4> QED BY <3>1, <3>3, <4>1 DEF Saving
    <3> QED BY <3>2, <3>3
  <2>2. Saving' \subseteq Writers \X {1, 2} /\ Saving \subseteq Writers \X {1, 2}
    BY DEF Saving
  <2>3. <<u, i>> \notin Saving
    BY <1>1 DEF Saving
  <2> QED BY <2>1, <2>2, <2>3
<1>7. \A v, e : T!Posted(v, e)' = T!Posted(v, e)
  BY <1>1, PostedStays
<1>8. /\ i \notin T!UnderWay(u) /\ T!UnderWay(u)' = T!UnderWay(u) \cup {i}
      /\ \A j \in T!UnderWay(u) : j # i /\ hand'[u][j] = hand[u][j]
  BY <1>1, <1>5, BoxThere DEF T!UnderWay
<1>9. T!Posted(u, d) = 0 \/ d \in again
  <2>1. BoxOK(u)
    BY CountsThere
  <2> QED BY <1>1, <1>3, <1>13, <2>1 DEF BoxOK
<1>10. ASSUME NEW j \in T!UnderWay(u)' PROVE HandOK(u, j)'
  <2>1. CASE j = i
    BY <1>3, <1>4, <1>5, <1>7, <1>9, <2>1 DEF HandOK
  <2>2. CASE j # i
    <3>1. HandOK(u, j) /\ hand'[u][j] = hand[u][j] /\ j \in T!UnderWay(u)
      BY <1>8, <2>2, BoxThere
    <3>2. hand[u][j].draft = d => d \in again
      BY <1>3, <1>13, <3>1 DEF T!Pending
    <3> QED BY <1>1, <1>3, <1>4, <1>7, <1>13, <3>1, <3>2 DEF HandOK
  <2> QED BY <2>1, <2>2
<1>11. BoxOK(u)'
  <2>1. BoxOK(u)
    BY CountsThere
  <2>2. T!UnderWay(u)' = {1, 2} /\ hand'[u][1].draft = hand'[u][2].draft => hand'[u][1].draft \in again
    <3>1. SUFFICES ASSUME T!UnderWay(u)' = {1, 2}, hand'[u][1].draft = hand'[u][2].draft
                   PROVE  hand'[u][1].draft \in again
      OBVIOUS
    <3>2. PICK j \in {1, 2} : j # i
      OBVIOUS
    <3>3. j \in T!UnderWay(u) /\ hand[u][j].draft = d /\ hand'[u][1].draft = d
      BY <1>5, <1>8, <3>1, <3>2
    <3> QED BY <1>3, <1>13, <3>3 DEF T!Pending
  <2>3. T!Pending(u)'
    BY <1>4, <1>5, <1>8 DEF T!Pending
  <2>4. ASSUME NEW e \in 1..box[u].typed
        PROVE  \/ d = e \/ e \in box[u].loose
               \/ \E j \in T!UnderWay(u)' : hand'[u][j].draft = e
               \/ T!Posted(u, e) > 0 \/ erased > 0
    <3>1. \/ d = e \/ e \in box[u].loose
          \/ \E j \in T!UnderWay(u) : hand[u][j].draft = e
          \/ T!Posted(u, e) > 0 \/ erased > 0
      BY <1>13, <2>1 DEF BoxOK
    <3> QED BY <1>8, <3>1
  <2>5. d <= box[u].typed
    BY <1>3
  <2>6. \A e \in T!Drafts : /\ e <= box[u].typed \/ T!Posted(u, e) = 0
                            /\ T!Posted(u, e) <= 1 \/ e \in again
    BY <1>3, <2>1 DEF BoxOK
  <2> QED BY <1>1, <1>4, <1>7, <1>10, <2>2, <2>3, <2>4, <2>5, <2>6 DEF BoxOK
<1>12. /\ IsFiniteSet(Saving') /\ (post = T!NoPost => Saving' = {})
       /\ Cardinality(Saving') + calls <= Cardinality(Saving) + calls'
       /\ calls' \in 0..MaxCalls
  <2>1. post # T!NoPost
    BY <1>1 DEF T!NoPost
  <2>2. IsFiniteSet(Saving') /\ Cardinality(Saving') = Cardinality(Saving) + 1
    BY <1>6, CountsThere, FS_AddElement
  <2> QED BY <1>1, <1>2, <2>1, <2>2, CountsThere, PostsConstants
<1> QED BY <1>1, <1>5, <1>11, <1>12, PageStep

\* One of a member's requests ends, its comment saved or not.
LEMMA HandEnds ==
  ASSUME PostsInv, NEW u \in Writers, NEW i \in {1, 2}, hand' = [hand EXCEPT ![u][i] = T!NoHand[i]]
  PROVE  /\ hand' \in [Writers -> T!Hand]
         /\ \A v \in Writers \ {u} : hand'[v] = hand[v]
         /\ T!UnderWay(u)' = T!UnderWay(u) \ {i}
         /\ \A j \in T!UnderWay(u)' : hand'[u][j] = hand[u][j]
         /\ Saving' = Saving \ {<<u, i>>}
         /\ IsFiniteSet(Saving') /\ Cardinality(Saving') <= Cardinality(Saving)
<1>1. hand \in [Writers -> T!Hand]
  BY CountsThere DEF PostsTyped
<1>2. T!NoHand[i] = [pc |-> "idle", draft |-> 0]
  BY DEF T!NoHand
<1>3. /\ hand'[u] \in T!Hand /\ hand'[u][i].pc = "idle"
      /\ \A j \in {1, 2} \ {i} : hand'[u][j] = hand[u][j]
  <2>1. hand'[u] = [hand[u] EXCEPT ![i] = [pc |-> "idle", draft |-> 0]] /\ hand[u] \in T!Hand
    BY <1>1, <1>2
  <2>2. [pc |-> "idle", draft |-> 0] \in [pc : {"idle", "save", "saved"}, draft : 0..MaxDrafts]
    BY PostsConstants
  <2> QED BY <2>1, <2>2 DEF T!Hand
<1>4. hand' \in [Writers -> T!Hand] /\ \A v \in Writers \ {u} : hand'[v] = hand[v]
  BY <1>1, <1>3
<1>5. T!UnderWay(u)' = T!UnderWay(u) \ {i} /\ \A j \in T!UnderWay(u)' : hand'[u][j] = hand[u][j]
  BY <1>3 DEF T!UnderWay
<1>6. Saving' = Saving \ {<<u, i>>}
  <2>1. ASSUME NEW s \in Writers \X {1, 2}
        PROVE  s \in Saving' <=> s \in Saving \ {<<u, i>>}
    <3>1. PICK v \in Writers, j \in {1, 2} : s = <<v, j>>
      BY <2>1
    <3>2. CASE v = u /\ j = i
      BY <1>3, <3>1, <3>2 DEF Saving
    <3>3. CASE ~ (v = u /\ j = i)
      <4>1. hand'[v][j] = hand[v][j]
        BY <1>3, <1>4, <3>3
      <4> QED BY <3>1, <3>3, <4>1 DEF Saving
    <3> QED BY <3>2, <3>3
  <2>2. Saving' \subseteq Writers \X {1, 2} /\ Saving \subseteq Writers \X {1, 2}
    BY DEF Saving
  <2> QED BY <2>1, <2>2
<1>7. IsFiniteSet(Saving') /\ Cardinality(Saving') <= Cardinality(Saving)
  BY <1>6, CountsThere, FS_Subset
<1> QED BY <1>4, <1>5, <1>6, <1>7

LEMMA SaveFailsOK ==
  ASSUME PostsInv, NEW u \in Writers, NEW i \in {1, 2}, hand[u][i].pc = "save",
         hand' = [hand EXCEPT ![u][i] = T!NoHand[i]],
         UNCHANGED <<thread, post, late, desk, box, calls, decided, erased>>
  PROVE  PostsInv'
<1>1. /\ hand' \in [Writers -> T!Hand] /\ \A v \in Writers \ {u} : hand'[v] = hand[v]
      /\ T!UnderWay(u)' = T!UnderWay(u) \ {i} /\ \A j \in T!UnderWay(u)' : hand'[u][j] = hand[u][j]
      /\ Saving' \subseteq Saving
      /\ IsFiniteSet(Saving') /\ Cardinality(Saving') <= Cardinality(Saving)
  BY HandEnds
<1>2. BoxOK(u) /\ i \in T!UnderWay(u) /\ HandOK(u, i)
  BY BoxThere
<1>3. \A v, e : T!Posted(v, e)' = T!Posted(v, e)
  BY PostedStays
<1>4. \A j \in T!UnderWay(u)' : HandOK(u, j)'
  BY <1>1, <1>2, <1>3 DEF HandOK, BoxOK
<1>5. BoxOK(u)'
  <2>1. ~ (T!UnderWay(u)' = {1, 2})
    BY <1>1
  <2>2. T!Posted(u, box[u].draft) = 0 \/ box[u].draft \in {0} \cup box[u].again \/ T!Pending(u)'
    <3>1. SUFFICES ASSUME T!Pending(u), ~ T!Pending(u)'
                   PROVE  T!Posted(u, box[u].draft) = 0 \/ box[u].draft \in box[u].again
      BY <1>2 DEF BoxOK
    <3>2. hand[u][i].draft = box[u].draft
      BY <1>1, <3>1 DEF T!Pending
    <3> QED BY <1>2, <3>2 DEF HandOK
  <2>3. ASSUME NEW e \in 1..box[u].typed
        PROVE  \/ box[u].draft = e \/ e \in box[u].loose
               \/ \E j \in T!UnderWay(u)' : hand'[u][j].draft = e
               \/ T!Posted(u, e) > 0 \/ erased > 0
    <3>1. \/ box[u].draft = e \/ e \in box[u].loose
          \/ \E j \in T!UnderWay(u) : hand[u][j].draft = e
          \/ T!Posted(u, e) > 0 \/ erased > 0
      BY <1>2 DEF BoxOK
    <3>2. hand[u][i].draft = e => \/ box[u].draft = e \/ e \in box[u].loose
                                  \/ T!Posted(u, e) > 0 \/ erased > 0
      BY <1>2 DEF HandOK
    <3> QED BY <1>1, <3>1, <3>2
  <2> QED BY <1>2, <1>3, <1>4, <2>1, <2>2, <2>3 DEF BoxOK
<1>6. /\ post = T!NoPost => Saving' = {}
      /\ Cardinality(Saving') \in Nat /\ Cardinality(Saving') + calls <= Cardinality(Saving) + calls'
  BY <1>1, CountsThere, FS_CardinalityType DEF CreatedOnce
<1>7. box' \in [Writers -> T!Box] /\ calls' \in 0..MaxCalls /\ \A v \in Writers : box'[v] = box[v]
  BY CountsThere DEF PostsTyped
<1> QED BY <1>1, <1>5, <1>6, <1>7, PageStep

\* An answer has come, or is lost: a request whose comment is saved is over.
LEMMA AnswerOK ==
  ASSUME PostsInv, NEW u \in Writers, NEW i \in {1, 2}, T!Answer(u, i)
  PROVE  PostsInv'
<1> DEFINE d == IF i = box[u].last THEN 0 ELSE box[u].draft
<1>1. /\ UNCHANGED <<post, thread, desk, calls, decided, erased, late>>
      /\ hand[u][i].pc = "saved" /\ hand' = [hand EXCEPT ![u][i] = T!NoHand[i]]
      /\ box' = [box EXCEPT ![u] = IF i = box[u].last THEN [box[u] EXCEPT !.draft = 0] ELSE box[u]]
  BY DEF T!Answer
<1>2. /\ hand' \in [Writers -> T!Hand] /\ \A v \in Writers \ {u} : hand'[v] = hand[v]
      /\ T!UnderWay(u)' = T!UnderWay(u) \ {i} /\ \A j \in T!UnderWay(u)' : hand'[u][j] = hand[u][j]
      /\ Saving' \subseteq Saving
      /\ IsFiniteSet(Saving') /\ Cardinality(Saving') <= Cardinality(Saving)
  BY <1>1, HandEnds
<1>3. BoxOK(u) /\ i \in T!UnderWay(u) /\ HandOK(u, i) /\ box \in [Writers -> T!Box]
  BY <1>1, BoxThere, CountsThere DEF PostsTyped
<1>4. /\ box'[u] \in T!Box /\ box'[u].draft = d /\ box'[u].typed = box[u].typed
      /\ box'[u].loose = box[u].loose /\ box'[u].last = box[u].last /\ box'[u].again = box[u].again
      /\ \A v \in Writers \ {u} : box'[v] = box[v]
  <2>1. box'[u] = (IF i = box[u].last THEN [box[u] EXCEPT !.draft = 0] ELSE box[u]) /\ box[u] \in T!Box
    BY <1>1, <1>3
  <2>2. PICK b, c : b = box[u] /\ c = box'[u]
    OBVIOUS
  <2>3. c = (IF i = b.last THEN [b EXCEPT !.draft = 0] ELSE b) /\ b \in T!Box
    BY <2>1, <2>2
  <2>4. /\ c \in T!Box /\ c.draft = (IF i = b.last THEN 0 ELSE b.draft) /\ c.typed = b.typed
        /\ c.loose = b.loose /\ c.last = b.last /\ c.again = b.again
    BY <2>3, PostsConstants DEF T!Box
  <2> QED BY <1>1, <1>3, <2>2, <2>4
<1>5. \A v, e : T!Posted(v, e)' = T!Posted(v, e)
  BY <1>1, PostedStays
<1>6. \* the answered comment is there
      /\ T!Posted(u, hand[u][i].draft) > 0 \/ erased > 0
      /\ hand[u][i].draft \in 1..box[u].typed
      /\ box[u].draft \in {0, hand[u][i].draft} \cup box[u].loose
      /\ hand[u][i].draft = box[u].draft /\ i # box[u].last => box[u].draft \in box[u].again
  BY <1>1, <1>3 DEF HandOK
<1>7. d = 0 \/ (d = box[u].draft /\ i # box[u].last)
  OBVIOUS
<1>8. ASSUME NEW j \in T!UnderWay(u)' PROVE HandOK(u, j)'
  <2>1. HandOK(u, j) /\ hand'[u][j] = hand[u][j]
    BY <1>2, <1>3 DEF BoxOK
  <2>2. CASE d = box[u].draft
    BY <1>1, <1>4, <1>5, <2>1, <2>2 DEF HandOK
  <2>3. CASE d = 0
    <3>1. /\ hand[u][j].draft # 0
          /\ hand[u][j].draft = box[u].draft =>
               \/ hand[u][j].draft \in box[u].loose
               \/ T!Posted(u, hand[u][j].draft) > 0 \/ erased > 0
      <4>1. hand[u][j].draft # 0
        BY <1>3, <2>1, BoxThere, PostsConstants DEF HandOK
      <4> QED BY <1>6, <4>1
    <3> QED BY <1>1, <1>4, <1>5, <2>1, <2>3, <3>1 DEF HandOK
  <2> QED BY <1>7, <2>2, <2>3
<1>9. BoxOK(u)'
  <2>1. ~ (T!UnderWay(u)' = {1, 2})
    BY <1>2
  <2>2. \/ d = 0 \/ T!Posted(u, d) = 0 \/ d \in box[u].again \/ T!Pending(u)'
    <3>1. SUFFICES ASSUME d = box[u].draft, i # box[u].last, T!Pending(u), ~ T!Pending(u)'
                   PROVE  box[u].draft \in box[u].again
      BY <1>3, <1>7 DEF BoxOK
    <3>2. hand[u][i].draft = box[u].draft
      BY <1>2, <1>4, <3>1 DEF T!Pending
    <3> QED BY <1>6, <3>1, <3>2
  <2>3. ASSUME NEW e \in 1..box[u].typed
        PROVE  \/ d = e \/ e \in box[u].loose
               \/ \E j \in T!UnderWay(u)' : hand'[u][j].draft = e
               \/ T!Posted(u, e) > 0 \/ erased > 0
    <3>1. \/ box[u].draft = e \/ e \in box[u].loose
          \/ \E j \in T!UnderWay(u) : hand[u][j].draft = e
          \/ T!Posted(u, e) > 0 \/ erased > 0
      BY <1>3 DEF BoxOK
    <3>2. e # 0
      BY BoxThere, PostsConstants
    <3>3. d = box[u].draft \/ box[u].draft # e \/ e \in box[u].loose \/ e = hand[u][i].draft
      BY <1>6, <3>2
    <3> QED BY <1>2, <1>6, <3>1, <3>3
  <2>4. d <= box[u].typed
    BY <1>7, BoxThere, PostsConstants
  <2> QED BY <1>1, <1>3, <1>4, <1>5, <1>8, <2>1, <2>2, <2>3, <2>4 DEF BoxOK
<1>10. /\ post = T!NoPost => Saving' = {}
       /\ Cardinality(Saving') \in Nat /\ Cardinality(Saving') + calls <= Cardinality(Saving) + calls'
  BY <1>1, <1>2, CountsThere, FS_CardinalityType DEF CreatedOnce
<1>11. box' \in [Writers -> T!Box] /\ calls' \in 0..MaxCalls
  BY <1>1, <1>3, <1>4, CountsThere DEF PostsTyped
<1> QED BY <1>1, <1>2, <1>4, <1>9, <1>10, <1>11, PageStep

LEMMA LoseAnswerOK ==
  ASSUME PostsInv, NEW u \in Writers, NEW i \in {1, 2}, T!LoseAnswer(u, i)
  PROVE  PostsInv'
<1>13. PICK again : again = box[u].again \cup {hand[u][i].draft}
  OBVIOUS
<1>1. /\ UNCHANGED <<post, thread, desk, calls, decided, erased, late>>
      /\ hand[u][i].pc = "saved" /\ hand' = [hand EXCEPT ![u][i] = T!NoHand[i]]
      /\ box' = [box EXCEPT ![u].again = again]
  BY <1>13 DEF T!LoseAnswer
<1>2. /\ hand' \in [Writers -> T!Hand] /\ \A v \in Writers \ {u} : hand'[v] = hand[v]
      /\ T!UnderWay(u)' = T!UnderWay(u) \ {i} /\ \A j \in T!UnderWay(u)' : hand'[u][j] = hand[u][j]
      /\ Saving' \subseteq Saving
      /\ IsFiniteSet(Saving') /\ Cardinality(Saving') <= Cardinality(Saving)
  BY <1>1, HandEnds
<1>3. BoxOK(u) /\ i \in T!UnderWay(u) /\ HandOK(u, i) /\ box \in [Writers -> T!Box]
  BY <1>1, BoxThere, CountsThere DEF PostsTyped
<1>6. /\ T!Posted(u, hand[u][i].draft) > 0 \/ erased > 0
      /\ hand[u][i].draft \in T!Drafts
      /\ hand[u][i].draft \in again /\ box[u].again \subseteq again
  <2>1. hand[u][i].draft \in T!Drafts
    BY <1>3, BoxThere, PostsConstants DEF HandOK, T!Drafts
  <2> QED BY <1>1, <1>3, <1>13, <2>1 DEF HandOK
<1>4. /\ box'[u] \in T!Box /\ box'[u].draft = box[u].draft /\ box'[u].typed = box[u].typed
      /\ box'[u].loose = box[u].loose /\ box'[u].last = box[u].last /\ box'[u].again = again
      /\ \A v \in Writers \ {u} : box'[v] = box[v]
  <2>1. box'[u] = [box[u] EXCEPT !.again = again] /\ box[u] \in T!Box
    BY <1>1, <1>3
  <2>2. PICK b, c : b = box[u] /\ c = box'[u]
    OBVIOUS
  <2>3. c = [b EXCEPT !.again = again] /\ b \in T!Box
    BY <2>1, <2>2
  <2>5. again \in SUBSET T!Drafts
    BY <1>6, <1>13, <2>2, <2>3 DEF T!Box
  <2>4. /\ c \in T!Box /\ c.draft = b.draft /\ c.typed = b.typed
        /\ c.loose = b.loose /\ c.last = b.last /\ c.again = again
    BY <2>3, <2>5 DEF T!Box
  <2> QED BY <1>1, <1>3, <2>2, <2>4
<1>5. \A v, e : T!Posted(v, e)' = T!Posted(v, e)
  BY <1>1, PostedStays
<1>8. ASSUME NEW j \in T!UnderWay(u)' PROVE HandOK(u, j)'
  <2>1. HandOK(u, j) /\ hand'[u][j] = hand[u][j]
    BY <1>2, <1>3 DEF BoxOK
  <2> QED BY <1>1, <1>4, <1>5, <1>6, <2>1 DEF HandOK
<1>9. BoxOK(u)'
  <2>1. ~ (T!UnderWay(u)' = {1, 2})
    BY <1>2
  <2>2. \/ box[u].draft = 0 \/ T!Posted(u, box[u].draft) = 0 \/ box[u].draft \in again \/ T!Pending(u)'
    <3>1. T!Pending(u) => T!Pending(u)' \/ box[u].draft = hand[u][i].draft
      BY <1>2, <1>4 DEF T!Pending
    <3> QED BY <1>3, <1>6, <3>1 DEF BoxOK
  <2>3. ASSUME NEW e \in 1..box[u].typed
        PROVE  \/ box[u].draft = e \/ e \in box[u].loose
               \/ \E j \in T!UnderWay(u)' : hand'[u][j].draft = e
               \/ T!Posted(u, e) > 0 \/ erased > 0
    <3>1. \/ box[u].draft = e \/ e \in box[u].loose
          \/ \E j \in T!UnderWay(u) : hand[u][j].draft = e
          \/ T!Posted(u, e) > 0 \/ erased > 0
      BY <1>3 DEF BoxOK
    <3> QED BY <1>2, <1>6, <3>1
  <2>4. /\ box[u].draft <= box[u].typed
        /\ \A e \in T!Drafts : /\ e <= box[u].typed \/ T!Posted(u, e) = 0
                               /\ T!Posted(u, e) <= 1 \/ e \in again
    BY <1>3, <1>6 DEF BoxOK
  <2>5. /\ box'[u].draft <= box'[u].typed
        /\ \A e \in T!Drafts : /\ e <= box'[u].typed \/ T!Posted(u, e)' = 0
                               /\ T!Posted(u, e)' <= 1 \/ e \in box'[u].again
    BY <1>4, <1>5, <2>4
  <2>6. \A e \in 1..box'[u].typed : 
               \/ box'[u].draft = e \/ e \in box'[u].loose
               \/ \E j \in T!UnderWay(u)' : hand'[u][j].draft = e
               \/ T!Posted(u, e)' > 0 \/ erased' > 0
    BY <1>1, <1>4, <1>5, <2>3
  <2> QED BY <1>4, <1>5, <1>8, <2>1, <2>2, <2>5, <2>6 DEF BoxOK
<1>10. /\ post = T!NoPost => Saving' = {}
       /\ Cardinality(Saving') \in Nat /\ Cardinality(Saving') + calls <= Cardinality(Saving) + calls'
  BY <1>1, <1>2, CountsThere, FS_CardinalityType DEF CreatedOnce
<1>11. box' \in [Writers -> T!Box] /\ calls' \in 0..MaxCalls
  BY <1>1, <1>3, <1>4, CountsThere DEF PostsTyped
<1> QED BY <1>1, <1>2, <1>4, <1>9, <1>10, <1>11, PageStep

\* The transaction: the comment is one that was not there, and is counted.
LEMMA CommentAdded ==
  ASSUME PostsInv, NEW u \in Writers, NEW d \in T!Drafts,
         thread' = thread \cup {<<u, d, T!Posted(u, d)>>}
  PROVE  /\ IsFiniteSet(thread')
         /\ Cardinality(thread') = Cardinality(thread) + 1
         /\ T!Posted(u, d)' = T!Posted(u, d) + 1
         /\ \A v, e : v # u \/ e # d => T!Posted(v, e)' = T!Posted(v, e)
<1>1. PICK c : c = <<u, d, T!Posted(u, d)>>
  OBVIOUS
<1>2. c \notin thread
  <2>1. SUFFICES ASSUME c \in thread PROVE FALSE
    OBVIOUS
  <2>2. c[3] < T!Posted(c[1], c[2])
    BY <2>1, CountsThere DEF CommentsCounted
  <2>3. T!Posted(u, d) < T!Posted(u, d)
    BY <1>1, <2>2
  <2> QED BY <2>3, BoxThere
<1>3. IsFiniteSet(thread') /\ Cardinality(thread') = Cardinality(thread) + 1
  BY <1>1, <1>2, CountsThere, FS_AddElement
<1>4. Said(u, d)' = Said(u, d) \cup {c}
  BY <1>1 DEF Said
<1>5. T!Posted(u, d)' = T!Posted(u, d) + 1
  <2>1. IsFiniteSet(Said(u, d)) /\ c \notin Said(u, d)
    BY <1>2, CountsThere, FS_Subset DEF Said
  <2>2. Cardinality(Said(u, d)') = Cardinality(Said(u, d)) + 1
    BY <1>4, <2>1, FS_AddElement
  <2>3. /\ T!Posted(u, d)' = Cardinality(Said(u, d)')
        /\ T!Posted(u, d) = Cardinality(Said(u, d))
    BY PostsCounts DEF T!Posted, Said
  <2> QED BY <2>2, <2>3
<1>6. ASSUME NEW v, NEW e, v # u \/ e # d PROVE T!Posted(v, e)' = T!Posted(v, e)
  <2>1. Said(v, e)' = Said(v, e)
    BY <1>1, <1>6 DEF Said
  <2>2. /\ T!Posted(v, e)' = Cardinality(Said(v, e)')
        /\ T!Posted(v, e) = Cardinality(Said(v, e))
    BY PostsCounts DEF T!Posted, Said
  <2> QED BY <2>1, <2>2
<1> QED BY <1>3, <1>5, <1>6

LEMMA CommentSavedOK ==
  ASSUME PostsInv, NEW u \in Writers, NEW i \in {1, 2}, hand[u][i].pc = "save",
         thread' = thread \cup {<<u, hand[u][i].draft, T!Posted(u, hand[u][i].draft)>>},
         post' = IF post.there THEN [post EXCEPT !.commentCount = @ + 1] ELSE post,
         late' = IF T!BeingDeleted THEN late + 1 ELSE late,
         hand' = [hand EXCEPT ![u][i].pc = "saved"],
         UNCHANGED <<desk, box, calls, decided, erased>>
  PROVE  PostsInv'
<1>1. PICK d : d = hand[u][i].draft
  OBVIOUS
<1>2. i \in T!UnderWay(u) /\ HandOK(u, i) /\ BoxOK(u)
  BY BoxThere
<1>3. d \in T!Drafts /\ d \in 1..box[u].typed
  BY <1>1, <1>2, BoxThere, PostsConstants DEF HandOK, T!Drafts
<1>4. /\ IsFiniteSet(thread') /\ Cardinality(thread') = Cardinality(thread) + 1
      /\ T!Posted(u, d)' = T!Posted(u, d) + 1
      /\ \A v, e : v # u \/ e # d => T!Posted(v, e)' = T!Posted(v, e)
  BY <1>1, <1>3, CommentAdded
<1>5. ASSUME NEW v, NEW e
      PROVE  /\ T!Posted(v, e) \in Nat /\ T!Posted(v, e)' \in Nat
             /\ T!Posted(v, e) <= T!Posted(v, e)'
  <2>1. T!Posted(v, e) \in Nat
    BY CountsThere, PostedIs
  <2> QED BY <1>4, <2>1
<1>6. hand \in [Writers -> T!Hand] /\ box \in [Writers -> T!Box] /\ post \in T!Post
  BY CountsThere DEF PostsTyped
<1>7. /\ hand' \in [Writers -> T!Hand]
      /\ hand'[u][i].pc = "saved" /\ hand'[u][i].draft = d
      /\ \A v \in Writers, j \in {1, 2} : v # u \/ j # i => hand'[v][j] = hand[v][j]
      /\ \A v \in Writers \ {u} : hand'[v] = hand[v]
  BY <1>1, <1>6 DEF T!Hand
<1>8. /\ Saving' = Saving \ {<<u, i>>} /\ <<u, i>> \in Saving
      /\ IsFiniteSet(Saving') /\ Cardinality(Saving') = Cardinality(Saving) - 1
      /\ Cardinality(Saving') \in Nat
  <2>1. ASSUME NEW s \in Writers \X {1, 2}
        PROVE  s \in Saving' <=> s \in Saving \ {<<u, i>>}
    <3>1. PICK v \in Writers, j \in {1, 2} : s = <<v, j>>
      BY <2>1
    <3>2. CASE v = u /\ j = i
      BY <1>7, <3>1, <3>2 DEF Saving
    <3>3. CASE ~ (v = u /\ j = i)
      <4>1. hand'[v][j] = hand[v][j]
        BY <1>7, <3>3
      <4> QED BY <3>1, <3>3, <4>1 DEF Saving
    <3> QED BY <3>2, <3>3
  <2>2. Saving' \subseteq Writers \X {1, 2} /\ Saving \subseteq Writers \X {1, 2}
    BY DEF Saving
  <2>3. <<u, i>> \in Saving
    BY DEF Saving
  <2>4. Saving' = Saving \ {<<u, i>>}
    BY <2>1, <2>2
  <2> QED BY <2>3, <2>4, CountsThere, FS_RemoveElement, FS_CardinalityType
<1>9. post # T!NoPost
  BY <1>8, CountsThere DEF CreatedOnce
<1>10. /\ post'.there = post.there /\ post'.author = post.author /\ post'.hidden = post.hidden
       /\ post.there => post'.commentCount = post.commentCount + 1
       /\ post' \in T!Post /\ post' # T!NoPost
  <2>1. CASE ~ post.there
    BY <1>6, <1>9, <2>1
  <2>2. CASE post.there
    <3>1. post.commentCount = Cardinality(thread) + erased
      BY <2>2, CountsThere, PostsCounts DEF CommentsCounted, T!CountAddsUp
    <3>2. post.commentCount + 1 \in 0..MaxCalls
      BY <1>8, <3>1, CountsThere, PostsConstants
    <3>3. post' = [post EXCEPT !.commentCount = post.commentCount + 1]
      BY <2>2
    <3>4. /\ post' \in T!Post /\ post'.there = post.there /\ post'.author = post.author
          /\ post'.hidden = post.hidden /\ post'.commentCount = post.commentCount + 1
      BY <1>6, <3>2, <3>3 DEF T!Post
    <3>5. T!NoPost.there = FALSE
      BY DEF T!NoPost
    <3> QED BY <2>2, <3>4, <3>5
  <2> QED BY <2>1, <2>2
<1>11. PostsTyped'
  <2>1. T!Posted(u, d) \in 0..MaxCalls
    BY <1>8, CountsThere, PostedIs, PostsConstants
  <2>2. thread' \in SUBSET T!Comment
    BY <1>1, <1>3, <2>1, CountsThere DEF PostsTyped, T!Comment
  <2>3. late' \in Nat
    BY CountsThere
  <2> QED BY <1>4, <1>7, <1>10, <2>2, <2>3, CountsThere DEF PostsTyped
<1>12. CallsCounted'
  BY <1>4, <1>8, CountsThere DEF CallsCounted
<1>13. CreatedOnce'
  BY <1>10, CountsThere DEF CreatedOnce
<1>14. CommentsCounted'
  <2>1. T!CountAddsUp'
    BY <1>4, <1>10, CountsThere, PostsCounts DEF CommentsCounted, T!CountAddsUp
  <2>2. T!BeingDeleted' <=> T!BeingDeleted
    BY <1>10 DEF T!BeingDeleted
  <2>3. T!BeingDeleted' => Cardinality(thread)' = late'
    BY <1>4, <2>2, CountsThere DEF CommentsCounted
  <2>4. ASSUME NEW c \in thread' PROVE c[3] < T!Posted(c[1], c[2])'
    <3>1. CASE c \in thread
      <4>1. c[3] < T!Posted(c[1], c[2]) /\ c[3] \in Nat
        <5>1. c \in T!Comment
          BY <3>1, CountsThere DEF PostsTyped
        <5> QED BY <3>1, <5>1, CountsThere, PostsConstants DEF CommentsCounted, T!Comment
      <4> QED BY <1>5, <4>1, <1>11
    <3>2. CASE c = <<u, d, T!Posted(u, d)>>
      <4>1. c[1] = u /\ c[2] = d /\ c[3] = T!Posted(u, d)
        BY <3>2
      <4> QED BY <1>4, <1>5, <4>1
    <3> QED BY <1>1, <3>1, <3>2
  <2> QED BY <2>1, <2>3, <2>4 DEF CommentsCounted
<1>15. T!DecisionStands'
  BY <1>10, CountsThere DEF T!DecisionStands
<1>16. ASSUME NEW v \in Writers PROVE BoxOK(v)'
  <2>1. CASE v # u
    BY <1>4, <1>7, <2>1, CountsThere, PageKeeps
  <2>2. CASE v = u
    <3>1. T!UnderWay(u)' = T!UnderWay(u) /\ \A j \in {1, 2} : hand'[u][j].draft = hand[u][j].draft
      BY <1>1, <1>2, <1>7 DEF T!UnderWay
    <3>2. T!Pending(u)' = T!Pending(u) /\ T!UnderWay(u) \subseteq {1, 2}
      BY <3>1 DEF T!Pending, T!UnderWay
    <3>3. T!Posted(u, d) = 0 \/ d \in box[u].again
      BY <1>1, <1>2 DEF HandOK
    <3>4. box' = box /\ erased' = erased /\ T!Posted(u, d)' > 0
      BY <1>4, <1>5
    <3>5. ASSUME NEW j \in T!UnderWay(u)' PROVE HandOK(u, j)'
      <4>1. HandOK(u, j) /\ hand'[u][j].draft = hand[u][j].draft
        BY <1>2, <3>1, <3>2 DEF BoxOK
      <4>2. CASE j = i
        BY <1>1, <1>7, <3>4, <4>1, <4>2 DEF HandOK
      <4>3. CASE j # i
        <5>1. hand'[u][j] = hand[u][j] /\ T!UnderWay(u) = {1, 2}
          BY <1>2, <1>7, <3>1, <3>2, <4>3
        <5>2. hand[u][j].draft = d => d \in box[u].again
          <6>1. SUFFICES ASSUME hand[u][j].draft = d PROVE d \in box[u].again
            OBVIOUS
          <6>2. j \in {1, 2}
            BY <3>1, <3>2
          <6>3. hand[u][1].draft = d /\ hand[u][2].draft = d
            BY <1>1, <4>3, <6>1, <6>2
          <6> QED BY <1>2, <5>1, <6>3 DEF BoxOK
        <5>3. /\ T!Posted(u, hand[u][j].draft) > 0 => T!Posted(u, hand[u][j].draft)' > 0
              /\ hand[u][j].draft = d \/ T!Posted(u, hand[u][j].draft)' = T!Posted(u, hand[u][j].draft)
          BY <1>4, <1>5, <3>4
        <5> QED BY <3>4, <4>1, <5>1, <5>2, <5>3 DEF HandOK
      <4> QED BY <4>2, <4>3
    <3>6. \/ box[u].draft = 0 \/ T!Posted(u, box[u].draft)' = 0 \/ box[u].draft \in box[u].again
          \/ T!Pending(u)
      <4>1. CASE box[u].draft = d
        BY <1>1, <1>2, <4>1 DEF T!Pending
      <4>2. CASE box[u].draft # d
        BY <1>2, <1>4, <4>2 DEF BoxOK
      <4> QED BY <4>1, <4>2
    <3>7. ASSUME NEW e \in T!Drafts
          PROVE  /\ e <= box[u].typed \/ T!Posted(u, e)' = 0
                 /\ T!Posted(u, e)' <= 1 \/ e \in box[u].again
      <4>1. CASE e = d
        BY <1>3, <1>4, <3>3, <4>1
      <4>2. CASE e # d
        BY <1>2, <1>4, <4>2 DEF BoxOK
      <4> QED BY <4>1, <4>2
    <3>8. ASSUME NEW e \in 1..box[u].typed
          PROVE  \/ box[u].draft = e \/ e \in box[u].loose
                 \/ \E j \in T!UnderWay(u)' : hand'[u][j].draft = e
                 \/ T!Posted(u, e)' > 0 \/ erased > 0
      <4>1. \/ box[u].draft = e \/ e \in box[u].loose
            \/ \E j \in T!UnderWay(u) : hand[u][j].draft = e
            \/ T!Posted(u, e) > 0 \/ erased > 0
        BY <1>2 DEF BoxOK
      <4>2. T!Posted(u, e) > 0 => T!Posted(u, e)' > 0
        BY <1>5
      <4>3. CASE \E j \in T!UnderWay(u) : hand[u][j].draft = e
        BY <3>1, <3>2, <4>3
      <4> QED BY <4>1, <4>2, <4>3
    <3>9. T!UnderWay(u)' = {1, 2} /\ hand'[u][1].draft = hand'[u][2].draft =>
             hand'[u][1].draft \in box[u].again
      BY <1>2, <3>1 DEF BoxOK
    <3>10. box[u].draft <= box[u].typed
      BY <1>2 DEF BoxOK
    <3>11. BoxOK(u)'
      BY <3>2, <3>4, <3>5, <3>6, <3>7, <3>8, <3>9, <3>10 DEF BoxOK
    <3> QED BY <2>2, <3>11
  <2> QED BY <2>1, <2>2
<1> QED BY <1>11, <1>12, <1>13, <1>14, <1>15, <1>16 DEF PostsInv

LEMMA PostsNext == PostsInv /\ T!Next => PostsInv'
<1> SUFFICES ASSUME PostsInv, T!Next PROVE PostsInv'
  OBVIOUS
<1>1. ASSUME NEW a \in T!Actors, T!Create(a) PROVE PostsInv'
  BY <1>1, CreateOK
<1>2. ASSUME NEW a \in T!Actors,
             \/ \E pc \in T!Updates : T!BeginUpdate(a, pc)
             \/ \E pc \in T!Pins : T!BeginPin(a, pc)
             \/ \E pc \in T!Decisions : T!TapDecision(a, pc)
             \/ T!BeginDelete(a)
      PROVE  PostsInv'
  <2>1. PICK pc \in {"erase"} \cup T!Updates \cup T!Pins \cup T!Decisions : T!Load(a, pc)
    BY <1>2 DEF T!BeginUpdate, T!BeginPin, T!TapDecision, T!BeginDelete
  <2> QED BY <2>1, LoadOK
<1>3. ASSUME NEW a \in T!Actors, T!SaveUpdate(a) \/ T!SavePin(a) \/ T!SaveDecision(a)
      PROVE  PostsInv'
  BY <1>3, SavesOK
<1>4. ASSUME NEW a \in T!Actors, T!Erase(a) \/ T!Delete(a) PROVE PostsInv'
  BY <1>4, EraseOK, PostDeleteOK
<1>5. ASSUME NEW u \in Writers, T!Write(u) PROVE PostsInv'
  BY <1>5, WriteOK
<1>6. ASSUME NEW u \in Writers, T!TapSend(u) \/ T!PressEnter(u) PROVE PostsInv'
  BY <1>6, BeginCommentOK DEF T!TapSend, T!PressEnter
<1>7. ASSUME NEW u \in Writers, NEW i \in {1, 2}, T!SaveComment(u, i) PROVE PostsInv'
  <2>1. UNCHANGED <<desk, box, calls, decided, erased>> /\ hand[u][i].pc = "save"
    BY <1>7 DEF T!SaveComment
  <2>2. \/ UNCHANGED <<thread, post, late>> /\ hand' = [hand EXCEPT ![u][i] = T!NoHand[i]]
        \/ /\ thread' = thread \cup {<<u, hand[u][i].draft, T!Posted(u, hand[u][i].draft)>>}
           /\ post' = IF post.there THEN [post EXCEPT !.commentCount = @ + 1] ELSE post
           /\ late' = IF T!BeingDeleted THEN late + 1 ELSE late
           /\ hand' = [hand EXCEPT ![u][i].pc = "saved"]
    BY <1>7 DEF T!SaveComment
  <2> QED BY <2>1, <2>2, SaveFailsOK, CommentSavedOK
<1>8. ASSUME NEW u \in Writers, NEW i \in {1, 2}, T!Answer(u, i) \/ T!LoseAnswer(u, i)
      PROVE  PostsInv'
  BY <1>8, AnswerOK, LoseAnswerOK
<1> QED BY <1>1, <1>2, <1>3, <1>4, <1>5, <1>6, <1>7, <1>8 DEF T!Next

LEMMA PostsStutter == PostsInv /\ UNCHANGED postVars => PostsInv'
<1> SUFFICES ASSUME PostsInv, UNCHANGED postVars PROVE PostsInv'
  OBVIOUS
<1>1. UNCHANGED <<post, thread, desk, hand, box, calls, decided, erased, late>>
  BY DEF postVars
<1>2. /\ post' \in T!Post /\ desk' \in [T!Actors -> T!Desk] /\ calls' \in 0..MaxCalls
      /\ decided' \in {"none", "keep", "remove", "unsure"} /\ calls <= calls'
      /\ post'.there => post'.author # NoUser
  BY <1>1, CountsThere DEF PostsTyped, CreatedOnce
<1>3. T!CountAddsUp' /\ T!DecisionStands' /\ (T!BeingDeleted' => T!BeingDeleted)
  BY <1>1, CountsThere DEF CommentsCounted, T!CountAddsUp, T!DecisionStands, T!BeingDeleted
<1> QED BY <1>1, <1>2, <1>3, PostStep

LEMMA PostsImply == PostsInv => T!TypeOK /\ T!PostsWork
<1> SUFFICES ASSUME PostsInv PROVE T!TypeOK /\ T!PostsWork
  OBVIOUS
<1>1. T!TypeOK
  <2>1. erased \in 0..MaxCalls /\ late \in 0..MaxCalls
    BY CountsThere, PostsConstants
  <2> QED BY <2>1, CountsThere DEF PostsTyped, T!TypeOK
<1>2. T!CountAddsUp /\ T!NothingLeftBehind /\ T!DecisionStands
  BY CountsThere, PostsCounts DEF CommentsCounted, T!NothingLeftBehind, T!BeingDeleted
<1>3. T!DraftsKept /\ T!PostedOnce
  BY CountsThere DEF BoxOK, T!DraftsKept, T!PostedOnce
<1> QED BY <1>1, <1>2, <1>3 DEF T!PostsWork

\* A post's count is that of its comments, a deletion leaves behind only what
\* was saved meanwhile, a moderator's decision stands, and a comment is neither
\* lost nor posted twice, for any number of members, moderators, comments and
\* requests (post.service.ts, moderatePost() and PostDetailScreen.tsx).
THEOREM PostsRight == T!Spec => [](T!TypeOK /\ T!PostsWork)
<1>1. PostsInv /\ [T!Next]_T!vars => PostsInv'
  BY PostsNext, PostsStutter DEF T!vars, postVars
<1> QED BY <1>1, PostsInit, PostsImply, PTL DEF T!Spec

-----------------------------------------------------------------------------
(* The materials of an event                                               *)

Loop == [pending : Seq(U!Rows), done : Nat, waits : BOOLEAN, failed : BOOLEAN, runs : BOOLEAN]

FilesTyped ==
    /\ page \in [at : {"elsewhere", "upload", "materials"}, visit : 0..MaxVisits]
    /\ queue \in [U!Rows -> [status : {"none", "queued", "uploading", "done", "error", "removed"},
                             visit : 0..MaxVisits]]
    /\ loop \in [U!Visits -> Loop]
    /\ upload \in [U!Rows -> [U!Tries -> [at : {"none", "sent", "stored", "made", "lost"},
                                          awaited : BOOLEAN]]]

\* A row belongs to a visit there has been; without one nothing was uploaded.
RowOK(r) ==
    \/ queue[r] = U!NoRow /\ \A k \in U!Tries : upload[r][k] = U!NoUpload
    \/ queue[r].status # "none" /\ queue[r].visit \in U!Visits /\ queue[r].visit <= page.visit

\* The tries of a row are its first ones, and have begun.
TriesOK(r) ==
    /\ \E n \in 0..MaxTries : \A k \in U!Tries : upload[r][k] # U!NoUpload <=> k <= n
    /\ \A k \in U!Tries : upload[r][k].at = "none" => upload[r][k] = U!NoUpload

Made(r) == \E k \in U!Tries : upload[r][k].at = "made"

LoopOK(v) ==
    LET p == loop[v].pending
        i == loop[v].done IN
    /\ Len(p) <= MaxFiles /\ i <= Len(p)
    /\ \A j \in 1..Len(p) : p[j] \in U!Rows /\ queue[p[j]].visit = v
    /\ \A j, k \in 1..Len(p) : j # k => p[j] # p[k]
    /\ ~ loop[v].runs => i = Len(p)
    /\ loop[v].waits => loop[v].runs /\ i < Len(p) /\ U!Tried(p[i + 1]) > 0
    /\ ~ loop[v].failed => \A j \in 1..i : Made(p[j]) \/ queue[p[j]].status = "removed"

\* Nobody will upload the row again: no loop has it before it, and it cannot be
\* submitted.
Settled(r) ==
    /\ \A j \in 1..Len(loop[queue[r].visit].pending) :
          j > loop[queue[r].visit].done => loop[queue[r].visit].pending[j] # r
    /\ \/ queue[r].status \in {"done", "removed"}
       \/ page.at # "upload" \/ page.visit # queue[r].visit

\* An upload that is waited for is the one its loop is at, unless it is over.
TryOK(r, k) ==
    /\ upload[r][k].awaited /\ upload[r][k].at \in {"sent", "stored", "made"} =>
          \/ /\ loop[queue[r].visit].waits
             /\ U!Current(queue[r].visit) = r /\ U!Tried(r) = k
          \/ upload[r][k].at = "made" /\ Settled(r)
    /\ upload[r][k].awaited /\ upload[r][k].at \in {"sent", "stored", "made"} =>
          \A j \in U!Tries : j > k => upload[r][j] = U!NoUpload

FilesInv ==
    /\ FilesTyped
    /\ page.at = "upload" => page.visit \in U!Visits
    /\ \A r \in U!Rows : /\ RowOK(r) /\ TriesOK(r)
                         /\ queue[r].status = "done" => Made(r)
                         /\ \A k \in U!Tries : TryOK(r, k)
    /\ \A v \in U!Visits : LoopOK(v)

LEMMA FilesConstants == MaxFiles \in Nat /\ MaxTries \in Nat /\ MaxVisits \in Nat
BY PartsAssumption DEF U!MaterialsAssumption

LEMMA FilesCount == \A S : U!Cardinality(S) = Cardinality(S)
BY DEF U!Cardinality, Cardinality

\* The tries of a row that are its first ones are counted by the last.
LEMMA FirstTries ==
  ASSUME NEW f, NEW n \in 0..MaxTries, \A k \in U!Tries : f[k] # U!NoUpload <=> k <= n
  PROVE  Cardinality({k \in U!Tries : f[k] # U!NoUpload}) = n
<1>1. {k \in U!Tries : f[k] # U!NoUpload} = 1..n
  BY FilesConstants DEF U!Tries
<1>2. Cardinality(1..n) = n
  BY FilesConstants, FS_Interval
<1> QED BY <1>1, <1>2

LEMMA TriedOf ==
  ASSUME NEW r, TriesOK(r)
  PROVE  /\ U!Tried(r) \in 0..MaxTries
         /\ \A k \in U!Tries : upload[r][k] # U!NoUpload <=> k <= U!Tried(r)
<1>1. PICK n \in 0..MaxTries : \A k \in U!Tries : upload[r][k] # U!NoUpload <=> k <= n
  BY DEF TriesOK
<1>2. U!Tried(r) = n
  BY <1>1, FirstTries, FilesCount DEF U!Tried
<1> QED BY <1>1, <1>2

LEMMA FilesThere ==
  ASSUME FilesInv
  PROVE  /\ FilesTyped
         /\ page.at = "upload" => page.visit \in U!Visits
         /\ page.visit \in 0..MaxVisits
         /\ \A r \in U!Rows : /\ RowOK(r) /\ TriesOK(r)
                              /\ queue[r].status = "done" => Made(r)
                              /\ U!Tried(r) \in 0..MaxTries
                              /\ \A k \in U!Tries : upload[r][k] # U!NoUpload <=> k <= U!Tried(r)
         /\ \A r \in U!Rows, k \in U!Tries : TryOK(r, k)
         /\ \A v \in U!Visits : /\ LoopOK(v) /\ loop[v] \in Loop
                                /\ Len(loop[v].pending) \in Nat /\ loop[v].done \in Nat
BY TriedOf DEF FilesInv, FilesTyped, Loop

\* What was uploaded was so from a visit.
LEMMA VisitOf ==
  ASSUME FilesInv, NEW r \in U!Rows, NEW k \in U!Tries, upload[r][k].awaited
  PROVE  /\ queue[r].visit \in U!Visits /\ queue[r].visit \in 0..page.visit
         /\ queue[r].status # "none"
<1>1. queue[r].status # "none" /\ queue[r].visit \in U!Visits /\ queue[r].visit <= page.visit
  BY FilesThere DEF RowOK, U!NoRow, U!NoUpload
<1> QED BY <1>1, FilesThere, FilesConstants DEF U!Visits

\* A function on the first numbers is a sequence.
LEMMA SequenceOf ==
  ASSUME NEW n \in Nat, NEW S, NEW p \in [1..n -> S]
  PROVE  p \in Seq(S) /\ Len(p) = n
<1>1. p \in Seq(S)
  BY SeqDef
<1>2. Len(p) \in Nat /\ 1..Len(p) = 1..n
  BY <1>1, LenProperties
<1>3. \A m \in Nat : Cardinality(1..m) = m
  BY FS_Interval
<1> QED BY <1>1, <1>2, <1>3

LEMMA FilesInit == U!Init => FilesInv
<1> SUFFICES ASSUME U!Init PROVE FilesInv
  OBVIOUS
<1>1. /\ page = [at |-> "elsewhere", visit |-> 0]
      /\ queue = [r \in U!Rows |-> U!NoRow]
      /\ loop = [v \in U!Visits |-> U!Idle]
      /\ upload = [r \in U!Rows |-> [k \in U!Tries |-> U!NoUpload]]
  BY DEF U!Init
<1>2. U!NoRow = [status |-> "none", visit |-> 0] /\ U!NoUpload = [at |-> "none", awaited |-> FALSE]
  BY DEF U!NoRow, U!NoUpload
<1>3. U!Idle \in Loop /\ U!Idle.pending = <<>> /\ U!Idle.done = 0 /\ ~ U!Idle.runs /\ ~ U!Idle.waits
  BY DEF U!Idle, Loop
<1>4. FilesTyped
  BY <1>1, <1>2, <1>3, FilesConstants DEF FilesTyped
<1>5. ASSUME NEW r \in U!Rows
      PROVE  /\ RowOK(r) /\ TriesOK(r) /\ queue[r].status # "done"
             /\ \A k \in U!Tries : TryOK(r, k)
  <2>1. queue[r] = U!NoRow /\ \A k \in U!Tries : upload[r][k] = U!NoUpload
    BY <1>1
  <2>2. TriesOK(r)
    <3>1. \A k \in U!Tries : ~ (k <= 0)
      BY FilesConstants DEF U!Tries
    <3>2. 0 \in 0..MaxTries
      BY FilesConstants
    <3> QED BY <2>1, <3>1, <3>2 DEF TriesOK
  <2> QED BY <1>2, <2>1, <2>2 DEF RowOK, TryOK
<1>6. ASSUME NEW v \in U!Visits PROVE LoopOK(v)
  <2>1. loop[v].pending = <<>> /\ loop[v].done = 0 /\ ~ loop[v].runs /\ ~ loop[v].waits
    BY <1>1, <1>3
  <2> QED BY <2>1, FilesConstants DEF LoopOK
<1> QED BY <1>1, <1>4, <1>5, <1>6 DEF FilesInv

\* What is said of a loop keeps while it stands still.
LEMMA LoopKeeps ==
  ASSUME NEW v, LoopOK(v), Len(loop[v].pending) \in Nat, loop[v].done \in Nat,
         loop'[v].pending = loop[v].pending, loop'[v].done = loop[v].done,
         loop'[v].waits <=> loop[v].waits, loop'[v].failed <=> loop[v].failed,
         (loop'[v].runs <=> loop[v].runs)
         \/ (~ loop'[v].runs /\ loop[v].done = Len(loop[v].pending)),
         \A q \in U!Rows : queue[q].visit = v =>
            /\ queue'[q].visit = queue[q].visit
            /\ Made(q) => Made(q)'
            /\ queue[q].status = "removed" => queue'[q].status = "removed"
            /\ U!Tried(q) > 0 => U!Tried(q)' > 0
  PROVE  LoopOK(v)'
<1>1. PICK p, i : p = loop[v].pending /\ i = loop[v].done
  OBVIOUS
<1>2. /\ Len(p) <= MaxFiles /\ i <= Len(p)
      /\ \A j \in 1..Len(p) : p[j] \in U!Rows /\ queue[p[j]].visit = v
      /\ \A j, k \in 1..Len(p) : j # k => p[j] # p[k]
  BY <1>1 DEF LoopOK
<1>6. \A j \in 1..Len(p) : p[j] \in U!Rows /\ queue'[p[j]].visit = v
  BY <1>2
<1>3. ~ loop'[v].runs => i = Len(p)
  BY <1>1 DEF LoopOK
<1>4. loop'[v].waits => loop'[v].runs /\ i < Len(p) /\ U!Tried(p[i + 1])' > 0
  <2>1. SUFFICES ASSUME loop[v].waits PROVE loop'[v].runs /\ i < Len(p) /\ U!Tried(p[i + 1])' > 0
    OBVIOUS
  <2>2. loop[v].runs /\ i < Len(p) /\ U!Tried(p[i + 1]) > 0
    BY <1>1, <2>1 DEF LoopOK
  <2>3. i + 1 \in 1..Len(p)
    BY <1>1, <2>2
  <2>4. PICK q \in U!Rows : q = p[i + 1] /\ queue[q].visit = v
    BY <1>2, <2>3
  <2>5. U!Tried(q) > 0 => U!Tried(q)' > 0
    BY <2>4
  <2>6. loop'[v].runs
    BY <1>1, <2>2
  <2> QED BY <2>2, <2>4, <2>5, <2>6
<1>5. ~ loop'[v].failed => \A j \in 1..i : Made(p[j])' \/ queue'[p[j]].status = "removed"
  <2> SUFFICES ASSUME ~ loop[v].failed, NEW j \in 1..i
               PROVE  Made(p[j])' \/ queue'[p[j]].status = "removed"
    OBVIOUS
  <2>1. j \in 1..Len(p)
    BY <1>1, <1>2
  <2>2. Made(p[j]) \/ queue[p[j]].status = "removed"
    BY <1>1 DEF LoopOK
  <2>3. PICK q \in U!Rows : q = p[j] /\ queue[q].visit = v
    BY <1>2, <2>1
  <2>4. (Made(q) => Made(q)') /\ (queue[q].status = "removed" => queue'[q].status = "removed")
    BY <2>3
  <2> QED BY <2>2, <2>3, <2>4
<1> QED BY <1>1, <1>2, <1>3, <1>4, <1>5, <1>6 DEF LoopOK

\* The page is left, is opened, or its loop ends.
LEMMA PageMoves ==
  ASSUME FilesInv, queue' = queue, upload' = upload,
         page' \in [at : {"elsewhere", "upload", "materials"}, visit : 0..MaxVisits],
         page'.at = "upload" => page'.visit \in U!Visits,
         page.visit <= page'.visit,
         \A x \in 0..page.visit : page'.at = "upload" /\ page'.visit = x =>
                                     page.at = "upload" /\ page.visit = x,
         loop' \in [U!Visits -> Loop],
         \A v \in U!Visits :
            /\ loop'[v].pending = loop[v].pending /\ loop'[v].done = loop[v].done
            /\ loop'[v].waits <=> loop[v].waits
            /\ loop'[v].failed <=> loop[v].failed
            /\ \/ loop'[v].runs <=> loop[v].runs
               \/ ~ loop'[v].runs /\ loop[v].done = Len(loop[v].pending)
  PROVE  FilesInv'
<1>1. FilesTyped'
  BY FilesThere DEF FilesTyped
<1>2. \A r : /\ Made(r)' <=> Made(r)
             /\ TriesOK(r)' <=> TriesOK(r)
             /\ U!Tried(r)' = U!Tried(r)
  BY DEF Made, TriesOK, U!Tried
<1>3. ASSUME NEW r \in U!Rows PROVE RowOK(r)'
  <2>1. RowOK(r) /\ page.visit \in Nat /\ page'.visit \in Nat
    BY FilesThere, FilesConstants
  <2>2. queue[r].visit \in U!Visits => queue[r].visit \in Nat
    BY FilesConstants DEF U!Visits
  <2> QED BY <2>1, <2>2 DEF RowOK
<1>4. ASSUME NEW r \in U!Rows, NEW k \in U!Tries PROVE TryOK(r, k)'
  <2>1. TryOK(r, k)
    BY FilesThere
  <2>2. SUFFICES ASSUME upload[r][k].awaited, upload[r][k].at \in {"sent", "stored", "made"}
                 PROVE  TryOK(r, k)'
    BY DEF TryOK
  <2>3. queue[r].visit \in U!Visits /\ queue[r].visit \in 0..page.visit
    BY <2>2, VisitOf
  <2>4. /\ loop'[queue[r].visit].waits <=> loop[queue[r].visit].waits
        /\ U!Current(queue[r].visit)' = U!Current(queue[r].visit)
    BY <2>3 DEF U!Current
  <2>5. Settled(r) => Settled(r)'
    BY <2>3 DEF Settled
  <2> QED BY <1>2, <2>1, <2>4, <2>5 DEF TryOK
<1>5. ASSUME NEW v \in U!Visits PROVE LoopOK(v)'
  <2>1. LoopOK(v) /\ loop[v].done \in Nat /\ Len(loop[v].pending) \in Nat
    BY FilesThere
  <2> QED BY <1>2, <2>1, LoopKeeps
<1> QED BY <1>1, <1>2, <1>3, <1>4, <1>5, FilesThere DEF FilesInv

LEMMA FileOpenOK == FilesInv /\ U!Open => FilesInv'
<1> SUFFICES ASSUME FilesInv, U!Open PROVE FilesInv'
  OBVIOUS
<1>1. /\ page' = [at |-> "upload", visit |-> page.visit + 1] /\ page.visit < MaxVisits
      /\ queue' = queue /\ loop' = loop /\ upload' = upload
  BY DEF U!Open
<1>2. page.visit \in 0..MaxVisits /\ loop \in [U!Visits -> Loop]
  BY FilesThere DEF FilesTyped
<1>3. /\ page' \in [at : {"elsewhere", "upload", "materials"}, visit : 0..MaxVisits]
      /\ page'.visit \in U!Visits /\ page.visit <= page'.visit
      /\ \A x \in 0..page.visit : page'.visit # x
  BY <1>1, <1>2, FilesConstants DEF U!Visits
<1> QED BY <1>1, <1>2, <1>3, PageMoves

LEMMA LeaveOK == FilesInv /\ U!Leave => FilesInv'
<1> SUFFICES ASSUME FilesInv, U!Leave PROVE FilesInv'
  OBVIOUS
<1>1. page' = [page EXCEPT !.at = "elsewhere"] /\ queue' = queue /\ loop' = loop /\ upload' = upload
  BY DEF U!Leave
<1>2. /\ page \in [at : {"elsewhere", "upload", "materials"}, visit : 0..MaxVisits]
      /\ page.visit \in Nat /\ loop \in [U!Visits -> Loop]
  BY FilesThere, FilesConstants DEF FilesTyped
<1>3. page'.at = "elsewhere" /\ page'.visit = page.visit
  BY <1>1, <1>2
<1>4. page' \in [at : {"elsewhere", "upload", "materials"}, visit : 0..MaxVisits]
  BY <1>1, <1>2
<1>5. page.visit <= page'.visit
  BY <1>2, <1>3
<1> QED BY <1>1, <1>2, <1>3, <1>4, <1>5, PageMoves

LEMMA FinishOK == ASSUME FilesInv, NEW v \in U!Visits, U!Finish(v) PROVE FilesInv'
<1>1. /\ loop[v].done = Len(loop[v].pending) /\ loop' = [loop EXCEPT ![v].runs = FALSE]
      /\ page' = page \/ page' = [page EXCEPT !.at = "materials"]
      /\ queue' = queue /\ upload' = upload
  BY DEF U!Finish
<1>2. /\ page \in [at : {"elsewhere", "upload", "materials"}, visit : 0..MaxVisits]
      /\ page.visit \in Nat /\ loop \in [U!Visits -> Loop]
  BY FilesThere, FilesConstants DEF FilesTyped
<1>3. /\ page'.at \in {page.at, "materials"} /\ page'.visit = page.visit
      /\ page' \in [at : {"elsewhere", "upload", "materials"}, visit : 0..MaxVisits]
      /\ page.visit <= page'.visit
  BY <1>1, <1>2
<1>4. loop' \in [U!Visits -> Loop]
  BY <1>1, <1>2 DEF Loop
<1>5. ASSUME NEW w \in U!Visits
      PROVE  /\ loop'[w].pending = loop[w].pending /\ loop'[w].done = loop[w].done
             /\ loop'[w].waits <=> loop[w].waits
             /\ loop'[w].failed <=> loop[w].failed
             /\ \/ loop'[w].runs <=> loop[w].runs
                \/ ~ loop'[w].runs /\ loop[w].done = Len(loop[w].pending)
  BY <1>1, <1>2 DEF Loop
<1> QED BY <1>1, <1>3, <1>4, <1>5, FilesThere, PageMoves

LEMMA OnPickOK == ASSUME FilesInv, NEW r \in U!Rows, U!OnPick(r) PROVE FilesInv'
<1>1. /\ page.at = "upload" /\ queue[r] = U!NoRow
      /\ queue' = [queue EXCEPT ![r] = [status |-> "queued", visit |-> page.visit]]
      /\ page' = page /\ loop' = loop /\ upload' = upload
  BY DEF U!OnPick
<1>2. page.visit \in U!Visits /\ page.visit \in 0..MaxVisits /\ FilesTyped
  BY <1>1, FilesThere
<1>3. /\ FilesTyped' /\ queue'[r] = [status |-> "queued", visit |-> page.visit]
      /\ \A q \in U!Rows \ {r} : queue'[q] = queue[q]
  BY <1>1, <1>2 DEF FilesTyped
<1>4. \A q : /\ Made(q)' <=> Made(q)
             /\ TriesOK(q)' <=> TriesOK(q)
             /\ U!Tried(q)' = U!Tried(q)
  BY <1>1 DEF Made, TriesOK, U!Tried
<1>5. ASSUME NEW q \in U!Rows PROVE RowOK(q)' /\ (queue'[q].status = "done" => Made(q)')
  <2>1. CASE q = r
    BY <1>1, <1>2, <1>3, <2>1, FilesConstants DEF RowOK, U!Visits
  <2>2. CASE q # r
    BY <1>1, <1>3, <1>4, <2>2, FilesThere DEF RowOK
  <2> QED BY <2>1, <2>2
<1>6. ASSUME NEW q \in U!Rows, NEW k \in U!Tries PROVE TryOK(q, k)'
  <2>1. CASE q = r
    <3>1. upload'[q][k] = U!NoUpload
      BY <1>1, <1>2, <2>1, FilesThere DEF RowOK, U!NoRow
    <3> QED BY <3>1 DEF TryOK, U!NoUpload
  <2>2. CASE q # r
    <3>1. TryOK(q, k) /\ queue'[q] = queue[q]
      BY <1>3, <2>2, FilesThere
    <3>2. Settled(q)' <=> Settled(q)
      BY <1>1, <3>1 DEF Settled
    <3>3. U!Current(queue[q].visit)' = U!Current(queue[q].visit)
      BY <1>1, <3>1 DEF U!Current
    <3> QED BY <1>1, <1>4, <3>1, <3>2, <3>3 DEF TryOK
  <2> QED BY <2>1, <2>2
<1>7. ASSUME NEW v \in U!Visits PROVE LoopOK(v)'
  <2>1. LoopOK(v) /\ v # 0 /\ loop[v].done \in Nat /\ Len(loop[v].pending) \in Nat
    BY FilesThere, FilesConstants DEF U!Visits
  <2>3. \A q \in U!Rows : queue[q].visit = v => q # r
    BY <1>1, <2>1 DEF U!NoRow
  <2> QED BY <1>1, <1>3, <1>4, <2>1, <2>3, LoopKeeps
<1> QED BY <1>1, <1>2, <1>3, <1>4, <1>5, <1>6, <1>7, FilesThere DEF FilesInv

LEMMA SubmitOK == FilesInv /\ U!Submit => FilesInv'
<1> SUFFICES ASSUME FilesInv, U!Submit PROVE FilesInv'
  OBVIOUS
<1>1. PICK v, waiting : /\ v = page.visit
                        /\ waiting = {r \in U!Listed : queue[r].status \in {"queued", "error"}}
  OBVIOUS
<1>2. PICK p \in [1..U!Cardinality(waiting) -> waiting] :
         /\ \A i, j \in DOMAIN p : i < j => p[i] < p[j]
         /\ loop' = [loop EXCEPT ![v] = [U!Idle EXCEPT !.runs = TRUE, !.pending = p]]
  BY <1>1 DEF U!Submit
<1>3. /\ page.at = "upload" /\ ~ loop[v].runs
      /\ page' = page /\ queue' = queue /\ upload' = upload
  BY <1>1 DEF U!Submit
<1>4. v \in U!Visits /\ FilesTyped
  BY <1>1, <1>3, FilesThere
<1>5. /\ waiting \in SUBSET U!Rows
      /\ \A r \in waiting : /\ queue[r].visit = v
                            /\ queue[r].status \in {"queued", "error"}
  BY <1>1 DEF U!Listed
<1>6. PICK n \in Nat : n = Cardinality(waiting) /\ n <= MaxFiles
  <2>1. IsFiniteSet(U!Rows) /\ Cardinality(U!Rows) = MaxFiles
    BY FilesConstants, FS_Interval DEF U!Rows
  <2> QED BY <1>5, <2>1, FS_Subset, FS_CardinalityType
<1>7. /\ p \in [1..n -> waiting] /\ p \in Seq(U!Rows) /\ Len(p) = n
      /\ \A j \in 1..n : p[j] \in waiting
  <2>1. p \in [1..n -> waiting]
    BY <1>2, <1>6, FilesCount
  <2>2. p \in [1..n -> U!Rows]
    BY <1>5, <2>1
  <2>3. p \in Seq(U!Rows) /\ Len(p) = n
    BY <2>2, SequenceOf
  <2> QED BY <2>1, <2>3
<1>8. \A j, k \in 1..n : j # k => p[j] # p[k]
  <2> SUFFICES ASSUME NEW j \in 1..n, NEW k \in 1..n, j # k PROVE p[j] # p[k]
    OBVIOUS
  <2>1. p[j] \in Int /\ p[k] \in Int
    <3>1. p[j] \in U!Rows /\ p[k] \in U!Rows
      BY <1>5, <1>7
    <3> QED BY <3>1, FilesConstants DEF U!Rows
  <2>4. DOMAIN p = 1..n /\ \A x, y \in DOMAIN p : x < y => p[x] < p[y]
    BY <1>2, <1>7
  <2>2. CASE j < k
    <3>1. p[j] < p[k]
      BY <2>2, <2>4
    <3> QED BY <2>1, <3>1
  <2>3. CASE k < j
    <3>1. p[k] < p[j]
      BY <2>3, <2>4
    <3> QED BY <2>1, <3>1
  <2> QED BY <2>2, <2>3
<1>9. /\ loop'[v].pending = p /\ loop'[v].done = 0 /\ loop'[v].runs /\ ~ loop'[v].waits
      /\ loop'[v] \in Loop
      /\ \A w \in U!Visits \ {v} : loop'[w] = loop[w]
      /\ loop' \in [U!Visits -> Loop]
  <2>1. loop'[v] = [pending |-> p, done |-> 0, waits |-> FALSE, failed |-> FALSE, runs |-> TRUE]
    BY <1>2, <1>4 DEF FilesTyped, U!Idle
  <2>2. loop'[v] \in Loop
    BY <1>7, <2>1 DEF Loop
  <2> QED BY <1>2, <1>4, <2>1, <2>2 DEF FilesTyped
<1>10. FilesTyped'
  BY <1>3, <1>4, <1>9 DEF FilesTyped
<1>11. \A q : /\ Made(q)' <=> Made(q)
              /\ TriesOK(q)' <=> TriesOK(q)
              /\ RowOK(q)' <=> RowOK(q)
              /\ U!Tried(q)' = U!Tried(q)
  BY <1>3 DEF Made, TriesOK, RowOK, U!Tried
<1>12. ASSUME NEW r \in U!Rows, NEW k \in U!Tries PROVE TryOK(r, k)'
  <2>1. TryOK(r, k)
    BY FilesThere
  <2>4. SUFFICES ASSUME upload[r][k].awaited PROVE TryOK(r, k)'
    BY <1>3 DEF TryOK
  <2>2. CASE queue[r].visit # v
    <3>1. loop'[queue[r].visit] = loop[queue[r].visit]
      BY <1>9, <2>2, <2>4, VisitOf
    <3>2. Settled(r)' <=> Settled(r)
      BY <1>3, <3>1 DEF Settled
    <3>3. U!Current(queue[r].visit)' = U!Current(queue[r].visit)
      BY <1>3, <3>1 DEF U!Current
    <3> QED BY <1>3, <1>11, <2>1, <3>1, <3>2, <3>3 DEF TryOK
  <2>3. CASE queue[r].visit = v
    <3>1. ~ loop[v].waits
      BY <1>3, <1>4, FilesThere DEF LoopOK
    <3>2. Settled(r) => Settled(r)'
      <4>1. SUFFICES ASSUME Settled(r) PROVE Settled(r)'
        OBVIOUS
      <4>2. r \notin waiting
        BY <1>1, <1>3, <1>5, <2>3, <4>1 DEF Settled
      <4>3. \A j \in 1..Len(loop'[v].pending) : loop'[v].pending[j] # r
        BY <1>7, <1>9, <4>2
      <4> QED BY <1>3, <2>3, <4>1, <4>3 DEF Settled
    <3> QED BY <1>3, <2>1, <2>3, <3>1, <3>2 DEF TryOK
  <2> QED BY <2>2, <2>3
<1>13. ASSUME NEW w \in U!Visits PROVE LoopOK(w)'
  <2>1. CASE w = v
    <3>1. \A j \in 1..n : p[j] \in U!Rows /\ queue'[p[j]].visit = v
      BY <1>3, <1>5, <1>7
    <3>2. \A j, k \in 1..Len(p) : j # k => p[j] # p[k]
      BY <1>7, <1>8
    <3>3. Len(p) <= MaxFiles /\ 0 <= Len(p) /\ \A j : j \notin 1..0
      BY <1>6, <1>7
    <3>4. \A j \in 1..Len(p) : p[j] \in U!Rows /\ queue'[p[j]].visit = v
      BY <1>7, <3>1
    <3>5. /\ loop'[v].pending = p /\ loop'[v].done = 0
          /\ loop'[v].runs /\ ~ loop'[v].waits
      BY <1>9
    <3>6. LoopOK(v)'
      BY <3>2, <3>3, <3>4, <3>5 DEF LoopOK
    <3> QED BY <2>1, <3>6
  <2>2. CASE w # v
    <3>1. LoopOK(w) /\ loop'[w] = loop[w] /\ loop[w].done \in Nat /\ Len(loop[w].pending) \in Nat
      BY <1>9, <2>2, FilesThere
    <3> QED BY <1>3, <1>11, <3>1, LoopKeeps
  <2> QED BY <2>1, <2>2
<1> QED BY <1>3, <1>4, <1>10, <1>11, <1>12, <1>13, FilesThere DEF FilesInv

\* The row a loop is at.
LEMMA CurrentOf ==
  ASSUME FilesInv, NEW v \in U!Visits, loop[v].done < Len(loop[v].pending)
  PROVE  /\ U!Current(v) \in U!Rows /\ queue[U!Current(v)].visit = v
         /\ loop[v].done + 1 \in 1..Len(loop[v].pending)
         /\ loop[v].pending[loop[v].done + 1] = U!Current(v)
<1>1. loop[v].done + 1 \in 1..Len(loop[v].pending)
  BY FilesThere
<1> QED BY <1>1, FilesThere DEF LoopOK, U!Current

\* patchQueue() changes the status of one row, if of any.
LEMMA PatchedOf ==
  ASSUME FilesInv, NEW r \in U!Rows, NEW status \in {"uploading", "done", "error"},
         queue' = U!Patched(r, status)
  PROVE  /\ queue' \in [U!Rows -> [status : {"none", "queued", "uploading", "done", "error", "removed"},
                                   visit : 0..MaxVisits]]
         /\ \A q \in U!Rows : queue'[q].visit = queue[q].visit
         /\ \A q \in U!Rows \ {r} : queue'[q] = queue[q]
         /\ queue'[r].status \in {queue[r].status, status}
         /\ queue[r].status = "removed" => queue'[r].status = "removed"
         /\ \/ queue'[r].status = status \/ queue[r].status = "removed"
            \/ page.at # "upload" \/ page.visit # queue[r].visit
<1>1. PICK now : now = IF page.at = "upload" /\ page.visit = queue[r].visit
                          /\ queue[r].status # "removed" THEN status ELSE queue[r].status
  OBVIOUS
<1>2. queue' = [queue EXCEPT ![r].status = now]
  BY <1>1 DEF U!Patched
<1>3. queue \in [U!Rows -> [status : {"none", "queued", "uploading", "done", "error", "removed"},
                            visit : 0..MaxVisits]]
  BY FilesThere DEF FilesTyped
<1>4. now \in {"none", "queued", "uploading", "done", "error", "removed"}
  BY <1>1, <1>3
<1>5. queue'[r].status = now
  BY <1>2, <1>3
<1> QED BY <1>1, <1>2, <1>3, <1>4, <1>5

\* The loop sends the next file.
LEMMA SendOK == ASSUME FilesInv, NEW v \in U!Visits, U!Send(v) PROVE FilesInv'
<1>1. PICK r, k : r = U!Current(v) /\ k = U!Tried(U!Current(v)) + 1
  OBVIOUS
<1>2. /\ loop[v].runs /\ ~ loop[v].waits /\ loop[v].done < Len(loop[v].pending) /\ k \in U!Tries
      /\ upload' = [upload EXCEPT ![r][k] = [at |-> "sent", awaited |-> TRUE]]
      /\ queue' = U!Patched(r, "uploading")
      /\ loop' = [loop EXCEPT ![v].waits = TRUE]
      /\ page' = page
  BY <1>1 DEF U!Send
<1>3. /\ r \in U!Rows /\ queue[r].visit = v /\ FilesTyped
      /\ loop[v].done + 1 \in 1..Len(loop[v].pending)
      /\ loop[v].pending[loop[v].done + 1] = r
  BY <1>1, <1>2, CurrentOf, FilesThere
<1>4. /\ queue' \in [U!Rows -> [status : {"none", "queued", "uploading", "done", "error", "removed"},
                                visit : 0..MaxVisits]]
      /\ \A q \in U!Rows : queue'[q].visit = queue[q].visit
      /\ \A q \in U!Rows \ {r} : queue'[q] = queue[q]
      /\ queue'[r].status \in {queue[r].status, "uploading"}
      /\ queue[r].status = "removed" => queue'[r].status = "removed"
  BY <1>2, <1>3, PatchedOf
<1>5. /\ upload' \in [U!Rows -> [U!Tries -> [at : {"none", "sent", "stored", "made", "lost"},
                                             awaited : BOOLEAN]]]
      /\ \A q \in U!Rows \ {r} : upload'[q] = upload[q]
      /\ upload'[r][k] = [at |-> "sent", awaited |-> TRUE]
      /\ \A j \in U!Tries \ {k} : upload'[r][j] = upload[r][j]
  BY <1>2, <1>3 DEF FilesTyped
<1>6. /\ loop' \in [U!Visits -> Loop] /\ \A w \in U!Visits \ {v} : loop'[w] = loop[w]
      /\ loop'[v].pending = loop[v].pending /\ loop'[v].done = loop[v].done
      /\ loop'[v].failed = loop[v].failed /\ loop'[v].runs /\ loop'[v].waits
  BY <1>2, <1>3 DEF FilesTyped, Loop
<1>7. FilesTyped'
  BY <1>2, <1>3, <1>4, <1>5, <1>6 DEF FilesTyped
<1>8. /\ U!Tried(r) = k - 1 /\ k \in Nat
      /\ \A j \in U!Tries : upload[r][j] # U!NoUpload <=> j <= k - 1
  <2>1. U!Tried(r) \in 0..MaxTries
    BY <1>3, FilesThere
  <2> QED BY <1>1, <1>3, <2>1, FilesThere, FilesConstants
<1>9. [at |-> "sent", awaited |-> TRUE] # U!NoUpload
  BY DEF U!NoUpload
<1>10. \A j \in U!Tries : upload'[r][j] # U!NoUpload <=> j <= k
  <2> SUFFICES ASSUME NEW j \in U!Tries PROVE upload'[r][j] # U!NoUpload <=> j <= k
    OBVIOUS
  <2>1. j \in Int /\ k \in Int
    BY <1>8, FilesConstants DEF U!Tries
  <2>2. CASE j = k
    BY <1>5, <1>9, <2>1, <2>2
  <2>3. CASE j # k
    BY <1>5, <1>8, <2>1, <2>3
  <2> QED BY <2>2, <2>3
<1>11. k \in 0..MaxTries
  BY <1>2, FilesConstants DEF U!Tries
<1>12. TriesOK(r)' /\ U!Tried(r)' = k
  <2>1. \A j \in U!Tries : upload'[r][j].at = "none" => upload'[r][j] = U!NoUpload
    BY <1>3, <1>5, FilesThere DEF TriesOK
  <2>2. U!Tried(r)' = k
    BY <1>10, <1>11, FirstTries, FilesCount DEF U!Tried
  <2> QED BY <1>10, <1>11, <2>1, <2>2 DEF TriesOK
<1>13. \A q \in U!Rows \ {r} : /\ Made(q)' <=> Made(q)
                               /\ TriesOK(q)' <=> TriesOK(q)
                               /\ U!Tried(q)' = U!Tried(q)
  BY <1>5 DEF Made, TriesOK, U!Tried
<1>14. Made(r) => Made(r)'
  <2>1. upload[r][k] = U!NoUpload
    BY <1>2, <1>8
  <2> QED BY <1>5, <2>1 DEF Made, U!NoUpload
<1>15. v \in Nat /\ v # 0 /\ queue[r] # U!NoRow
  BY <1>3, FilesConstants DEF U!Visits, U!NoRow
<1>16. ASSUME NEW q \in U!Rows PROVE RowOK(q)' /\ TriesOK(q)' /\ (queue'[q].status = "done" => Made(q)')
  <2>1. CASE q = r
    <3>1. queue[r].status # "none" /\ v <= page.visit
      BY <1>3, <1>15, FilesThere DEF RowOK
    <3> QED BY <1>2, <1>3, <1>4, <1>12, <1>14, <2>1, <3>1, FilesThere DEF RowOK
  <2>2. CASE q # r
    BY <1>2, <1>4, <1>5, <1>13, <2>2, FilesThere DEF RowOK
  <2> QED BY <2>1, <2>2
<1>17. ASSUME NEW q \in U!Rows, NEW j \in U!Tries PROVE TryOK(q, j)'
  <2>1. TryOK(q, j)
    BY FilesThere
  <2>2. CASE q # r
    <3>1. upload'[q] = upload[q] /\ queue'[q] = queue[q] /\ U!Tried(q)' = U!Tried(q)
      BY <1>4, <1>5, <1>13, <2>2
    <3>2. CASE queue[q].visit = v
      <4>1. Settled(q)' <=> Settled(q)
        BY <1>2, <1>6, <3>1, <3>2 DEF Settled
      <4> QED BY <1>2, <2>1, <3>1, <3>2, <4>1 DEF TryOK
    <3>4. SUFFICES ASSUME upload[q][j].awaited PROVE TryOK(q, j)'
      BY <3>1 DEF TryOK
    <3>3. CASE queue[q].visit # v
      <4>1. loop'[queue[q].visit] = loop[queue[q].visit]
        BY <1>6, <3>3, <3>4, VisitOf
      <4>2. Settled(q)' <=> Settled(q)
        BY <1>2, <3>1, <4>1 DEF Settled
      <4>3. U!Current(queue[q].visit)' = U!Current(queue[q].visit)
        BY <3>1, <4>1 DEF U!Current
      <4> QED BY <2>1, <3>1, <4>1, <4>2, <4>3 DEF TryOK
    <3> QED BY <3>2, <3>3
  <2>3. CASE q = r /\ j = k
    <3>1. U!Current(v)' = r
      BY <1>3, <1>6 DEF U!Current
    <3>2. \A i \in U!Tries : i > k => upload'[r][i] = U!NoUpload
      <4> SUFFICES ASSUME NEW i \in U!Tries, i > k PROVE upload'[r][i] = U!NoUpload
        OBVIOUS
      <4>1. i \in Int /\ ~ (i <= k)
        BY <1>8, FilesConstants DEF U!Tries
      <4> QED BY <1>10, <4>1
    <3> QED BY <1>3, <1>4, <1>6, <1>12, <2>3, <3>1, <3>2 DEF TryOK
  <2>4. CASE q = r /\ j # k
    <3>1. upload'[r][j] = upload[r][j]
      BY <1>5, <2>4
    <3>2. ~ Settled(r)
      <4>1. loop[v].done + 1 > loop[v].done
        BY FilesThere
      <4> QED BY <1>3, <4>1 DEF Settled
    <3>3. ~ (upload[r][j].awaited /\ upload[r][j].at \in {"sent", "stored", "made"})
      BY <1>2, <1>3, <2>1, <2>4, <3>2 DEF TryOK
    <3> QED BY <2>4, <3>1, <3>3 DEF TryOK
  <2> QED BY <2>2, <2>3, <2>4
<1>18. ASSUME NEW w \in U!Visits PROVE LoopOK(w)'
  <2>1. LoopOK(w) /\ loop[w].done \in Nat /\ Len(loop[w].pending) \in Nat
    BY FilesThere
  <2>2. CASE w # v
    <3>1. loop'[w] = loop[w]
      BY <1>6, <2>2
    <3>2. \A q \in U!Rows : queue[q].visit = w => q # r
      BY <1>3, <2>2
    <3> QED BY <1>4, <1>13, <2>1, <3>1, <3>2, LoopKeeps
  <2>3. CASE w = v
    <3>1. PICK p, i : p = loop[v].pending /\ i = loop[v].done
      OBVIOUS
    <3>2. /\ Len(p) <= MaxFiles /\ i <= Len(p) /\ i < Len(p)
          /\ \A j \in 1..Len(p) : p[j] \in U!Rows /\ queue[p[j]].visit = v
          /\ \A j, l \in 1..Len(p) : j # l => p[j] # p[l]
          /\ ~ loop[v].failed => \A j \in 1..i : Made(p[j]) \/ queue[p[j]].status = "removed"
      BY <1>2, <2>1, <2>3, <3>1 DEF LoopOK
    <3>3. \A j \in 1..Len(p) : queue'[p[j]].visit = v
      BY <1>4, <3>2
    <3>4. \A j \in 1..i : Made(p[j]) \/ queue[p[j]].status = "removed" =>
                            Made(p[j])' \/ queue'[p[j]].status = "removed"
      <4> SUFFICES ASSUME NEW j \in 1..i
                   PROVE  Made(p[j]) \/ queue[p[j]].status = "removed" =>
                            Made(p[j])' \/ queue'[p[j]].status = "removed"
        OBVIOUS
      <4>1. j \in 1..Len(p)
        BY <2>1, <2>3, <3>1, <3>2
      <4>2. p[j] \in U!Rows
        BY <3>2, <4>1
      <4>3. PICK q \in U!Rows : q = p[j]
        BY <4>2
      <4> QED BY <1>4, <1>13, <1>14, <4>3
    <3>5. p[i + 1] = r /\ U!Tried(r)' > 0
      BY <1>3, <1>8, <1>12, <3>1, FilesConstants, <1>2 DEF U!Tries
    <3> QED BY <1>6, <2>3, <3>1, <3>2, <3>3, <3>4, <3>5 DEF LoopOK
  <2> QED BY <2>2, <2>3
<1> QED BY <1>2, <1>7, <1>16, <1>17, <1>18, FilesThere DEF FilesInv

\* A loop is through with the file it was at: the upload is over, or nobody
\* waits for it any longer.
QueueKept(r) ==
    /\ queue' \in [U!Rows -> [status : {"none", "queued", "uploading", "done", "error", "removed"},
                              visit : 0..MaxVisits]]
    /\ \A q \in U!Rows : queue'[q].visit = queue[q].visit
    /\ \A q \in U!Rows \ {r} : queue'[q] = queue[q]
    /\ queue[r].status = "removed" => queue'[r].status = "removed"
    /\ queue'[r].status # "none"

UploadKept(r) ==
    /\ upload' \in [U!Rows -> [U!Tries -> [at : {"none", "sent", "stored", "made", "lost"},
                                           awaited : BOOLEAN]]]
    /\ \A q \in U!Rows \ {r} : upload'[q] = upload[q]
    /\ \A j \in U!Tries : /\ upload'[r][j].at = upload[r][j].at
                          /\ upload'[r][j].awaited => upload[r][j].awaited

\* A step that ends a wait, and what it leaves as it was.
Through(v, r, failed) ==
    /\ loop[v].waits /\ U!Goes(v, failed) /\ page' = page /\ r = U!Current(v)
    /\ QueueKept(r) /\ UploadKept(r)
    /\ upload'[r][U!Tried(r)].awaited /\ upload'[r][U!Tried(r)].at \in {"sent", "stored", "made"} =>
          /\ upload'[r][U!Tried(r)].at = "made"
          /\ \/ queue'[r].status \in {"done", "removed"}
             \/ page.at # "upload" \/ page.visit # v
    /\ failed \/ Made(r) \/ queue'[r].status = "removed"
    /\ queue'[r].status = "done" => Made(r)

LEMMA LoopGoes ==
  ASSUME FilesInv, NEW v \in U!Visits, NEW failed \in BOOLEAN, NEW r, Through(v, r, failed)
  PROVE  FilesInv'
<1> USE DEF Through, QueueKept, UploadKept
<1>1. LoopOK(v) /\ loop[v].done \in Nat /\ Len(loop[v].pending) \in Nat
  BY FilesThere
<1>2. PICK p, i : p = loop[v].pending /\ i = loop[v].done
  OBVIOUS
<1>3. /\ Len(p) <= MaxFiles /\ i < Len(p) /\ i \in Nat /\ Len(p) \in Nat
      /\ \A j \in 1..Len(p) : p[j] \in U!Rows /\ queue[p[j]].visit = v
      /\ \A j, l \in 1..Len(p) : j # l => p[j] # p[l]
      /\ ~ loop[v].failed => \A j \in 1..i : Made(p[j]) \/ queue[p[j]].status = "removed"
      /\ loop[v].runs
  BY <1>1, <1>2 DEF LoopOK
<1>4. r \in U!Rows /\ queue[r].visit = v /\ i + 1 \in 1..Len(p) /\ p[i + 1] = r
  BY <1>2, <1>3, CurrentOf
<1>5. /\ loop' = [loop EXCEPT ![v].waits = FALSE, ![v].done = i + 1, ![v].failed = loop[v].failed \/ failed]
      /\ loop \in [U!Visits -> Loop]
  BY <1>2, FilesThere DEF U!Goes, FilesTyped
<1>6. /\ loop'[v].pending = p /\ loop'[v].done = i + 1 /\ ~ loop'[v].waits /\ loop'[v].runs
      /\ ~ loop'[v].failed => ~ loop[v].failed /\ ~ failed
      /\ \A w \in U!Visits \ {v} : loop'[w] = loop[w]
      /\ loop' \in [U!Visits -> Loop]
  <2>1. PICK or \in BOOLEAN : or <=> loop[v].failed \/ failed
    OBVIOUS
  <2>2. loop[v] \in Loop
    BY FilesThere
  <2>3. or = (loop[v].failed \/ failed)
    BY <2>1
  <2>4. loop' = [loop EXCEPT ![v] = [loop[v] EXCEPT !.waits = FALSE, !.done = i + 1, !.failed = or]]
    BY <1>5, <2>3
  <2>5. loop'[v] = [loop[v] EXCEPT !.waits = FALSE, !.done = i + 1, !.failed = or]
    BY <1>5, <2>4
  <2>7. PICK b, c, n : b = loop[v] /\ c = loop'[v] /\ n = i + 1
    OBVIOUS
  <2>8. c = [b EXCEPT !.waits = FALSE, !.done = n, !.failed = or] /\ b \in Loop /\ n \in Nat
    BY <1>3, <2>2, <2>5, <2>7
  <2>9. /\ c \in Loop /\ c.pending = b.pending /\ c.done = n /\ c.waits = FALSE
        /\ c.runs = b.runs /\ c.failed = or
    BY <2>8 DEF Loop
  <2>6. /\ loop'[v] \in Loop /\ loop'[v].pending = p /\ loop'[v].done = i + 1 /\ ~ loop'[v].waits
        /\ loop'[v].runs /\ loop'[v].failed = or
    BY <1>2, <1>3, <2>7, <2>9
  <2> QED BY <1>5, <2>1, <2>4, <2>6
<1>7. FilesTyped'
  BY <1>6, FilesThere DEF FilesTyped
<1>8. \A q \in U!Rows, j \in U!Tries : /\ upload'[q][j].at = upload[q][j].at
                                       /\ upload'[q][j].awaited => upload[q][j].awaited
                                       /\ upload'[q][j] = U!NoUpload <=> upload[q][j] = U!NoUpload
  <2> SUFFICES ASSUME NEW q \in U!Rows, NEW j \in U!Tries
               PROVE  /\ upload'[q][j].at = upload[q][j].at
                      /\ upload'[q][j].awaited => upload[q][j].awaited
                      /\ upload'[q][j] = U!NoUpload <=> upload[q][j] = U!NoUpload
    OBVIOUS
  <2>1. /\ upload'[q][j].at = upload[q][j].at
        /\ upload'[q][j].awaited => upload[q][j].awaited
    BY <1>4
  <2>2. upload'[q][j] = U!NoUpload => upload[q][j] = U!NoUpload
    <3>1. upload[q][j].at = "none" => upload[q][j] = U!NoUpload
      BY FilesThere DEF TriesOK
    <3> QED BY <2>1, <3>1 DEF U!NoUpload
  <2>3. upload[q][j] = U!NoUpload => upload'[q][j] = U!NoUpload
    <3>1. /\ upload'[q][j] \in [at : {"none", "sent", "stored", "made", "lost"}, awaited : BOOLEAN]
      OBVIOUS
    <3>2. upload[q][j] = U!NoUpload => upload'[q][j].at = "none" /\ upload'[q][j].awaited = FALSE
      BY <2>1, <3>1 DEF U!NoUpload
    <3> QED BY <3>1, <3>2 DEF U!NoUpload
  <2> QED BY <2>1, <2>2, <2>3
<1>9. ASSUME NEW q \in U!Rows
      PROVE  /\ Made(q)' <=> Made(q)
             /\ U!Tried(q)' = U!Tried(q)
             /\ TriesOK(q)'
  <2>5. \A j \in U!Tries : upload'[q][j].at = upload[q][j].at
    BY <1>8
  <2>1. Made(q)' <=> Made(q)
    <3>1. ASSUME Made(q)' PROVE Made(q)
      <4>1. PICK k \in U!Tries : upload'[q][k].at = "made"
        BY <3>1 DEF Made
      <4>2. upload[q][k].at = "made"
        BY <2>5, <4>1
      <4> QED BY <4>2 DEF Made
    <3>2. ASSUME Made(q) PROVE Made(q)'
      <4>1. PICK k \in U!Tries : upload[q][k].at = "made"
        BY <3>2 DEF Made
      <4>2. upload'[q][k].at = "made"
        BY <2>5, <4>1
      <4> QED BY <4>2 DEF Made
    <3> QED BY <3>1, <3>2
  <2>2. {k \in U!Tries : upload'[q][k] # U!NoUpload} = {k \in U!Tries : upload[q][k] # U!NoUpload}
    BY <1>8
  <2>3. U!Tried(q)' = U!Tried(q)
    BY <2>2 DEF U!Tried
  <2>4. TriesOK(q)'
    <3>1. \A j \in U!Tries : upload'[q][j] = U!NoUpload <=> upload[q][j] = U!NoUpload
      BY <1>8
    <3>2. TriesOK(q)
      BY FilesThere
    <3> QED BY <2>5, <3>1, <3>2 DEF TriesOK
  <2> QED BY <2>1, <2>3, <2>4
<1>10. ASSUME NEW q \in U!Rows PROVE RowOK(q)' /\ (queue'[q].status = "done" => Made(q)')
  <2>1. CASE q = r
    <3>1. queue[r] # U!NoRow
      BY <1>4, FilesConstants DEF U!NoRow, U!Visits
    <3> QED BY <1>4, <1>9, <2>1, <3>1, FilesThere DEF RowOK
  <2>2. CASE q # r
    <3>1. queue'[q] = queue[q] /\ upload'[q] = upload[q] /\ RowOK(q)
      BY <2>2, FilesThere
    <3> QED BY <1>9, <3>1, FilesThere DEF RowOK
  <2> QED BY <2>1, <2>2
<1>11. ASSUME NEW q \in U!Rows, queue[q].visit \in U!Visits, Settled(q), q # r PROVE Settled(q)'
  <2>1. queue'[q] = queue[q]
    BY <1>11
  <2>2. CASE queue[q].visit = v
    <3>1. \A j \in 1..Len(p) : j > i + 1 => p[j] # q
      <4> SUFFICES ASSUME NEW j \in 1..Len(p), j > i + 1 PROVE p[j] # q
        OBVIOUS
      <4>1. j > i
        BY <1>3
      <4> QED BY <1>2, <1>11, <2>2, <4>1 DEF Settled
    <3> QED BY <1>6, <1>11, <2>1, <2>2, <3>1 DEF Settled
  <2>3. CASE queue[q].visit # v
    <3>1. loop'[queue[q].visit] = loop[queue[q].visit]
      BY <1>6, <1>11, <2>3
    <3> QED BY <1>11, <2>1, <3>1 DEF Settled
  <2> QED BY <2>2, <2>3
<1>12. ASSUME NEW q \in U!Rows, NEW k \in U!Tries PROVE TryOK(q, k)'
  <2>1. SUFFICES ASSUME upload'[q][k].awaited, upload'[q][k].at \in {"sent", "stored", "made"}
                 PROVE  TryOK(q, k)'
    BY DEF TryOK
  <2>2. /\ upload[q][k].awaited /\ upload[q][k].at \in {"sent", "stored", "made"}
        /\ upload'[q][k].at = upload[q][k].at /\ queue[q].visit \in U!Visits
        /\ \A j \in U!Tries : j > k => upload'[q][j] = U!NoUpload
    BY <1>8, <2>1, FilesThere, VisitOf DEF TryOK
  <2>3. \/ /\ loop[queue[q].visit].waits
           /\ U!Current(queue[q].visit) = q /\ U!Tried(q) = k
        \/ upload[q][k].at = "made" /\ Settled(q)
    BY <2>2, FilesThere DEF TryOK
  <2>4. CASE q # r
    <3>1. queue'[q] = queue[q]
      BY <2>4
    <3>2. CASE queue[q].visit = v
      <4>1. U!Current(v) # q
        BY <2>4
      <4> QED BY <1>11, <2>2, <2>3, <2>4, <3>2, <4>1 DEF TryOK
    <3>3. CASE queue[q].visit # v
      <4>1. loop'[queue[q].visit] = loop[queue[q].visit]
        BY <1>6, <2>2, <3>3
      <4>2. U!Current(queue[q].visit)' = U!Current(queue[q].visit)
        BY <3>1, <4>1 DEF U!Current
      <4> QED BY <1>9, <1>11, <2>2, <2>3, <2>4, <3>1, <4>1, <4>2 DEF TryOK
    <3> QED BY <3>2, <3>3
  <2>5. CASE q = r
    <3>1. ~ Settled(r)
      BY <1>2, <1>3, <1>4 DEF Settled
    <3>2. k = U!Tried(r)
      BY <2>3, <2>5, <3>1
    <3>3. /\ upload'[r][k].at = "made"
          /\ \/ queue'[r].status \in {"done", "removed"}
             \/ page.at # "upload" \/ page.visit # v
      BY <2>1, <2>5, <3>2
    <3>4. \A j \in 1..Len(p) : j > i + 1 => p[j] # r
      BY <1>3, <1>4
    <3>5. Settled(r)'
      BY <1>4, <1>6, <3>3, <3>4 DEF Settled
    <3> QED BY <2>2, <2>5, <3>3, <3>5 DEF TryOK
  <2> QED BY <2>4, <2>5
<1>13. ASSUME NEW w \in U!Visits PROVE LoopOK(w)'
  <2>1. LoopOK(w) /\ loop[w].done \in Nat /\ Len(loop[w].pending) \in Nat
    BY FilesThere
  <2>2. CASE w # v
    <3>1. loop'[w] = loop[w]
      BY <1>6, <2>2
    <3>2. \A q \in U!Rows : queue[q].visit = w => q # r
      BY <1>4, <2>2
    <3>3. \A q \in U!Rows : queue[q].visit = w =>
            /\ queue'[q].visit = queue[q].visit
            /\ Made(q) => Made(q)'
            /\ queue[q].status = "removed" => queue'[q].status = "removed"
            /\ U!Tried(q) > 0 => U!Tried(q)' > 0
      BY <1>9, <3>2
    <3> HIDE DEF Through, QueueKept, UploadKept
    <3> QED BY <2>1, <3>1, <3>3, LoopKeeps
  <2>3. CASE w = v
    <3>1. \A j \in 1..Len(p) : p[j] \in U!Rows /\ queue'[p[j]].visit = v
      BY <1>3
    <3>2. ASSUME ~ loop'[v].failed, NEW j \in 1..i + 1
          PROVE  Made(p[j])' \/ queue'[p[j]].status = "removed"
      <4>1. CASE j = i + 1
        BY <1>4, <1>6, <1>9, <3>2, <4>1
      <4>2. CASE j # i + 1
        <5>1. j \in 1..i /\ j \in 1..Len(p)
          BY <1>3, <4>2
        <5>2. PICK q \in U!Rows : q = p[j]
          BY <1>3, <5>1
        <5>3. Made(q) \/ queue[q].status = "removed"
          BY <1>3, <1>6, <3>2, <5>1, <5>2
        <5>4. queue[q].status = "removed" => queue'[q].status = "removed"
          BY <1>4
        <5> QED BY <1>9, <5>2, <5>3, <5>4
      <4> QED BY <4>1, <4>2
    <3>3. Len(p) <= MaxFiles /\ i + 1 <= Len(p) /\ \A j, l \in 1..Len(p) : j # l => p[j] # p[l]
      BY <1>3
    <3>4. loop'[v].pending = p /\ loop'[v].done = i + 1 /\ ~ loop'[v].waits /\ loop'[v].runs
      BY <1>6
    <3>5. LoopOK(v)'
      BY <3>1, <3>2, <3>3, <3>4 DEF LoopOK
    <3> QED BY <2>3, <3>5
  <2> QED BY <2>2, <2>3
<1> QED BY <1>7, <1>9, <1>10, <1>12, <1>13, FilesThere DEF FilesInv

\* The upload a loop waits for.
LEMMA FileRequestOf ==
  ASSUME FilesInv, NEW v \in U!Visits, loop[v].waits
  PROVE  /\ U!Current(v) \in U!Rows /\ queue[U!Current(v)].visit = v
         /\ U!Tried(U!Current(v)) \in U!Tries
         /\ U!Request(v) = upload[U!Current(v)][U!Tried(U!Current(v))]
         /\ queue[U!Current(v)].status # "none"
         /\ loop[v].done < Len(loop[v].pending)
<1>1. loop[v].done < Len(loop[v].pending) /\ U!Tried(loop[v].pending[loop[v].done + 1]) > 0
  BY FilesThere DEF LoopOK
<1>2. /\ U!Current(v) \in U!Rows /\ queue[U!Current(v)].visit = v
      /\ loop[v].pending[loop[v].done + 1] = U!Current(v)
  BY <1>1, CurrentOf
<1>3. PICK r \in U!Rows : r = U!Current(v)
  BY <1>2
<1>4. U!Tried(r) \in 0..MaxTries /\ U!Tried(r) > 0
  BY <1>1, <1>2, <1>3, FilesThere
<1>5. U!Tried(r) \in U!Tries
  BY <1>4, FilesConstants DEF U!Tries
<1>6. queue[r].status # "none"
  <2>1. queue[r] # U!NoRow
    BY <1>2, <1>3, FilesConstants DEF U!NoRow, U!Visits
  <2> QED BY <2>1, FilesThere DEF RowOK
<1> QED BY <1>1, <1>2, <1>3, <1>5, <1>6 DEF U!Request

LEMMA AnsweredOK ==
  ASSUME FilesInv, NEW v \in U!Visits, U!Answer(v) \/ U!Error(v)
  PROVE  FilesInv'
<1>1. PICK r, k : r = U!Current(v) /\ k = U!Tried(U!Current(v))
  OBVIOUS
<1>2. loop[v].waits /\ page' = page /\ upload' = upload
  BY DEF U!Answer, U!Error
<1>3. /\ r \in U!Rows /\ queue[r].visit = v /\ k \in U!Tries /\ k = U!Tried(r)
      /\ U!Request(v) = upload[r][k] /\ queue[r].status # "none"
  BY <1>1, <1>2, FileRequestOf
<1>4. FilesTyped
  BY FilesThere
<1>5. CASE U!Answer(v)
  <2>1. upload[r][k].at = "made" /\ queue' = U!Patched(r, "done") /\ U!Goes(v, FALSE)
    BY <1>1, <1>3, <1>5 DEF U!Answer
  <2>2. Made(r)
    BY <1>3, <2>1 DEF Made
  <2>3. QueueKept(r) /\ (queue'[r].status = "done" => Made(r))
        /\ (\/ queue'[r].status \in {"done", "removed"}
            \/ page.at # "upload" \/ page.visit # v)
    BY <1>3, <2>1, <2>2, PatchedOf DEF QueueKept
  <2>4. UploadKept(r)
    BY <1>2, <1>4 DEF FilesTyped, UploadKept
  <2>5. upload'[r][U!Tried(r)].at = "made"
    BY <1>2, <1>3, <2>1
  <2>6. Through(v, r, FALSE)
    BY <1>1, <1>2, <2>1, <2>2, <2>3, <2>4, <2>5 DEF Through
  <2> QED BY <2>6, LoopGoes
<1>6. CASE U!Error(v)
  <2>1. upload[r][k].at = "lost" /\ queue' = U!Patched(r, "error") /\ U!Goes(v, TRUE)
    BY <1>1, <1>3, <1>6 DEF U!Error
  <2>2. queue'[r].status = "done" => Made(r)
    BY <1>3, <2>1, PatchedOf, FilesThere
  <2>3. QueueKept(r)
    BY <1>3, <2>1, PatchedOf DEF QueueKept
  <2>4. UploadKept(r)
    BY <1>2, <1>4 DEF FilesTyped, UploadKept
  <2>5. upload'[r][U!Tried(r)].at = "lost"
    BY <1>2, <1>3, <2>1
  <2>6. Through(v, r, TRUE)
    BY <1>1, <1>2, <2>1, <2>2, <2>3, <2>4, <2>5 DEF Through
  <2> QED BY <2>6, LoopGoes
<1> QED BY <1>5, <1>6

\* Nobody waits for the upload any longer.
LEMMA UnawaitedOf ==
  ASSUME FilesInv, NEW v \in U!Visits, loop[v].waits, upload' = U!Unawaited(v)
  PROVE  UploadKept(U!Current(v)) /\ ~ upload'[U!Current(v)][U!Tried(U!Current(v))].awaited
<1>1. PICK r \in U!Rows, k \in U!Tries : r = U!Current(v) /\ k = U!Tried(U!Current(v))
  BY FileRequestOf
<1>2. upload' = [upload EXCEPT ![r][k].awaited = FALSE]
  BY <1>1 DEF U!Unawaited
<1>3. upload \in [U!Rows -> [U!Tries -> [at : {"none", "sent", "stored", "made", "lost"},
                                         awaited : BOOLEAN]]]
  BY FilesThere DEF FilesTyped
<1>4. upload'[r] = [upload[r] EXCEPT ![k].awaited = FALSE] /\ \A q \in U!Rows \ {r} : upload'[q] = upload[q]
  BY <1>2, <1>3
<1>5. PICK f, g : f = upload[r] /\ g = upload'[r]
  OBVIOUS
<1>6. f \in [U!Tries -> [at : {"none", "sent", "stored", "made", "lost"}, awaited : BOOLEAN]]
  BY <1>3, <1>5
<1>7. g = [f EXCEPT ![k].awaited = FALSE]
  BY <1>4, <1>5
<1>8. g \in [U!Tries -> [at : {"none", "sent", "stored", "made", "lost"}, awaited : BOOLEAN]]
  BY <1>6, <1>7
<1>9. \A j \in U!Tries : g[j].at = f[j].at /\ (g[j].awaited => f[j].awaited)
  BY <1>6, <1>7
<1>10. ~ g[k].awaited
  BY <1>6, <1>7
<1>11. upload' \in [U!Rows -> [U!Tries -> [at : {"none", "sent", "stored", "made", "lost"},
                                           awaited : BOOLEAN]]]
  BY <1>2, <1>3, <1>4, <1>5, <1>8
<1> QED BY <1>1, <1>4, <1>5, <1>9, <1>10, <1>11 DEF UploadKept

LEMMA TimeoutOK == ASSUME FilesInv, NEW v \in U!Visits, U!Timeout(v) PROVE FilesInv'
<1>1. PICK r : r = U!Current(v)
  OBVIOUS
<1>2. /\ loop[v].waits /\ page' = page /\ upload' = U!Unawaited(v)
      /\ queue' = U!Patched(r, "error") /\ U!Goes(v, TRUE)
  BY <1>1 DEF U!Timeout
<1>3. r \in U!Rows /\ queue[r].visit = v /\ queue[r].status # "none"
  BY <1>1, <1>2, FileRequestOf
<1>4. queue'[r].status = "done" => Made(r)
  BY <1>2, <1>3, PatchedOf, FilesThere
<1>5. QueueKept(r)
  BY <1>2, <1>3, PatchedOf DEF QueueKept
<1>6. UploadKept(r) /\ ~ upload'[r][U!Tried(r)].awaited
  BY <1>1, <1>2, UnawaitedOf
<1>7. Through(v, r, TRUE)
  BY <1>1, <1>2, <1>4, <1>5, <1>6 DEF Through
<1> QED BY <1>7, LoopGoes

LEMMA RemoveFileOK == ASSUME FilesInv, NEW r \in U!Rows, U!RemoveFile(r) PROVE FilesInv'
<1>1. PICK v : v = page.visit
  OBVIOUS
<1>2. /\ page.at = "upload" /\ queue[r].visit = v /\ queue[r].status \notin {"none", "removed", "done"}
      /\ queue' = [queue EXCEPT ![r].status = "removed"] /\ page' = page
  BY <1>1 DEF U!RemoveFile, U!Listed
<1>3. v \in U!Visits /\ FilesTyped
  BY <1>1, <1>2, FilesThere
<1>4. /\ queue' \in [U!Rows -> [status : {"none", "queued", "uploading", "done", "error", "removed"},
                                visit : 0..MaxVisits]]
      /\ \A q \in U!Rows : queue'[q].visit = queue[q].visit
      /\ \A q \in U!Rows \ {r} : queue'[q] = queue[q]
      /\ queue'[r].status = "removed"
  BY <1>2, <1>3 DEF FilesTyped
<1>5. CASE loop[v].waits /\ U!Current(v) = r
  <2>1. upload' = U!Unawaited(v) /\ U!Goes(v, FALSE)
    BY <1>1, <1>5 DEF U!RemoveFile
  <2>2. UploadKept(r) /\ ~ upload'[r][U!Tried(r)].awaited
    BY <1>3, <1>5, <2>1, UnawaitedOf
  <2>3. QueueKept(r)
    BY <1>4 DEF QueueKept
  <2>4. Through(v, r, FALSE)
    BY <1>2, <1>4, <1>5, <2>1, <2>2, <2>3 DEF Through
  <2> QED BY <1>3, <2>4, LoopGoes
<1>6. CASE ~ (loop[v].waits /\ U!Current(v) = r)
  <2>1. upload' = upload /\ loop' = loop
    BY <1>1, <1>6 DEF U!RemoveFile
  <2>2. \A q : /\ Made(q)' <=> Made(q)
               /\ TriesOK(q)' <=> TriesOK(q)
               /\ U!Tried(q)' = U!Tried(q)
    BY <2>1 DEF Made, TriesOK, U!Tried
  <2>3. ASSUME NEW q \in U!Rows PROVE RowOK(q)' /\ (queue'[q].status = "done" => Made(q)')
    <3>1. CASE q = r
      BY <1>2, <1>4, <2>1, <2>2, <3>1, FilesThere DEF RowOK, U!NoRow
    <3>2. CASE q # r
      BY <1>2, <1>4, <2>1, <2>2, <3>2, FilesThere DEF RowOK
    <3> QED BY <3>1, <3>2
  <2>4. ASSUME NEW q \in U!Rows, NEW k \in U!Tries PROVE TryOK(q, k)'
    <3>1. TryOK(q, k) /\ queue'[q].visit = queue[q].visit
      BY <1>4, FilesThere
    <3>2. Settled(q) => Settled(q)'
      <4>1. queue[q].status \in {"done", "removed"} => queue'[q].status \in {"done", "removed"}
        BY <1>4
      <4> QED BY <1>2, <2>1, <3>1, <4>1 DEF Settled
    <3>3. U!Current(queue[q].visit)' = U!Current(queue[q].visit)
      BY <2>1, <3>1 DEF U!Current
    <3> QED BY <2>1, <2>2, <3>1, <3>2, <3>3 DEF TryOK
  <2>5. ASSUME NEW w \in U!Visits PROVE LoopOK(w)'
    <3>1. LoopOK(w) /\ loop[w].done \in Nat /\ Len(loop[w].pending) \in Nat /\ loop'[w] = loop[w]
      BY <2>1, FilesThere
    <3>2. \A q \in U!Rows : queue[q].status = "removed" => queue'[q].status = "removed"
      BY <1>4
    <3> QED BY <1>4, <2>2, <3>1, <3>2, LoopKeeps
  <2>6. FilesTyped'
    BY <1>2, <1>3, <1>4, <2>1 DEF FilesTyped
  <2> QED BY <1>2, <2>2, <2>3, <2>4, <2>5, <2>6, FilesThere DEF FilesInv
<1> QED BY <1>5, <1>6

\* The server goes on, or gives up.
LEMMA ServerOK ==
  ASSUME FilesInv, NEW r \in U!Rows, NEW k \in U!Tries,
         U!Put(r, k) \/ U!Make(r, k) \/ U!Lose(r, k)
  PROVE  FilesInv'
<1>1. PICK at \in {"stored", "made", "lost"} : U!Becomes(r, k, at)
  BY DEF U!Put, U!Make, U!Lose
<1>2. upload[r][k].at \in {"sent", "stored"}
  BY DEF U!Put, U!Make, U!Lose
<1>3. /\ upload' = [upload EXCEPT ![r][k].at = at]
      /\ page' = page /\ queue' = queue /\ loop' = loop
  BY <1>1 DEF U!Becomes
<1>4. FilesTyped
  BY FilesThere
<1>5. /\ upload' \in [U!Rows -> [U!Tries -> [at : {"none", "sent", "stored", "made", "lost"},
                                             awaited : BOOLEAN]]]
      /\ upload'[r][k].at = at
      /\ \A q \in U!Rows, j \in U!Tries : /\ upload'[q][j].awaited = upload[q][j].awaited
                                          /\ q # r \/ j # k => upload'[q][j] = upload[q][j]
  <2>1. upload \in [U!Rows -> [U!Tries -> [at : {"none", "sent", "stored", "made", "lost"},
                                           awaited : BOOLEAN]]]
    BY <1>4 DEF FilesTyped
  <2>2. /\ upload'[r] = [upload[r] EXCEPT ![k].at = at]
        /\ \A q \in U!Rows \ {r} : upload'[q] = upload[q]
    BY <1>3, <2>1
  <2>3. PICK f, g : f = upload[r] /\ g = upload'[r]
    OBVIOUS
  <2>4. /\ f \in [U!Tries -> [at : {"none", "sent", "stored", "made", "lost"}, awaited : BOOLEAN]]
        /\ g = [f EXCEPT ![k].at = at]
    BY <2>1, <2>2, <2>3
  <2>5. g \in [U!Tries -> [at : {"none", "sent", "stored", "made", "lost"}, awaited : BOOLEAN]]
    BY <2>4
  <2>6. g[k].at = at /\ \A j \in U!Tries : g[j].awaited = f[j].awaited /\ (j # k => g[j] = f[j])
    BY <2>4
  <2>7. upload' \in [U!Rows -> [U!Tries -> [at : {"none", "sent", "stored", "made", "lost"},
                                            awaited : BOOLEAN]]]
    BY <1>3, <2>1, <2>3, <2>5
  <2> QED BY <2>2, <2>3, <2>6, <2>7
<1>6. \A q \in U!Rows, j \in U!Tries : upload'[q][j] = U!NoUpload <=> upload[q][j] = U!NoUpload
  BY <1>2, <1>5 DEF U!NoUpload
<1>7. ASSUME NEW q \in U!Rows PROVE Made(q) => Made(q)'
  <2> SUFFICES ASSUME NEW j \in U!Tries, upload[q][j].at = "made" PROVE Made(q)'
    BY DEF Made
  <2>1. q # r \/ j # k
    BY <1>2
  <2>2. upload'[q][j].at = "made"
    BY <1>5, <2>1
  <2> QED BY <2>2 DEF Made
<1>8. ASSUME NEW q \in U!Rows PROVE U!Tried(q)' = U!Tried(q) /\ TriesOK(q)'
  <2>1. {j \in U!Tries : upload'[q][j] # U!NoUpload} = {j \in U!Tries : upload[q][j] # U!NoUpload}
    BY <1>6
  <2>2. U!Tried(q)' = U!Tried(q)
    BY <2>1 DEF U!Tried
  <2>3. \A j \in U!Tries : upload'[q][j].at = "none" => upload[q][j].at = "none"
    BY <1>5
  <2>4. TriesOK(q)
    BY FilesThere
  <2> QED BY <1>6, <2>2, <2>3, <2>4 DEF TriesOK
<1>9. FilesTyped'
  BY <1>3, <1>4, <1>5 DEF FilesTyped
<1>10. ASSUME NEW q \in U!Rows PROVE RowOK(q)' /\ (queue'[q].status = "done" => Made(q)')
  BY <1>3, <1>6, <1>7, FilesThere DEF RowOK
<1>11. ASSUME NEW q \in U!Rows, NEW j \in U!Tries PROVE TryOK(q, j)'
  <2>1. SUFFICES ASSUME upload'[q][j].awaited, upload'[q][j].at \in {"sent", "stored", "made"}
                 PROVE  TryOK(q, j)'
    BY DEF TryOK
  <2>2. TryOK(q, j) /\ upload[q][j].awaited /\ upload[q][j].at \in {"sent", "stored", "made"}
    BY <1>2, <1>5, <2>1, FilesThere
  <2>3. \A i \in U!Tries : i > j => upload'[q][i] = U!NoUpload
    BY <1>6, <2>2 DEF TryOK
  <2>4. Settled(q)' <=> Settled(q)
    BY <1>3 DEF Settled
  <2>5. U!Current(queue[q].visit)' = U!Current(queue[q].visit)
    BY <1>3 DEF U!Current
  <2>6. upload[q][j].at = "made" => upload'[q][j].at = "made"
    BY <1>2, <1>5
  <2> QED BY <1>3, <1>8, <2>2, <2>3, <2>4, <2>5, <2>6 DEF TryOK
<1>12. ASSUME NEW w \in U!Visits PROVE LoopOK(w)'
  <2>1. LoopOK(w) /\ loop[w].done \in Nat /\ Len(loop[w].pending) \in Nat /\ loop'[w] = loop[w]
    BY <1>3, FilesThere
  <2> QED BY <1>3, <1>7, <1>8, <2>1, LoopKeeps
<1> QED BY <1>3, <1>8, <1>9, <1>10, <1>11, <1>12, FilesThere DEF FilesInv

LEMMA FilesNext == FilesInv /\ U!Next => FilesInv'
<1> SUFFICES ASSUME FilesInv, U!Next PROVE FilesInv'
  OBVIOUS
<1>1. CASE U!Open \/ U!Leave \/ U!Submit
  BY <1>1, FileOpenOK, LeaveOK, SubmitOK
<1>2. CASE \E r \in U!Rows : U!OnPick(r) \/ U!RemoveFile(r)
  BY <1>2, OnPickOK, RemoveFileOK
<1>3. CASE \E v \in U!Visits : U!Send(v) \/ U!Answer(v) \/ U!Error(v) \/ U!Timeout(v) \/ U!Finish(v)
  BY <1>3, SendOK, AnsweredOK, TimeoutOK, FinishOK
<1>4. CASE \E r \in U!Rows, k \in U!Tries : U!Put(r, k) \/ U!Make(r, k) \/ U!Lose(r, k)
  BY <1>4, ServerOK
<1> QED BY <1>1, <1>2, <1>3, <1>4 DEF U!Next

LEMMA FilesStutter == FilesInv /\ UNCHANGED fileVars => FilesInv'
<1> SUFFICES ASSUME FilesInv, UNCHANGED fileVars PROVE FilesInv'
  OBVIOUS
<1>1. page' = page /\ queue' = queue /\ loop' = loop /\ upload' = upload
  BY DEF fileVars
<1>2. \A r, k : /\ (TryOK(r, k)' <=> TryOK(r, k)) /\ (Made(r)' <=> Made(r))
                /\ (TriesOK(r)' <=> TriesOK(r)) /\ (RowOK(r)' <=> RowOK(r))
  BY <1>1 DEF TryOK, Made, TriesOK, RowOK, Settled, U!Tried, U!Current
<1>3. \A v \in U!Visits : LoopOK(v)'
  <2>1. \A r : U!Tried(r)' = U!Tried(r)
    BY <1>1 DEF U!Tried
  <2> QED BY <1>1, <1>2, <2>1, FilesThere, LoopKeeps
<1> QED BY <1>1, <1>2, <1>3 DEF FilesInv, FilesTyped

LEMMA FilesImply == FilesInv => U!TypeOK /\ U!MaterialsAdded
<1> SUFFICES ASSUME FilesInv PROVE U!TypeOK /\ U!MaterialsAdded
  OBVIOUS
<1>1. \A v \in U!Visits : /\ loop[v].pending \in Seq(U!Rows) /\ loop[v].done \in 0..MaxFiles
                          /\ {loop[v].waits, loop[v].failed, loop[v].runs} \subseteq BOOLEAN
  <2> SUFFICES ASSUME NEW v \in U!Visits
               PROVE  /\ loop[v].pending \in Seq(U!Rows) /\ loop[v].done \in 0..MaxFiles
                      /\ {loop[v].waits, loop[v].failed, loop[v].runs} \subseteq BOOLEAN
    OBVIOUS
  <2>1. loop[v] \in Loop /\ Len(loop[v].pending) \in Nat
    BY FilesThere
  <2>2. Len(loop[v].pending) <= MaxFiles /\ loop[v].done <= Len(loop[v].pending)
    BY FilesThere DEF LoopOK
  <2> QED BY <2>1, <2>2, FilesConstants DEF Loop
<1>2. U!TypeOK
  BY <1>1, FilesThere DEF FilesTyped, U!TypeOK
<1>3. U!AddedAsShown
  <2>1. ASSUME NEW r \in U!Rows, queue[r].status = "done" PROVE U!Materials(r) # {}
    BY <2>1, FilesThere DEF Made, U!Materials
  <2>2. ASSUME NEW r \in U!Rows, NEW j \in U!Materials(r), NEW k \in U!Materials(r), j < k
        PROVE  ~ upload[r][j].awaited
    <3>1. /\ j \in U!Tries /\ k \in U!Tries
          /\ upload[r][j].at = "made" /\ upload[r][k].at = "made"
      BY DEF U!Materials
    <3>2. TryOK(r, j) /\ k > j
      BY <2>2, <3>1, FilesThere, FilesConstants DEF U!Tries
    <3>3. upload[r][k] # U!NoUpload
      BY <3>1 DEF U!NoUpload
    <3> QED BY <3>1, <3>2, <3>3 DEF TryOK
  <2> QED BY <2>1, <2>2 DEF U!AddedAsShown
<1>4. U!NoFileForgotten
  <2> SUFFICES ASSUME NEW v \in U!Visits, loop[v].done = Len(loop[v].pending), ~ loop[v].failed,
                      NEW r \in U!Range(loop[v].pending)
               PROVE  U!Materials(r) # {} \/ queue[r].status = "removed"
    BY DEF U!NoFileForgotten
  <2>1. loop[v].pending \in Seq(U!Rows) /\ Len(loop[v].pending) \in Nat
    BY <1>1, FilesThere
  <2>2. PICK j \in 1..Len(loop[v].pending) : r = loop[v].pending[j]
    <3>1. DOMAIN loop[v].pending = 1..Len(loop[v].pending)
      BY <2>1, LenProperties
    <3> QED BY <3>1 DEF U!Range
  <2>3. Made(r) \/ queue[r].status = "removed"
    BY <2>2, FilesThere DEF LoopOK
  <2> QED BY <2>3 DEF Made, U!Materials
<1>5. U!OneStream
  <2> SUFFICES ASSUME NEW v \in U!Visits
               PROVE  Cardinality({s \in U!Rows \X U!Tries :
                         /\ queue[s[1]].visit = v /\ upload[s[1]][s[2]].awaited
                         /\ upload[s[1]][s[2]].at \in {"sent", "stored"}}) <= 1
    BY FilesCount DEF U!OneStream
  <2>1. PICK open : open = {s \in U!Rows \X U!Tries :
                              /\ queue[s[1]].visit = v /\ upload[s[1]][s[2]].awaited
                              /\ upload[s[1]][s[2]].at \in {"sent", "stored"}}
    OBVIOUS
  <2>2. PICK r, k : r = U!Current(v) /\ k = U!Tried(U!Current(v))
    OBVIOUS
  <2>3. open \subseteq {<<r, k>>}
    <3> SUFFICES ASSUME NEW s \in open PROVE s = <<r, k>>
      OBVIOUS
    <3>1. PICK q \in U!Rows, j \in U!Tries : s = <<q, j>>
      BY <2>1
    <3>2. queue[q].visit = v /\ upload[q][j].awaited /\ upload[q][j].at \in {"sent", "stored"}
      BY <2>1, <3>1
    <3>3. U!Current(v) = q /\ U!Tried(q) = j
      BY <3>2, FilesThere DEF TryOK
    <3> QED BY <2>2, <3>1, <3>3
  <2>4. IsFiniteSet({<<r, k>>}) /\ Cardinality({<<r, k>>}) = 1
    BY FS_Singleton
  <2>5. Cardinality(open) <= 1
    BY <2>3, <2>4, FS_Subset
  <2> QED BY <2>1, <2>5
<1> QED BY <1>2, <1>3, <1>4, <1>5 DEF U!MaterialsAdded

\* A file the page calls done is a material of the event, and is so twice only
\* if it was called failed or taken off the list; the list is reached with no
\* file forgotten; and a page has one upload open at a time: for any number of
\* files, tries and visits (MaterialsUploadScreen.tsx and addMaterial()).
THEOREM MaterialsRight == U!Spec => [](U!TypeOK /\ U!MaterialsAdded)
<1>1. FilesInv /\ [U!Next]_U!vars => FilesInv'
  BY FilesNext, FilesStutter DEF U!vars, fileVars
<1> QED BY <1>1, FilesInit, FilesImply, PTL DEF U!Spec

-----------------------------------------------------------------------------
(* The parts together                                                      *)

ContentInv ==
    /\ part = "paging" => PagingInv
    /\ part = "posts" => PostsInv
    /\ part = "materials" => FilesInv

LEMMA ContentInvariance == AllSpec => []ContentInv
<1>1. AllInit => ContentInv
  <2> SUFFICES ASSUME AllInit PROVE ContentInv
    OBVIOUS
  <2>1. T!Init /\ U!Init /\ (part = "paging" => P!Init)
    BY DEF AllInit
  <2> QED BY <2>1, PagingInit, PostsInit, FilesInit DEF ContentInv
<1>2. ContentInv /\ [AllNext]_allVars => ContentInv'
  <2> SUFFICES ASSUME ContentInv, [AllNext]_allVars PROVE ContentInv'
    OBVIOUS
  <2>1. part' = part
    BY DEF AllNext, allVars
  <2>2. part = "paging" => PagingInv'
    BY PagingNext, PagingStutters DEF ContentInv, AllNext, allVars
  <2>3. part = "posts" => PostsInv'
    BY PostsNext, PostsStutter DEF ContentInv, AllNext, allVars
  <2>4. part = "materials" => FilesInv'
    BY FilesNext, FilesStutter DEF ContentInv, AllNext, allVars
  <2> QED BY <2>1, <2>2, <2>3, <2>4 DEF ContentInv
<1> QED BY <1>1, <1>2, PTL DEF AllSpec

\* Pages add up to their list, posts and comments to what was written, and
\* materials to what was chosen, in every behaviour of the parts together.
THEOREM ContentInTurn == AllSpec => []ContentAddsUp
<1>1. ContentInv => ContentAddsUp
  BY PagingImplies, PostsImply, FilesImply DEF ContentInv, ContentAddsUp
<1> QED BY <1>1, ContentInvariance, PTL

-----------------------------------------------------------------------------
(* All that the run checks, by the theorems about the parts                *)

OfMemberships == part = "memberships"
OfInitiatives == part = "initiatives"
OfRecurring == part \in {"recurring", "overlapping"}

\* A part that was not chosen stays as it was.
Still ==
    /\ ~ OfMemberships => NoMemberships
    /\ ~ OfInitiatives => NoInitiative
    /\ ~ OfRecurring => event = NoEvents /\ ended = {} /\ task = [w \in Workers |-> EventIdle]

LEMMA PartStays == [AllNext]_allVars => /\ OfMemberships' <=> OfMemberships
                                        /\ OfInitiatives' <=> OfInitiatives
                                        /\ OfRecurring' <=> OfRecurring
BY DEF AllNext, allVars, OfMemberships, OfInitiatives, OfRecurring

LEMMA StillInit == AllInit => Still
BY DEF AllInit, Still, NoSeries, OfMemberships, OfInitiatives, OfRecurring

LEMMA StillNext == Still /\ [AllNext]_allVars => Still'
<1> SUFFICES ASSUME Still, [AllNext]_allVars
             PROVE  Still'
  OBVIOUS
<1>1. ~ OfMemberships => UNCHANGED ownVars
  BY DEF AllNext, allVars, ownVars, OfMemberships
<1>2. ~ OfInitiatives => UNCHANGED ownIniVars
  BY DEF AllNext, allVars, ownIniVars, OfInitiatives
<1>3. ~ OfRecurring => UNCHANGED ownEventVars
  BY DEF AllNext, allVars, ownEventVars, OfRecurring
<1>4. ~ OfMemberships' => NoMemberships'
  BY <1>1, PartStays DEF Still, NoMemberships, ownVars
<1>5. ~ OfInitiatives' => NoInitiative'
  BY <1>2, PartStays DEF Still, NoInitiative, ownIniVars
<1>6. ~ OfRecurring' =>
         event' = NoEvents /\ ended' = {} /\ task' = [w \in Workers |-> EventIdle]
  BY <1>3, PartStays DEF Still, ownEventVars
<1> QED BY <1>4, <1>5, <1>6 DEF Still

\* Where another part was chosen there is nothing to count or fill.
LEMMA NoMembersToCount == Still /\ ~ OfMemberships => InviteOnlyCountExact /\ InvitationAdmitsOnce
BY DEF Still, NoMemberships, InviteOnlyCountExact, InvitationAdmitsOnce

LEMMA NoSupportToCount ==
  Still /\ ~ OfInitiatives => CommentCountExact /\ SupportersInTurn /\ Supporting(ini) = {}
<1> SUFFICES ASSUME ini = Created, comments = 0
             PROVE  CommentCountExact /\ SupportersInTurn /\ Supporting(ini) = {}
  BY DEF Still, NoInitiative
<1>1. Supporting(ini) = {} /\ ini.supporters = {} /\ ini.supporterCount = 0 /\ ini.commentCount = 0
  BY DEF Supporting, Created
<1> QED BY <1>1, FS_EmptySet DEF CommentCountExact, SupportersInTurn

LEMMA NoSeriesToFill ==
  Still /\ ~ OfRecurring =>
      /\ DatesOfRule /\ OneInstancePerDate /\ EndedStays
      /\ \A w \in Workers : ~ EventAt(w, "insert")
<1> SUFFICES ASSUME event = NoEvents, ended = {}, task = [w \in Workers |-> EventIdle]
             PROVE  /\ DatesOfRule /\ OneInstancePerDate /\ EndedStays
                    /\ \A w \in Workers : ~ EventAt(w, "insert")
  BY DEF Still
<1>1. \A i \in Docs : ~ Exists(i)
  BY DEF NoEvents, Exists
<1>2. \A d \in Days, n \in 1..Copies : <<d, n>> \in Docs
  BY DEF Docs, Instances
<1>3. \A d \in Days : Of(d) = {}
  BY <1>1, <1>2 DEF Of
<1>4. \A w \in Workers : ~ EventAt(w, "insert")
  BY DEF EventAt, EventIdle
<1> QED BY <1>1, <1>3, <1>4, FS_EmptySet DEF DatesOfRule, OneInstancePerDate, EndedStays, Docs

\* A behaviour of the run is one of the part it is about.
LEMMA MembershipsAlone == AllSpec /\ OfMemberships => Spec
<1>1. AllInit /\ OfMemberships => Init
  BY DEF AllInit, OfMemberships
<1>2. OfMemberships /\ [AllNext]_allVars => [Next]_vars
  BY DEF AllNext, allVars, OfMemberships, vars, ownVars
<1> QED BY <1>1, <1>2, PartStays, PTL DEF AllSpec, Spec

LEMMA InitiativesAlone == AllSpec /\ OfInitiatives => InitiativesSpec
<1>1. AllInit /\ OfInitiatives => InitiativesInit
  BY DEF AllInit, OfInitiatives
<1>2. OfInitiatives /\ [AllNext]_allVars => [InitiativesNext]_iniVars
  BY DEF AllNext, allVars, OfInitiatives, iniVars, ownIniVars
<1> QED BY <1>1, <1>2, PartStays, PTL DEF AllSpec, InitiativesSpec

LEMMA RecurringAlone == AllSpec /\ OfRecurring => RecurringSpec
<1>1. AllInit /\ OfRecurring => RecurringInit
  BY DEF AllInit, OfRecurring
<1>2. OfRecurring /\ [AllNext]_allVars => [RecurringNext]_eventVars
  BY DEF AllNext, allVars, OfRecurring, eventVars, ownEventVars
<1> QED BY <1>1, <1>2, PartStays, PTL DEF AllSpec, RecurringSpec

\* What was proved of Memberships holds of the run: in a community entered by
\* invitation only memberCount is exact, and an invitation admits once.
THEOREM MembersInTurn == AllSpec => [](InviteOnlyCountExact /\ InvitationAdmitsOnce)
BY MembershipsAlone, InviteOnlyCountIsExact, InvitationsAdmitOnce, StillInit, StillNext, PartStays,
   NoMembersToCount, PTL DEF AllSpec

\* And of Initiatives: the counters are those of the comments and supporters,
\* and nobody's support is lost (initiative.service.ts).
THEOREM InitiativesInTurn ==
    AllSpec => [](CommentCountExact /\ SupportersInTurn) /\ SupportNotLost
<1>1. Still /\ ~ OfInitiatives /\ [AllNext]_allVars =>
        [\A u \in Supporting(ini) :
           \/ u \in Supporting(ini')
           \/ ini'.status = "gone"
           \/ \E w \in Workers : IniAt(w, "unsupport") /\ iniWork[w].user = u]_iniVars
  BY NoSupportToCount
<1> QED BY <1>1, InitiativesAlone, CommentCountIsExact, SupportersCountedInTurn, SupportIsNotLost,
           StillInit, StillNext, PartStays, NoSupportToCount, PTL DEF AllSpec, SupportNotLost

\* And of Recurring: instances are on the rule's dates, one each, none where the
\* series was called off, and a run fills its window (recurring.service.ts).
THEOREM SeriesInTurn ==
    AllSpec => [](DatesOfRule /\ OneInstancePerDate /\ EndedStays) /\ WindowFilled
<1>1. Still /\ ~ OfRecurring /\ [AllNext]_allVars =>
        [\A w \in Workers : Ends(w) /\ CountKept => Filled(w)]_eventVars
  BY NoSeriesToFill DEF Ends
<1> QED BY <1>1, RecurringAlone, DatesFollowRule, OneInstanceInTurn, EndedStaysInTurn, WindowsFilled,
           StillInit, StillNext, PartStays, NoSeriesToFill, PTL DEF AllSpec, WindowFilled

\* Every variable of every part of the run keeps its type.
THEOREM CommunitiesTypeCorrect == AllSpec => []TypesOK
<1>1. /\ ContentInv
      /\ OfMemberships => TypeOK
      /\ OfInitiatives => InitiativesTypeOK
      /\ OfRecurring => RecurringTypeOK
      => TypesOK
  BY PagingImplies, PostsImply, FilesImply
     DEF ContentInv, TypesOK, OfMemberships, OfInitiatives, OfRecurring
<1> QED BY <1>1, ContentInvariance, MembershipsAlone, InitiativesAlone, RecurringAlone,
           MembershipsTypeCorrect, InitiativesTypeCorrect, RecurringTypeCorrect, PartStays, PTL
        DEF AllSpec
=============================================================================
