---------------------------- MODULE MCCommunities ----------------------------
(***************************************************************************)
(* A behaviour is one of Memberships, of Initiatives, of Recurring, of     *)
(* Posts, of Paging or of Materials: they share no state but the pool of   *)
(* workers, and the parts that are not chosen stay as they are.  Recurring *)
(* has two parts: one worker at a time over a week, and two that overlap   *)
(* within two days.                                                        *)
(***************************************************************************)
EXTENDS Memberships, Initiatives, Recurring, TLC

CONSTANTS
    MaxRows, Limits,                         \* Paging
    Writers, MaxDrafts, MaxCalls,            \* Posts
    MaxFiles, MaxTries, MaxVisits            \* Materials

VARIABLES part,
          list, reader, steady,
          post, thread, desk, hand, box, calls, decided, erased, late,
          page, queue, loop, upload

Recurs(freq, interval, byDay, endType, limit) ==
    [freq |-> freq, interval |-> interval, byDay |-> byDay, endType |-> endType,
     limit |-> limit]
SomeRules == {Recurs("weekly", 1, {1, 4}, "never", 0), Recurs("biweekly", 1, {}, "count", 4),
              Recurs("weekly", 1, {1, 3, 4}, "until", 4), Recurs("daily", 2, {}, "never", 0)}

P == INSTANCE Paging
T == INSTANCE Posts WITH Members <- Writers, Moderators <- Users,
                         Nobody <- NoUser
U == INSTANCE Materials

ASSUME PartsAssumption ==
    P!PagingAssumption /\ T!PostsAssumption /\ U!MaterialsAssumption

ownVars == <<community, rows, invs, applied, admitted, work>>
ownIniVars == <<ini, comments, iniWork>>
ownEventVars == <<today, rule, event, ended, task>>
listVars == <<list, reader, steady>>
postVars == <<post, thread, desk, hand, box, calls, decided, erased, late>>
fileVars == <<page, queue, loop, upload>>
allVars == <<part, pool, sent, ownVars, ownIniVars, ownEventVars, listVars, postVars,
             fileVars>>

NoMemberships ==
    /\ community = [privacy |-> "public", count |-> 0, open |-> TRUE]
    /\ rows = [u \in Users |-> NoRow]
    /\ invs = [i \in Invitations |-> NoInv]
    /\ applied = {} /\ admitted = [i \in Invitations |-> 0]
    /\ work = [w \in Workers |-> Idle]
NoInitiative ==
    /\ ini = Created /\ comments = 0
    /\ iniWork = [w \in Workers |-> IniIdle]
NoSeries ==
    /\ today = 0 /\ rule = CHOOSE r \in Rules : TRUE
    /\ event = NoEvents /\ ended = {}
    /\ task = [w \in Workers |-> EventIdle]
NoList ==
    /\ list = [kind |-> "plain", next |-> 1, rows |-> {}, pinned |-> {}, hidden |-> {},
               everPinned |-> FALSE]
    /\ reader = [limit |-> 1, staff |-> FALSE, cursor |-> 0, pc |-> "first",
                 seen |-> [r \in 1..MaxRows |-> 0]]
    /\ steady = {}
NoServer == pool = {} /\ sent = 0

AllInit ==
    /\ T!Init /\ U!Init
    /\ \/ /\ part = "memberships" /\ Init
          /\ NoInitiative /\ NoSeries /\ NoList
       \/ /\ part = "initiatives" /\ InitiativesInit
          /\ NoMemberships /\ NoSeries /\ NoList
       \/ /\ RecurringInit
          /\ part = IF Cardinality(pool) = 1 THEN "recurring" ELSE "overlapping"
          /\ NoMemberships /\ NoInitiative /\ NoList
       \/ /\ part = "paging" /\ P!Init
          /\ NoMemberships /\ NoInitiative /\ NoSeries /\ NoServer
       \/ /\ part \in {"posts", "materials"}
          /\ NoMemberships /\ NoInitiative /\ NoSeries /\ NoServer /\ NoList

\* Bounds of the part with two workers.
WithinTwoDays == today' <= 1 /\ sent' <= 1

AllNext ==
    /\ UNCHANGED part
    /\ \/ /\ part = "memberships" /\ Next
          /\ UNCHANGED <<ownIniVars, ownEventVars, listVars, postVars, fileVars>>
       \/ /\ part = "initiatives" /\ InitiativesNext
          /\ UNCHANGED <<ownVars, ownEventVars, listVars, postVars, fileVars>>
       \/ /\ \/ part = "recurring" /\ RecurringNext
             \/ part = "overlapping" /\ RecurringNext /\ WithinTwoDays
          /\ UNCHANGED <<ownVars, ownIniVars, listVars, postVars, fileVars>>
       \/ /\ part = "paging" /\ P!Next
          /\ UNCHANGED <<pool, sent, ownVars, ownIniVars, ownEventVars, postVars, fileVars>>
       \/ /\ part = "posts" /\ T!Next
          /\ UNCHANGED <<pool, sent, ownVars, ownIniVars, ownEventVars, listVars, fileVars>>
       \/ /\ part = "materials" /\ U!Next
          /\ UNCHANGED <<pool, sent, ownVars, ownIniVars, ownEventVars, listVars, postVars>>

AllSpec == AllInit /\ [][AllNext]_allVars

\* The type invariants of the parts.
TypesOK ==
    /\ part = "memberships" => TypeOK
    /\ part = "initiatives" => InitiativesTypeOK
    /\ part \in {"recurring", "overlapping"} => RecurringTypeOK
    /\ part = "paging" => P!TypeOK
    /\ part = "posts" => T!TypeOK
    /\ part = "materials" => U!TypeOK

\* The properties of Paging, of Posts and of Materials, stated there.
ContentAddsUp ==
    /\ part = "paging" => P!PagesAddUp
    /\ part = "posts" => T!PostsWork
    /\ part = "materials" => U!MaterialsAdded

\* Each further set that is permuted costs more than the states it saves.
Symmetry == Permutations(Users) \cup Permutations(Workers)
=============================================================================
