------------------------------ MODULE MCScreens ------------------------------
(***************************************************************************)
(* The web client's screens: what they admit (Access), what they show of   *)
(* the server's data (QueryCache), what their forms save (Edits), the way  *)
(* in (Accounts), and paid membership (Plans).  The five share no state: a *)
(* behaviour is one of them and leaves the others as they are.             *)
(***************************************************************************)
EXTENDS Naturals, TLC

CONSTANTS
    Calls, Communities, NoCommunity, Browsers, MaxEntries, MaxSaves, MaxRequests,
    MaxSubs, MaxCalls   \* Plans

VARIABLES part,
          pair, server, tab, call,
          standing, rows, global, manages, client,
          about, doc, version, page, store, entries, wanted, inTurn,
          user, accounts, invited, inbox, place, request, requests, uses, alone, mailed,
          sub, program, charged, planPage, planCall, gaveUp, crossed

C == INSTANCE QueryCache
A == INSTANCE Access WITH tab <- client
E == INSTANCE Edits WITH Pages <- Browsers
M == INSTANCE Accounts WITH Tabs <- Browsers, tab <- place, call <- request
P == INSTANCE Plans WITH tab <- planPage, call <- planCall

ASSUME PartsAssumption ==
    P!PlansAssumption /\ M!AccountsAssumption /\ A!AccessAssumption /\ E!EditsAssumption

cacheVars == <<pair, server, tab, call>>
accessVars == <<standing, rows, global, manages, client>>
editVars == <<about, doc, version, page, store, entries, wanted, inTurn>>
accountVars == <<user, accounts, invited, inbox, place, request, requests, uses, alone,
                 mailed>>
planVars == <<sub, program, charged, planPage, planCall, gaveUp, crossed>>
allVars == <<part, cacheVars, accessVars, editVars, accountVars, planVars>>

NoCache ==
    /\ pair = CHOOSE p \in C!Pairs : p.hook = C!UpdatePrivacy
    /\ server = {} /\ tab = C!NoEntry
    /\ call = [c \in Calls |-> C!NoCall]
NoAccess ==
    /\ standing = [c \in Communities |-> "active"]
    /\ rows = <<>> /\ global = "user" /\ manages = {}
    /\ client = [user |-> "user", mine |-> <<>>, ctx |-> NoCommunity]
NoEdits ==
    /\ about = "platform" /\ doc = [f \in E!PlatformFields |-> "old"]
    /\ version = 0 /\ entries = 0 /\ page = [b \in Browsers |-> E!Closed]
    /\ store = [b \in Browsers |-> E!Nothing] /\ wanted = doc /\ inTurn = TRUE
NoAccounts == M!Init /\ invited = FALSE

AllInit ==
    /\ P!Init
    /\ \/ part = "cache" /\ C!Init /\ NoAccess /\ NoEdits /\ NoAccounts
       \/ part = "access" /\ A!Init /\ NoCache /\ NoEdits /\ NoAccounts
       \/ part = "edits" /\ E!Init /\ NoCache /\ NoAccess /\ NoAccounts
       \/ part = "accounts" /\ M!Init /\ NoCache /\ NoAccess /\ NoEdits
       \/ part = "plans" /\ NoCache /\ NoAccess /\ NoEdits /\ NoAccounts

AllNext ==
    /\ UNCHANGED part
    /\ \/ part = "cache" /\ C!Next /\ UNCHANGED <<accessVars, editVars, accountVars, planVars>>
       \/ part = "access" /\ A!Next /\ UNCHANGED <<cacheVars, editVars, accountVars, planVars>>
       \/ part = "edits" /\ E!Next /\ UNCHANGED <<cacheVars, accessVars, accountVars, planVars>>
       \/ part = "accounts" /\ M!Next /\ UNCHANGED <<cacheVars, accessVars, editVars, planVars>>
       \/ part = "plans" /\ P!Next /\ UNCHANGED <<cacheVars, accessVars, editVars, accountVars>>

AllSpec == AllInit /\ [][AllNext]_allVars

\* The type invariants of the parts.
TypesOK ==
    /\ part = "cache" => C!TypeOK
    /\ part = "access" => A!TypeOK
    /\ part = "edits" => E!TypeOK
    /\ part = "accounts" => M!TypeOK
    /\ part = "plans" => P!TypeOK

\* The properties of the parts, stated there.
OwnWritesSeen == part = "cache" => C!OwnWritesSeen
PagesWork == part = "access" => A!PagesWork
EditsKept == part = "edits" => E!EditsKept
AccountsAndPlansWork ==
    /\ part = "accounts" => M!AccountsWork
    /\ part = "plans" => P!PlansHold

Symmetry == Permutations(Browsers)
=============================================================================
