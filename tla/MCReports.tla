------------------------------ MODULE MCReports ------------------------------
(***************************************************************************)
(* A behaviour is one of Payments or of one of the parts that show what    *)
(* money has moved, or move it: the reports of the finances and of growth, *)
(* the page that refunds, and the migration of the old rows.  They read    *)
(* nothing of each other's; the others stay as they are.                   *)
(***************************************************************************)
EXTENDS MCPayments

CONSTANTS
    Receipts, People, Events, NoEvent, Bars, Prices, LastMonth, MaxMoves,   \* Reports
    Browsers, NoBrowser, MaxPresses,                                        \* Till
    MaxRuns                                                                 \* Migration

VARIABLES
    part,
    paid, month, finances, moved, joins, growth, moves,
    refunded, returned, page, asked,
    oldRows, newRows, written, migration, runs, had

R == INSTANCE Reports WITH Payments <- Receipts
T == INSTANCE Till
M == INSTANCE Migration WITH old <- oldRows, new <- newRows

ASSUME PartsAssumption ==
    R!ReportsAssumption /\ T!TillAssumption /\ MaxRuns \in Nat

reportVars == <<paid, month, finances, moved, joins, growth, moves>>
tillVars == <<refunded, returned, page, asked>>
rowVars == <<oldRows, newRows, written, migration, runs, had>>
allVars == <<part, vars, reportVars, tillVars, rowVars>>

AllInit ==
    /\ Init /\ R!Init /\ T!Init /\ M!Init
    /\ part \in {"payments", "finances", "growth", "till", "migration"}
    /\ part # "payments" => rows = [u \in Members |-> NoRsvpRow]
    /\ part # "migration" => had = M!Ids
AllNext ==
    /\ UNCHANGED part
    /\ \/ part = "payments" /\ Next /\ UNCHANGED <<reportVars, tillVars, rowVars>>
       \/ part = "finances" /\ R!Next /\ UNCHANGED <<vars, R!ownPeople, tillVars, rowVars>>
       \/ part = "growth" /\ R!Next /\ UNCHANGED <<vars, R!ownPayments, tillVars, rowVars>>
       \/ part = "till" /\ T!Next /\ UNCHANGED <<vars, reportVars, rowVars>>
       \/ part = "migration" /\ M!Next /\ UNCHANGED <<vars, reportVars, tillVars>>
AllSpec == AllInit /\ [][AllNext]_allVars

\* The type invariants of the parts and the property each of them states: what is
\* read, shown and moved of the money agrees.
MoneyAddsUp ==
    /\ part \in {"finances", "growth"} => R!TypeOK /\ R!FiguresAgree
    /\ part = "till" => T!TypeOK /\ T!RefundsAsAsked
    /\ part = "migration" => M!TypeOK /\ M!MigrationWorks

ReportSymmetry == Permutations(Workers) \cup Permutations(Receipts) \cup Permutations(People)
=============================================================================
