------------------------------ MODULE Migration ------------------------------
(***************************************************************************)
(* The data migration backend/scripts/migrateStripeToPayplus.ts: documents *)
(* of the time of Stripe get the names and defaults the code expects now.  *)
(*                                                                         *)
(* It runs beside the server, which makes rows of its own, has them        *)
(* settled by webhooks, and saves old rows, too; Mongoose then fills in the *)
(* schema's defaults.  A run may be dry, die at any point, and be repeated. *)
(* There is one old row of each kind; a field is there or not, and its     *)
(* value is told apart by who wrote it.                                    *)
(***************************************************************************)
EXTENDS Naturals, Sequences, Functions

CONSTANT MaxRuns   \* bound: runs begun

VARIABLES
    old,        \* a row of each kind from before: its fields
    new,        \* a row of each kind from after, if it has been made
    written,    \* what the server has written to those
    migration,  \* the run: its step, and whether it is dry
    runs,       \* runs begun, whether one that is not dry, and whether one ended
    had         \* which of the ids to be renamed the old rows had
vars == <<old, new, written, migration, runs, had>>

Kinds == {"payment", "subscription", "community", "event"}

-----------------------------------------------------------------------------
(* The steps, in their order                                               *)

Renames(kind, field, to) == [on |-> kind, does |-> "rename", field |-> field, to |-> to]
Drops(kind, field) == [on |-> kind, does |-> "unset", field |-> field, to |-> field]
FillsIn(kind, field) == [on |-> kind, does |-> "set", field |-> field, to |-> field]
Converts(kind) == [on |-> kind, does |-> "convert", field |-> "currency", to |-> "currency"]

Steps == <<
    Renames("payment", "stripePaymentIntentId", "gatewayTransactionId"),
    Renames("payment", "stripeCheckoutSessionId", "gatewayPaymentPageId"),
    FillsIn("payment", "gateway"), FillsIn("payment", "installments"), Converts("payment"),
    Renames("subscription", "stripeSubscriptionId", "gatewaySubscriptionId"),
    Drops("subscription", "stripeCustomerId"),
    FillsIn("subscription", "gateway"), FillsIn("subscription", "failedAttempts"),
    Drops("community", "stripeAccountId"),
    Converts("event"), FillsIn("event", "maxInstallments") >>

Has(f, field) == field \in DOMAIN f
Without(f, field) == Restrict(f, DOMAIN f \ {field})

\* The fields of f, and those of g it has not.
And(f, g) == [field \in DOMAIN f \cup DOMAIN g |-> IF Has(f, field) THEN f[field] ELSE g[field]]
Only(field, value) == [x \in {field} |-> value]

Concerns(s, kind, f) ==
    /\ s.on = kind
    /\ CASE s.does \in {"rename", "unset"} -> Has(f, s.field)
         [] s.does = "set" -> ~ Has(f, s.field)
         [] s.does = "convert" -> Has(f, "currency") /\ f["currency"] = "USD"

\* $rename, $unset and $set of one document.
Updated(s, f) ==
    CASE s.does = "rename" -> And(Only(s.to, f[s.field]), Without(f, s.field))
      [] s.does = "unset" -> Without(f, s.field)
      [] s.does = "set" -> And(Only(s.field, "default"), f)
      [] s.does = "convert" -> And(Only("currency", "ILS"), f)

Ids == {i \in 1..Len(Steps) : Steps[i].does = "rename"}

-----------------------------------------------------------------------------
(* Documents                                                               *)

Columns(kind, does) == {Steps[i].field : i \in
                            {j \in 1..Len(Steps) : Steps[j].on = kind /\ Steps[j].does = does}}

\* save() of a row writes the schema's defaults it was loaded with.
Saved(kind, f) == And(f, [field \in Columns(kind, "set") |-> "default"])

Missing == [field \in {} |-> ""]
Made == [kind \in {"payment", "subscription"} |->
            Saved(kind, IF kind = "payment" THEN Only("currency", "ILS") ELSE Missing)]

TypeOK ==
    /\ DOMAIN old = Kinds /\ DOMAIN new = DOMAIN Made /\ DOMAIN written = DOMAIN Made
    /\ \A k \in Kinds : \A field \in DOMAIN old[k] :
          old[k][field] \in {"stripe", "default", "counted", "USD", "ILS"}
    /\ migration \in [step : 0..Len(Steps) + 1, dry : BOOLEAN]
    /\ runs \in [begun : 0..MaxRuns, wet : BOOLEAN, ended : BOOLEAN]
    /\ had \in SUBSET Ids

\* A payment that was never settled has no intent, a subscription that never
\* began no id.
OfStripe(kind, settled) ==
    CASE kind = "payment" ->
             [field \in {"currency", "stripeCheckoutSessionId"} \cup
                        {f \in {"stripePaymentIntentId"} : settled} |->
                 IF field = "currency" THEN "USD" ELSE "stripe"]
      [] kind = "subscription" ->
             [field \in {"stripeCustomerId"} \cup
                        {f \in {"stripeSubscriptionId"} : settled} |-> "stripe"]
      [] kind = "community" -> Only("stripeAccountId", "stripe")
      [] kind = "event" -> Only("currency", "USD")

Init ==
    /\ \E settled \in BOOLEAN : old = [kind \in Kinds |-> OfStripe(kind, settled)]
    /\ had = {i \in Ids : Has(old[Steps[i].on], Steps[i].field)}
    /\ new = [k \in DOMAIN Made |-> Missing] /\ written = new
    /\ migration = [step |-> 0, dry |-> FALSE]
    /\ runs = [begun |-> 0, wet |-> FALSE, ended |-> FALSE]

-----------------------------------------------------------------------------
(* run()                                                                   *)

Begin(dry) ==
    /\ migration.step = 0 /\ runs.begun < MaxRuns
    /\ migration' = [step |-> 1, dry |-> dry]
    /\ runs' = [runs EXCEPT !.begun = @ + 1, !.wet = @ \/ ~ dry]
    /\ UNCHANGED <<old, new, written, had>>

Now == Steps[migration.step]

\* updateMany(), one document at a time.
Update ==
    /\ migration.step \in 1..Len(Steps) /\ ~ migration.dry
    /\ \/ /\ Concerns(Now, Now.on, old[Now.on])
          /\ old' = [old EXCEPT ![Now.on] = Updated(Now, @)]
          /\ UNCHANGED new
       \/ /\ Now.on \in DOMAIN Made /\ new[Now.on] # Missing
          /\ Concerns(Now, Now.on, new[Now.on])
          /\ new' = [new EXCEPT ![Now.on] = Updated(Now, @)]
          /\ UNCHANGED old
    /\ UNCHANGED <<written, migration, runs, had>>

GoOn ==
    /\ migration.step \in 1..Len(Steps)
    /\ migration.dry \/ ~ Concerns(Now, Now.on, old[Now.on])
    /\ migration' = [migration EXCEPT !.step = @ + 1]
    /\ UNCHANGED <<old, new, written, runs, had>>

End ==
    /\ migration.step = Len(Steps) + 1
    /\ migration' = [migration EXCEPT !.step = 0]
    /\ runs' = [runs EXCEPT !.ended = @ \/ ~ migration.dry]
    /\ UNCHANGED <<old, new, written, had>>

Crash ==
    /\ migration.step > 0
    /\ migration' = [migration EXCEPT !.step = 0]
    /\ UNCHANGED <<old, new, written, runs, had>>

-----------------------------------------------------------------------------
(* The server, as it is since                                              *)

Write(kind, f) ==
    /\ new' = [new EXCEPT ![kind] = And(f, @)] /\ written' = [written EXCEPT ![kind] = And(f, @)]
    /\ UNCHANGED <<old, migration, runs, had>>

MakeRow(kind) == new[kind] = Missing /\ Write(kind, Made[kind])

\* The answer of PayPlus, or its webhook; a failed charge is counted.
Settle(kind) ==
    /\ new[kind] # Missing
    /\ \E i \in Ids : Steps[i].on = kind /\ Write(kind, Only(Steps[i].to, "payplus"))

Save(kind) ==
    /\ old[kind] # Saved(kind, old[kind])
    /\ old' = [old EXCEPT ![kind] = Saved(kind, @)]
    /\ UNCHANGED <<new, written, migration, runs, had>>

CountFailure ==
    /\ Has(old["subscription"], "failedAttempts")
    /\ old' = [old EXCEPT !["subscription"]["failedAttempts"] = "counted"]
    /\ UNCHANGED <<new, written, migration, runs, had>>

-----------------------------------------------------------------------------
Next ==
    \/ \E dry \in BOOLEAN : Begin(dry)
    \/ Update \/ GoOn \/ End \/ Crash
    \/ \E kind \in DOMAIN Made : MakeRow(kind) \/ Settle(kind)
    \/ \E kind \in Kinds : Save(kind)
    \/ CountFailure

Spec == Init /\ [][Next]_vars

-----------------------------------------------------------------------------
(* Properties                                                              *)

\* However often a run dies, the id of a transaction or of a subscription is
\* under its old name or its new one, and under the old one as long as every
\* run was dry (migrateStripeToPayplus.ts:74).
IdsKept ==
    \A i \in had :
        LET f == old[Steps[i].on] IN
        \/ Has(f, Steps[i].field) /\ f[Steps[i].field] = "stripe" /\ ~ Has(f, Steps[i].to)
        \/ runs.wet /\ ~ Has(f, Steps[i].field) /\ f[Steps[i].to] = "stripe"

\* "Idempotent: re-running on a migrated DB does nothing": after a run that has
\* come to its end no step finds a row, whatever the server writes.
NothingLeft ==
    runs.ended => \A i \in 1..Len(Steps), k \in Kinds : ~ Concerns(Steps[i], k, old[k])

\* Rows of the server's own are left as it wrote them.
NewRowsKept == new = written

MigrationWorks == IdsKept /\ NothingLeft /\ NewRowsKept
=============================================================================
