------------------------------ MODULE Migrations ------------------------------
(***************************************************************************)
(* The life of the shop's database: the CSV import, the five migrations,   *)
(* the scripts that apply them and verify them, and the applications that  *)
(* write meanwhile.                                                        *)
(*                                                                         *)
(* The tables are kept as rows keyed by table and id, with the columns     *)
(* that decide to whom a row belongs; the schema as what each migration    *)
(* leaves in it.  A migration file is one transaction.  The scripts around *)
(* it are processes that run in two terminals and stop anywhere.           *)
(***************************************************************************)
EXTENDS Naturals, Sequences, FiniteSets

CONSTANTS
    Source,       \* the rows of the CSV files, <<table, id>>
    ParentOf(_),  \* the order of an item, the item of a refund
    Runners,      \* terminals in which a migration script may run
    Overlap,      \* whether a second run_migration.py may wait at its prompt
    MaxInserts, MaxImports, MaxEvents,   \* bounds
    None

Tables == <<"products", "orders", "order_items", "order_item_refunds">>
Business == {Tables[i] : i \in DOMAIN Tables}

\* What a row of the files refers to is in the files too.
SourceAssumption ==
    /\ IsFiniteSet(Source) /\ \A k \in Source : k \in Business \X Nat
    /\ \E k \in Source : \A j \in Source : j[2] <= k[2]
    /\ \A k \in Source :
          CASE k[1] = "order_items"        -> ParentOf(k) \in Source /\ ParentOf(k)[1] = "orders"
            [] k[1] = "order_item_refunds" -> ParentOf(k) \in Source /\ ParentOf(k)[1] = "order_items"
            [] OTHER                       -> ParentOf(k) = None
\* NULL is none of the values that a column or a document has.
NoneAssumption ==
    /\ None \notin {"imported", "staff", "customer", "ready_shipped",
                    "pending", "processing", "completed", "delivered", "cancelled", "refunded"}
    /\ None \notin [support : Nat, migrated : BOOLEAN]
BoundsAssumption ==
    {MaxInserts, MaxImports, MaxEvents} \subseteq Nat /\ Overlap \in BOOLEAN

VARIABLES
    schema,       \* what the migrations have made of the tables
    rows,         \* [keys of the rows -> their columns]
    sequence,     \* the next value of retailmetrics_app_entity_id_seq
    support,      \* the contents of the session 2 tables and the evidence files
    snapshot,     \* the two snapshot files of the migration scripts
    runner,       \* [Runners -> the script in this terminal]
    importer,     \* migrate_csv_to_postgres.py
    reset,        \* what reset_presentation_data.py --execute ended with
    verdict,      \* what a verifier has just printed
    inserts, imports

data == <<rows, sequence>>
outside == <<support, snapshot, reset, imports>>
vars == <<schema, data, outside, runner, importer, verdict, inserts>>

Unmigrated == [users |-> FALSE, creatorFk |-> "none", views |-> "none", portal |-> FALSE,
               trigger |-> None, outbox |-> "none", statuses |-> "none", audit |-> FALSE]
NoScript == [script |-> 0, step |-> "idle", document |-> None]
NotImporting == [step |-> "idle", table |-> 1]

Init ==
    /\ schema = Unmigrated /\ rows = <<>> /\ sequence = 1 /\ support = 0
    /\ snapshot = [n \in 1 .. 2 |-> None] /\ runner = [r \in Runners |-> NoScript]
    /\ importer = NotImporting /\ reset = None /\ verdict = None
    /\ inserts = 0 /\ imports = 0

-----------------------------------------------------------------------------
(* Rows.                                                                    *)

Keys == DOMAIN rows
Records == {k \in Keys : k[1] \in Business}      \* those with an id from the shared sequence
In(table) == {k \in Keys : k[1] = table}
Highest(ks) == IF ks = {} THEN 0 ELSE CHOOSE n \in {k[2] : k \in ks} : \A k \in ks : k[2] <= n

\* The rows with new ones.
With(new) == [k \in Keys \cup DOMAIN new |-> IF k \in Keys THEN rows[k] ELSE new[k]]

\* A row as its INSERT gives it; "made" is who inserted it, for the properties.
Draft(made, of) ==
    [made |-> made, creator |-> made = "staff", account |-> made = "customer", of |-> of,
     origin |-> None, status |-> None]

\* set_retailmetrics_record_origin, before every INSERT once migration 002 is there.
Classified(table, row) ==
    LET origin == IF row.origin # None THEN row.origin
                  ELSE IF table = "order_items" /\ row.of \in Keys THEN rows[row.of].origin
                  ELSE IF table \in {"orders", "order_item_refunds"} /\ row.account THEN "customer"
                  ELSE IF row.creator THEN "staff" ELSE "imported"
        status == IF origin = "imported" THEN None
                  ELSE IF origin = "staff" /\ row.status = None THEN schema.trigger
                  ELSE row.status
    IN  IF ~schema.portal THEN row
        ELSE [row EXCEPT !.origin = origin, !.status = IF table = "orders" THEN status ELSE None]

Statuses(version) ==
    CASE version = "old"  -> {"pending", "processing", "completed", "cancelled", "refunded"}
      [] version = "new"  -> {"pending", "processing", "ready_shipped", "delivered", "cancelled", "refunded"}
      [] OTHER            -> {}

\* ck_*_origin_context, ck_orders_status and fk_order_items_order_origin.
Accepts(table, row) ==
    schema.portal =>
        /\ row.origin = "imported" => ~row.creator /\ ~row.account
        /\ row.origin = "staff" => row.creator /\ ~row.account
        /\ row.origin = "customer" => table # "products"
        /\ table = "orders" => IF row.origin = "imported" THEN row.status = None
                               ELSE row.status \in Statuses(schema.statuses)
        /\ table \in {"orders", "order_item_refunds"} => (row.account <=> row.origin = "customer")
        /\ table = "order_items" => row.origin = rows[row.of].origin

\* The canonical views.
Canonical(table) ==
    CASE schema.views = "creator" -> {k \in In(table) : ~rows[k].creator}
      [] schema.views = "origin"  -> {k \in In(table) : rows[k].origin = "imported"}
      [] OTHER                    -> {}

\* EXPECTED_CANONICAL_COUNTS, CANONICAL_COUNTS, COUNTS
ExpectedCount(table) == Cardinality({k \in Source : k[1] = table})
CountsAsExpected == \A t \in Business : Cardinality(Canonical(t)) = ExpectedCount(t)

-----------------------------------------------------------------------------
(* migrate_csv_to_postgres.py; it commits after every step.                 *)

Populated == importer.step = "idle" /\ Source \subseteq Keys

\* The README has the other writers stopped while a migration script runs.
NoScriptRuns == \A r \in Runners : runner[r].step = "idle"

\* run_schema creates what is not there yet.
StartImport ==
    /\ importer.step = "idle" /\ NoScriptRuns /\ imports < MaxImports
    /\ importer' = [step |-> "truncate", table |-> 1]
    /\ imports' = imports + 1
    /\ UNCHANGED <<schema, data, support, snapshot, reset, runner, inserts>>

\* TRUNCATE ... CASCADE takes the rows that refer to an order with it; the
\* shared sequence belongs to no table and stays.
Truncate ==
    /\ importer.step = "truncate"
    /\ rows' = <<>>
    /\ importer' = [importer EXCEPT !.step = "copy"]
    /\ UNCHANGED <<schema, sequence, outside, runner, inserts>>

\* COPY with the columns of the CSV file.
CopyCsv ==
    LET table == Tables[importer.table]
        keys  == {k \in Source : k[1] = table}
        new   == [k \in keys |-> Classified(table, Draft("import", ParentOf(k)))]
        last  == importer.table = Len(Tables)
    IN  /\ importer.step = "copy"
        /\ IF keys \cap Keys = {} /\ \A k \in keys : Accepts(table, new[k])
             THEN rows' = With(new) /\ importer' = IF last THEN NotImporting
                                                     ELSE [importer EXCEPT !.table = @ + 1]
             ELSE rows' = rows /\ importer' = NotImporting
        /\ UNCHANGED <<schema, sequence, outside, runner, inserts>>

StopImport ==
    /\ importer.step # "idle" /\ importer' = NotImporting
    /\ UNCHANGED <<schema, data, outside, runner, inserts>>

-----------------------------------------------------------------------------
(* The migration files.                                                     *)

AlignedOnOrders == IF sequence < Highest(In("orders")) + 1 THEN Highest(In("orders")) + 1 ELSE sequence \* Mutant

\* The shared sequence moves above every id, and never backward.
Aligned == IF sequence < Highest(Records) + 1 THEN Highest(Records) + 1 ELSE sequence

\* 001: app_users, the creator columns, the sequence and the canonical views.
\* What is there already stays, the views are replaced.
Migrate001 ==
    /\ schema' = [schema EXCEPT !.users = TRUE, !.views = "creator",
                                !.creatorFk = IF @ = "none" THEN "set_null" ELSE @]
    /\ sequence' = Aligned
    /\ UNCHANGED rows

ClassifiableOrders ==     \* Mutant: items are not looked at.
    schema.users /\ ~schema.portal /\ \A k \in In("orders") : ~rows[k].creator

\* The preflight of 002, under the lock of its transaction.
Classifiable ==
    /\ schema.users /\ ~schema.portal
    /\ \A k \in In("orders") : ~rows[k].creator
    /\ \A k \in In("order_items") : rows[k].creator = rows[rows[k].of].creator

PortalKeepingViews ==     \* Mutant: the views go on by creator.
    [schema EXCEPT !.portal = TRUE, !.creatorFk = "restrict", !.trigger = "completed", !.statuses = "old"]

\* The tables of the portal and what 002 changes of the old ones.
Portal ==
    [schema EXCEPT !.portal = TRUE, !.views = "origin", !.creatorFk = "restrict",
                   !.trigger = "completed", !.statuses = "old"]


\* 002: the tables of the portal, record_origin, and the views by origin.
Migrate002 ==
    /\ Classifiable
    /\ schema' = Portal
    /\ rows' = [k \in Keys |-> [rows[k] EXCEPT !.origin = IF rows[k].creator THEN "staff" ELSE "imported"]]
    /\ UNCHANGED sequence

\* 003: the notification outbox.
Migrate003 ==
    /\ schema.portal /\ schema.outbox = "none"
    /\ schema' = [schema EXCEPT !.outbox = "v3"]
    /\ UNCHANGED data

BackfilledOfCustomers(row) ==     \* Mutant: staff orders keep the old status.
    IF row.origin = "customer" /\ row.status = "completed" THEN [row EXCEPT !.status = "ready_shipped"] ELSE row

\* 004 moves the orders of the application to the new status, ...
Backfilled(row) ==
    IF row.origin \in {"staff", "customer"} /\ row.status = "completed"
      THEN [row EXCEPT !.status = "ready_shipped"] ELSE row

\* ... replaces the checks, which validate every row, and the trigger's default.
Migrate004 ==
    LET moved == [k \in Keys |-> Backfilled(rows[k])] IN
    /\ schema.outbox = "v3"
    /\ \A k \in In("orders") : moved[k].status \in Statuses("new") \cup {None}
    /\ schema' = [schema EXCEPT !.statuses = "new", !.trigger = "ready_shipped", !.outbox = "v4"]
    /\ rows' = moved
    /\ UNCHANGED sequence

\* 005: the audit table.
Migrate005 == schema' = [schema EXCEPT !.audit = TRUE] /\ UNCHANGED data

\* 004 and 005 are applied by hand.
ApplyByHand ==
    /\ NoScriptRuns /\ importer.step = "idle"
    /\ Migrate004 \/ (schema.outbox = "v4" /\ Migrate005)
    /\ UNCHANGED <<outside, runner, importer, inserts>>

-----------------------------------------------------------------------------
(* run_migration.py, run_migration_002.py and run_migration_003.py.         *)

Goto(r, step) == runner' = [runner EXCEPT ![r].step = step]
Stay == UNCHANGED <<schema, data, support, reset, imports, importer, inserts>>

\* The scripts refuse when their snapshot exists (003: take a backup instead),
\* then ask for the name of the database.
StartScript(r, n) ==
    /\ runner[r].step = "idle" /\ Populated
    /\ n = 1 => Overlap \/ \A q \in Runners : runner[q].script # 1
    /\ n \in 1 .. 2 => snapshot[n] = None
    /\ runner' = [runner EXCEPT ![r] = [script |-> n, step |-> "prompt", document |-> None]]
    /\ Stay /\ UNCHANGED snapshot

\* capture_session2_fingerprint; "migrated" is the state it was taken in.
Fingerprint(n) == [support |-> support, migrated |-> IF n = 1 THEN schema.users ELSE schema.portal]

\* run_preflight, in one read-only snapshot of the database: the objects of
\* migration 001, none of 002, the files' counts, and no row 002 would refuse.
Preflight ==
    /\ schema.users /\ schema.creatorFk = "set_null" /\ schema.views = "creator"
    /\ CountsAsExpected
    /\ Classifiable

Capture(r) ==
    LET n == runner[r].script IN
    /\ runner[r].step = "prompt" /\ n \in 1 .. 2
    /\ runner' = [runner EXCEPT ![r] = IF n = 2 /\ ~Preflight THEN NoScript
                                       ELSE [@ EXCEPT !.step = "save", !.document = Fingerprint(n)]]
    /\ Stay /\ UNCHANGED snapshot

\* save_snapshot looks for the file once more, save_session2_snapshot does not.
CheckSnapshot(r) ==
    /\ runner[r].step = "save"
    /\ runner' = [runner EXCEPT ![r] = IF @.script = 2 /\ snapshot[2] # None THEN NoScript
                                       ELSE [@ EXCEPT !.step = "replace"]]
    /\ Stay /\ UNCHANGED snapshot

Replace(r) ==
    /\ runner[r].step = "replace"
    /\ snapshot' = [snapshot EXCEPT ![runner[r].script] = runner[r].document]
    /\ Goto(r, "execute")
    /\ Stay

\* 003 asks the database instead of a file.
CheckDatabase(r) ==
    /\ runner[r].step = "prompt" /\ runner[r].script = 3
    /\ runner' = [runner EXCEPT ![r] = IF schema.portal /\ schema.outbox = "none"
                                         THEN [@ EXCEPT !.step = "execute"] ELSE NoScript]
    /\ Stay /\ UNCHANGED snapshot

\* CREATE TABLE fails, or the preflight raises.
Refused(n) == (n = 2 /\ ~Classifiable) \/ (n = 3 /\ schema.outbox # "none")

ExecuteUnsaved(r) ==         \* Mutant: runs the SQL before the snapshot is on disk.
    LET n == runner[r].script IN
    /\ runner[r].step \in {"save", "execute"}
    /\ \/ n = 1 /\ Migrate001
       \/ n = 2 /\ Migrate002
       \/ n = 3 /\ Migrate003
       \/ Refused(n) /\ UNCHANGED <<schema, data>>
    /\ runner' = [runner EXCEPT ![r] = NoScript]
    /\ UNCHANGED <<outside, importer, inserts>>

\* The file is submitted once; a failure rolls all of it back and leaves the
\* snapshot where it is.
Execute(r) ==
    LET n == runner[r].script IN
    /\ runner[r].step = "execute"
    /\ \/ n = 1 /\ Migrate001
       \/ n = 2 /\ Migrate002
       \/ n = 3 /\ Migrate003
       \/ Refused(n) /\ UNCHANGED <<schema, data>>
    /\ runner' = [runner EXCEPT ![r] = NoScript]
    /\ UNCHANGED <<outside, importer, inserts>>

\* The prompt is declined, or the script dies.
StopScript(r) ==
    /\ runner[r].step # "idle"
    /\ runner' = [runner EXCEPT ![r] = NoScript]
    /\ Stay /\ UNCHANGED snapshot

-----------------------------------------------------------------------------
(* The applications.                                                        *)

\* Rows are inserted with the next ids, when the checks accept them.
InsertRows(new) ==
    /\ schema.users /\ importer.step = "idle" /\ inserts < MaxInserts
    /\ \A k \in DOMAIN new : k \notin Keys
    /\ rows' = With(new)
    /\ sequence' = sequence + Cardinality({k \in DOMAIN new : k[1] \in Business})
    /\ inserts' = inserts + 1
    /\ UNCHANGED <<schema, outside, runner, importer>>

\* The staff application as of migration 001, which knows no record_origin.
LegacyInsert(table, of) ==
    LET row == Classified(table, Draft("staff", of)) IN
    /\ Accepts(table, row)
    /\ InsertRows([k \in {<<table, sequence>>} |-> row])

\* BusinessRepository.create; orders are entered as ready to ship.
StaffInsert(table, of) ==
    LET row == [Draft("staff", of) EXCEPT !.origin = "staff",
                                          !.status = IF table = "orders" THEN "ready_shipped" ELSE None]
    IN  /\ schema.portal /\ Accepts(table, row)
        /\ table = "order_items" => rows[of].origin = "staff"
        /\ InsertRows([k \in {<<table, sequence>>} |-> row])

\* What a row may refer to; its foreign keys allow no more.
Parents(table) ==
    CASE table = "order_items"        -> In("orders")
      [] table = "order_item_refunds" -> In("order_items")
      [] OTHER                        -> {None}

\* CheckoutRepository.checkout: the order, its item and the confirmation.
Checkout ==
    LET order == <<"orders", sequence>>
        item  == <<"order_items", sequence + 1>>
        note  == <<"notification_outbox", sequence>>
        draft(of) == [Draft("customer", of) EXCEPT !.origin = "customer"]
    IN  /\ schema.outbox # "none"
        /\ InsertRows([k \in {order, item, note} |->
               CASE k = order -> [draft(None) EXCEPT !.status = "pending"]
                 [] k = item  -> [draft(order) EXCEPT !.account = FALSE]
                 [] k = note  -> draft(order)])

\* The generic endpoints delete staff rows that nothing refers to.
StaffDelete(k) ==
    /\ rows[k].origin = "staff" /\ \A j \in Keys : rows[j].of # k
    /\ rows' = [j \in Keys \ {k} |-> rows[j]]
    /\ UNCHANGED <<schema, sequence, outside, runner, importer, inserts>>

\* reset_presentation_data.py deletes the order's cart, requests, payment and
\* address, of its refunds and items those of the customer, then the order; a row
\* that still refers to one of them (ON DELETE RESTRICT) has all of it rolled back.
ResetOrder(k) ==
    LET items == {j \in In("order_items") : rows[j].of = k}
        its   == items \cup {j \in In("order_item_refunds") : rows[j].of \in items}
        gone  == {k} \cup {j \in its : rows[j].origin = "customer"}
    IN  /\ reset = None /\ k[1] = "orders" /\ rows[k].origin = "customer"
        /\ IF \E j \in Keys \ gone : rows[j].of \in gone
             THEN reset' = "refused" /\ UNCHANGED rows
             ELSE reset' = "committed" /\ rows' = [j \in Keys \ gone |-> rows[j]]
        /\ UNCHANGED <<schema, sequence, support, snapshot, imports, runner, importer, inserts>>

\* Session 2, or an evidence file, changes.
Session2Writes ==
    /\ support < MaxEvents /\ support' = support + 1
    /\ UNCHANGED <<schema, data, snapshot, reset, imports, runner, importer, inserts>>

-----------------------------------------------------------------------------
(* The verifiers.                                                           *)

FingerprintKept(n) == snapshot[n] # None /\ snapshot[n].support = support

\* verify_app_users, verify_business_columns, verify_creator_foreign_keys
UsersTable == schema.users
CreatorKeys(onDelete) == schema.creatorFk = onDelete

\* verify_shared_sequence_and_defaults, verify_canonical_views
SequenceAbove == schema.users /\ sequence > Highest(Records)
ViewsBy(column) == schema.views = column

\* verify_original_relationships, in all three verifiers.
OriginalRelationships == \A k \in Keys : rows[k].of \in Keys \cup {None}

\* verify_migration.py, the point-in-time verifier of migration 001.
Verified001 ==
    /\ UsersTable /\ CreatorKeys("set_null") /\ SequenceAbove /\ ViewsBy("creator")
    /\ CountsAsExpected /\ OriginalRelationships
    /\ FingerprintKept(1)

\* verify_columns, verify_constraints_and_indexes
PortalTables == schema.portal
PortalConstraints == CreatorKeys("restrict") /\ schema.trigger # None

\* verify_origin_rules
OriginRules ==
    /\ \A k \in Keys : Accepts(k[1], rows[k])
    /\ \A k \in In("order_items") : rows[k].origin = rows[rows[k].of].origin

BoundaryUncounted == ViewsBy("origin")            \* Mutant: no counts.

\* verify_canonical_boundary: views by origin, as many rows as the files had,
\* and all the imported ones.
CanonicalBoundary ==
    /\ ViewsBy("origin") /\ CountsAsExpected
    /\ \A t \in Business : Cardinality({k \in In(t) : rows[k].origin = "imported"}) = Cardinality(Canonical(t))

\* verify_migration_002.py
Verified002 ==
    /\ PortalTables /\ PortalConstraints /\ OriginalRelationships
    /\ OriginRules /\ CanonicalBoundary
    /\ FingerprintKept(2)

\* verify_migration_003.py
Verified003 == UsersTable /\ PortalTables /\ schema.outbox # "none" /\ CountsAsExpected

Verified(n) == CASE n = 1 -> Verified001 [] n = 2 -> Verified002 [] n = 3 -> Verified003

Verify(n) ==
    /\ verdict' = [script |-> n, pass |-> Verified(n)]
    /\ UNCHANGED <<schema, data, outside, runner, importer, inserts>>

-----------------------------------------------------------------------------
Script(r) ==
    \/ \E n \in 1 .. 3 : StartScript(r, n)
    \/ Capture(r) \/ CheckSnapshot(r) \/ Replace(r) \/ CheckDatabase(r) \/ Execute(r) \/ StopScript(r)

Application ==
    \/ \E t \in Business : \E of \in Parents(t) : LegacyInsert(t, of) \/ StaffInsert(t, of)
    \/ Checkout
    \/ \E k \in Keys : StaffDelete(k) \/ ResetOrder(k)

Steps ==
    \/ StartImport \/ Truncate \/ CopyCsv \/ StopImport
    \/ (\E r \in Runners : Script(r)) \/ ApplyByHand
    \/ Application \/ Session2Writes

Next ==
    \/ verdict = None /\ Steps /\ UNCHANGED verdict
    \/ verdict = None /\ \E n \in 1 .. 3 : Verify(n)
    \/ verdict # None /\ verdict' = None
       /\ UNCHANGED <<schema, data, outside, runner, importer, inserts>>

Spec == Init /\ [][Next]_vars

-----------------------------------------------------------------------------
(* Properties.                                                              *)

\* Rows satisfy the checks of the schema they are in, and every item and refund
\* has its parent.
TypeOK ==
    /\ \A k \in Keys : k[1] \in Business => Accepts(k[1], rows[k]) /\ rows[k].of \in Keys \cup {None}
    /\ \A r \in Runners : runner[r].step = "idle" <=> runner[r].script = 0
    /\ schema.statuses = "new" => schema.outbox = "v4"

\* Analytics sees the imported rows, all of them when no import was cut short,
\* and nothing the applications wrote, whatever schema the database is in.
CanonicalIsImported ==
    schema.views # "none" =>
        \A t \in Business : Canonical(t) = {k \in In(t) : rows[k].made = "import"}

\* The shared sequence gives out no id that a row has, not even after the CSV
\* files have been imported again.
SequenceAhead == schema.users => \A k \in Records : k[2] < sequence

\* A database that has been migrated has a snapshot that was taken before.
SnapshotIsBefore == schema.portal => snapshot[2] # None /\ ~snapshot[2].migrated

\* Migration 004 finds no order that its new check refuses, however long the
\* applications wrote under the old one.
StatusesUpgrade ==
    schema.statuses = "old" =>
        \A k \in In("orders") : Backfilled(rows[k]).status \in Statuses("new") \cup {None}

\* A verifier that passes has seen a database with all the imported rows, no
\* other row taken for one, and items of their orders' origin.
VerdictHonest ==
    verdict # None /\ verdict.pass =>
        /\ Source \subseteq Keys
        /\ verdict.script > 1 => \A k \in Records :
              /\ rows[k].origin = "imported" <=> rows[k].made = "import"
              /\ k[1] = "order_items" => rows[k].origin = rows[rows[k].of].origin

=============================================================================
