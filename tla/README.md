# Verification of the Toy Store system

TLA+ models of the programs under `src/`, the TLC runs that check them on small
instances, and theorems that TLAPS proves for every size. `PROJECT.json` lists
the runs, the source lines every definition stands for, the hazards of the code
and the theorems. Paths below are relative to `src/`.

- [The system](#the-system)
- [What is hard about it](#what-is-hard-about-it)
- [How the database is modelled](#how-the-database-is-modelled)
- [Modules](#modules), [Runs and bounds](#runs-and-bounds), [Fairness](#fairness)
- [What is proved](#what-is-proved)
- [Where the code and its documents differ](#where-the-code-and-its-documents-differ)
- [What is not modelled](#what-is-not-modelled)
- [Plan](#plan)

To run: `tlc -config order_refunds.cfg MCOrderRefunds` for a run of the table
below, `tlapm RefundProofs.tla` for the proofs of a module.

## The system

The repository holds one web application and four exercises around the same
PostgreSQL database.

**RetailMetricsWeb** is a FastAPI service (`api/`, `services/`, `repositories/`,
`db/`) with two Streamlit front ends, one for customers and one for staff
(`frontend/`). Every request takes a connection of a bounded pool, runs in one
transaction at READ COMMITTED, and commits or rolls back when its handler
returns or raises (`db/connection.py`). All durable state is in the tables; what
a client has been shown, most of all the `row_version` it sends back, is state
of the client.

| Part | State it keeps | Operations | Correct when |
|---|---|---|---|
| Orders and payments (`order_workflow_*`, `checkout_*`) | order status, payment status, `row_version` | place, start processing, ready/shipped, confirm delivery, cancel by customer or staff | order and payment change together; cash is collected before the parcel leaves; decisions are about the current row |
| Refunds (`refund_workflow_*`) | refund requests, refund rows | request, approve, reject, process | an item is never refunded beyond its price, approvals can always be paid, a request is paid once, a full refund closes order and payment |
| Generic staff records (`business_*`, `product_*`) | the same tables, written directly | create, replace, patch, delete | they keep the limits the workflows keep |
| Cart, checkout, catalog (`storefront_*`, `checkout_*`, `catalog_*`) | active cart and its items, converted carts, catalog entries | add, change, remove, look, check out, configure | one active cart; what is ordered is what was shown, at the catalog's price, to an active address |
| Notification outbox (`services/notifications/`) | one row per order or request, event and channel | queue, claim, render, deliver, record the outcome | queued exactly with the event, sent at most once, recorded honestly, settled in the end |
| Addresses and payment methods (`customer_resource_*`) | rows with `is_default`, `is_active` | create, edit, make default, deactivate | exactly one default among the active ones; no lost edit |
| Staff accounts (`auth_*`, `admin_user_*`, `user_repository`) | role, status, failure count, lock, `token_version` | sign in and out, change password, change role and status, unlock | an active administrator always remains; failures are counted; no token outlives a change of its account |
| Customer accounts (`customer_auth_*`, `admin_customer_*`) | the same without roles, reset links | register, sign in and out, change and reset the password, status, unlock | no session and no link outlives the change that ends it |
| Audit trail (`services/audit.py`) | one row per successful request, one per failed sign-in | append, list | has exactly the changes that were committed |
| Pool and transaction (`db/`) | connections | open, get, put, close | every request gives its connection and its locks back |
| Browser sessions (`frontend/browser_session.py`, `customer_browser_session.py`, `auth.py`) | handle to token map, the cookie, each tab's session state | issue, restore, check, sign out, cookie commands | what was signed out does not come back; the visitor's bag survives the sign-in |
| Analytics, reports | none | read | agrees with the tables |
| Schema, migrations, scripts (`db/migrations/`, `scripts/`) | the tables' definitions, the snapshot files | migrate, verify, reset | rows keep their origin, the evidence is true, the next migration finds nothing it refuses |

**session2_event_streaming** keeps an append-only event log in a table, with
consumer groups that write their sinks and commit their offsets in separate
transactions, a producer with a reset, a recovering consumer and a
reconciliation. Correct when an offset covers only what the sink contains.

**session3_distributed_services** reads the tables into an immutable snapshot, serves
it over REST and gRPC, with an artificial delay and deadlines, reconciles it with the
results of sessions 1 and 2, and compares a fingerprint of the tables before and
after. Correct when a call gets what it asked for and a passed reconciliation means a
complete snapshot. **session1** imports the CSV files and computes metrics partition by
partition, in parallel, which must equal the sequential baseline. The **desktop
windows** of sessions 1 and 2 (`RetailMetricsGUI/`, `session2_event_streaming/gui.py`) start these
scripts from threads and show how they ended; their state is the flag that keeps a second run away, the
rows of their tables and the callbacks that have not run yet. Correct when the window tells what happened
and its buttons come back.

The parts of the web application meet in the tables. Checkout turns a cart into an
order and reads the catalog and the address; the order and refund requests queue
notifications in their own transaction and deliver them after the commit, before
the answer is sent; the generic endpoints write the rows the workflows are about;
every staff request first reads the account behind its token.

## What is hard about it

- *Interleavings within transactions.* READ COMMITTED shows each statement what is
  committed when it runs. Which rows a request locks, in which order, and what it
  read before the lock decides whether it is atomic. Tests of the repository run
  requests one after the other.
- *Sums under concurrency.* "Refunds plus approvals fit in the price" and "is the
  order refunded in full" are sums over rows other requests are writing.
- *Old pages.* A client acts on what it saw minutes ago; `row_version` must catch
  it, also when the request waited for a lock in between.
- *Statements that waited.* After a wait PostgreSQL re-evaluates the condition on the
  row that changed, and only on that row.
- *Death between the transactions of one request.* The outbox claims, sends and marks
  in three steps.
- *Circular waits.* Different endpoints lock the same rows in different orders.
- *Session state in many places.* A customer's session is a row, a token, a handle in the
  server's store, a cookie that changes with a delay, and the state of each tab; each of
  them can be older than the others.
- *Scripts that die.* The import commits after every file, the migration runners write
  their evidence before they run, and the applications go on writing in between.
- *Snapshots taken in pieces.* Session 3 reads each part in a transaction of its own.
- *Progress stored apart from its work.* A consumer group's sink and offset are
  committed one after the other, while the log may be cleared and filled again.
- *Callbacks of a window.* Threads report to a window that the user goes on clicking in.

`PROJECT.json` lists the hazards with their lines and the properties that would
catch them, and says for the others why nothing covers them yet.

## How the database is modelled

The transaction models (`RefundTransactions`, `CartCheckout`,
`CustomerResources`, `StaffAccounts`, `StaffRecords`, `NotificationOutbox`) share these
conventions; they are assumptions about PostgreSQL, not translations of code.

- A statement is a step and sees the committed state. `SELECT ... FOR UPDATE`,
  `UPDATE`, `DELETE` and the key-share locks of foreign keys wait for a
  conflicting lock, then go by the row's newest version if the row changed and by
  what they first found if it did not.
- Locks are kept to the end of the transaction. A transaction's own writes are
  invisible to others until then, so the models make them in the committing step; what
  it read before stays in its `txn` record, and that record is what may be stale.
- A refused request (a failed check, a raised error) rolls back: it gives the locks
  back and writes nothing.
- Of transactions that wait in a circle one is aborted (`Abort`); the pages report
  an error and the client may start again.
- A client waits for the answer to its request before it sends another. Two tabs of one
  browser are two sessions.
- `OrderRefunds` has no transactions: each request is one step. `RefundTransactions`
  is the justification: its steps refine it.

## Modules

### `OrderRefunds`: orders, payments, refunds
One action per endpoint: `Checkout`, `StartProcessing`, `ReadyShipped`,
`StaffCancel`, `CancelOrder`, `ConfirmDelivery`, `CreateRequest`, `Approve`,
`Reject`, `Process`, and the generic `PostRefund`, `PutRefund`, `DeleteRefund`.
`order`, `payment`, `request` and `refund` are the tables' rows; `view` is what
each client last opened (`Open`), and `Submits` is the comparison of `row_version` with
it. Money is counted in cents, as the code does after quantizing. Two specifications:
`Spec` has the workflow endpoints, `ApiSpec` adds the generic ones. `Cents` defines
the sum of amounts as the number of cents of all rows, so that the theorems on finite sets apply; `MCOrderRefunds`
checks that it agrees with a fold.

### `RefundTransactions`: the same requests, statement by statement
`Plan(op)` is the sequence of rows a request locks or reads; `Statement` runs the next
one when no other transaction blocks it, `Commit` repeats the code's checks on what was
read (`Passes`) and makes the writes, `RollBack` is the refusal. The pool is the bound on transactions in flight.
The property `RequestsAreAtomic` says that this is an implementation of `ApiSpec`
with the same variables: whatever the interleaving, each commit is one of the atomic
requests and everything else changes no row. It is proved, so the theorems about `ApiSpec`
are about the transactions too.
`Checkout` is left to `CartCheckout`; the generic replacement and deletion of refunds are
actions of `OrderRefunds` only.

### `CartCheckout`: cart, checkout, catalog, address
Sessions of one customer look at, add to, change and check out the cart while an
administrator configures the catalog and an address is deactivated. Each request
is a chain of steps named after its statements (`AddAccount`, `AddCart`, `AddItem`,
`AddCommit`, ...). `AccountLock`, `CartLock`, `ItemLock`, `CatalogLock` and
`AddressLock` say which lock each request takes, and `Get` how a statement waits.

### `NotificationOutbox` and `AtMostOnce`
A worker is a request: it moves its order or refund request and queues the rows
(`Commit`), then claims (`Claim`), renders and sends (`Send`) and records (`Mark`) one
row after the other. `Die` kills it anywhere. `Landline` is the set of events for which rendering finds no mobile number.
The provider may take the message and fail to say so. `AtMostOnce` is the abstract promise: notifications are
promised in batches, each reaches the customer at most once and none that was not
promised. `DeliveredAtMostOnce` is the refinement, with the queued rows
as `promised` and the messages that arrived as `received`.

### `CustomerResources`: addresses and payment methods
One account, its rows, and sessions that create, edit, choose the default and
deactivate. All but the edit lock the account first. The two tables have
the same statements, so the module stands for both.

### `StaffAccounts`: sign-in and user management
`LoginFailure` counts under the row's lock, `AdminChange` demotes or deactivates
after `Protect` has locked the active administrators one by one in any order
(`LockAdmin`) and `ProtectLast` has counted them. `page` is what user management showed. `Expire` is
the passing of the lockout period.

### `EventLog`
The scripts of `session2_event_streaming` as processes. The producer clears (`BeginReset`,
`Clear`) and fills (`Produce`) the log in two transactions; numbers of the sequence are never
used again. The consumers read the end of the log once and then take group after group
through `ResetConsumer`, `ReadLog`, `WriteSink` and `CommitGroup`; the failure demonstration
reads its counts and offsets in statements of their own. `Die` ends a script anywhere.
A sink stands for the set of event ids it was made from: its rows are a function of
them, and the tables behind the events do not change (the views the producer reads
contain imported rows only). The scripts are separate programs and may be started side by side,
each kind once; the desktop program and the runner start one after the other. The
reconciliation is the condition `Reconciled` on a state. The self test uses groups of its own.

### `StaffRecords`: the generic endpoints
Sessions create, change and delete products, staff orders, items and refunds, as
`BeginCreate`/`BeginUpdate`/`BeginDelete`, `EnsureMutableVersion`, `Validate`, one of
`Insert`, `Update`, `Delete`, and `Commit`, which also inserts the audit row. Only a
refund's item is locked while it is validated; foreign keys and unique indexes are what
the INSERT, UPDATE or DELETE meets, and `Strong`, `NoKey` and `KeyShare` are the row locks these take. The
columns kept are the references, the origin, the version and the price or amount.

### `CustomerAccess`: customer accounts and browser sessions
`Register`, `BeginLogin` to `SignIn`, `Logout`, `ChangePassword`, `Forgot`, `Reset`,
`SetActive`, `Unlock` and `Expire` are the endpoints and the passing of time; `Load`, `Restore`,
`Check` and `Sync` are what a page does with its session state, the store of handles and
the cookie. A sign-in reads the account, and updates it in a later step whatever
happened in between; it moves the visitor's bag with one request per product
(`Transfer`), whose answer may be an error, or lost. A token carries a ghost field `over`, set by whatever
is supposed to end it; `bag` counts what was picked and what was not answered. A script run
is not interrupted by another click of the same tab while it moves the bag.

### `Migrations`: import, migrations, verifiers
Rows are kept by table and id with the columns that decide whose they are (creator,
account, origin, status, parent); `schema` is what the migrations have made of the
tables. `Migrate001` to `Migrate005` are one transaction each. The importer, two
terminals with migration scripts (`StartScript`, `Capture`, `CheckSnapshot`,
`Replace`, `Execute`), the applications as of every schema (`LegacyInsert`, `StaffInsert`,
`Checkout`, `StaffDelete`), the reset, and the verifiers interleave; importer and scripts stop
anywhere. `made` is a ghost column: who inserted the row. As `RetailMetricsWeb/README.md`
demands, the import does not start while a migration script runs, and migration 001 is
run once (`Overlap = FALSE`; with `TRUE` two runs that both passed the file check at
`run_migration.py:48` replace each other's snapshot). A verifier reads with several statements and is one step
(`Verified001` to `Verified003`), because `RetailMetricsWeb/README.md:96` and the runbook stop all writers around a
migration and its verification.

### `PartitionedAggregation`: the batch of session 1
The files are any files of the bounds' size: sessions may be missing or twice, orders second of their
session, profits negative. `Joined` is the join, `Metrics` what a group computes,
`Baseline` the pandas computation, `Task` a partition of Spark, and `Meaning` the
independent definition of a session's metrics that both are compared with. `Destination` is where a row is when its
group is computed: `groupBy` moves rows that are not clustered by its key, so whatever the repartition does, a session's
rows meet in one task.

### `SnapshotRuntime` and `ServedReads`: session 3
`SnapshotRuntime` is one process of session 3: a job (`Stages`) prepares the snapshot part by part (`ReadPart`),
starts the servers, calls them, reconciles and checks safety, while the importer
(`StartImport`, `CopyFile`, `StopImport`) and the applications (`AddRow`) change the
tables and any stage may fail. Because a file is copied in one transaction, what was read is
known by the tables that were filled then. The reference results of sessions 1 and 2 are
taken to be of the complete files. `ServedReads` is the core behind the two transports:
calls of every kind with ids, limits and offsets, the lock of the call counts, streams and delayed
calls whose caller may have left. Limits are at least 1, which every caller in the repository keeps.

### `BatchConsole` and `StreamConsole`: the desktop windows
`BatchConsole` is the window of session 1. A thread runs one stage or all of them (`RunStage`, `RunAll`,
`ScriptEnds`) and reports through a queue that the window drains (`Handle`, `Drain`); the migration tab starts a
thread per command (`Start`, `MigrateStep`, `CountStep`) whose result is a callback of the event loop (`Callback`).
An import empties the tables with TRUNCATE, which waits until no count is half done, since both counts read all tables in one
transaction (`Locking`); it copies the products second and they are counted last. `exited` remembers how each script ended,
`whole` whether all tables were complete when a count ended. `StreamConsole` is that of session 2: a stage prepares the tables, runs a
script and calls back (`Click`, `EnsureStreamingTables`, `ScriptEnds`, `PostValidation`, `Done`), and "Run everything" is a
chain of stages with a pause between two (`NextStage`, `Completed`). Output, charts and layout are left out.

### The compositions: `Customers`, `Staff`, `Batch`
Components that share nothing but the moment at which they are deployed are checked in one run: `part` says in
the initial state which of them moves, and the others keep their initial state. So every property of
such a run is checked over each of its components' complete state spaces, and over nothing larger. `Customers` is
`CustomerResources` and `CustomerAccess`, `Staff` is `StaffAccounts` and `StaffRecords`, and `Batch` is `EventLog`
with the programs around the database; their run modules `MCCustomers`, `MCStaff` and `MCBatch` only add values.

## Runs and bounds

Every passing run checks every property it lists over all reachable states;
`CHECK_DEADLOCK FALSE` stands where the bounds let the instance run out of requests,
after which it really stops.

| Run | Instance | Question |
|---|---|---|
| `order_refunds` | 1 order, items of 2 and 1 cents, 2 staff, 1 customer, 3 requests, 3 refunds | are the sums, order, payment, requests and decisions right under workflow requests by clients with old pages? |
| `order_refunds_generic` | 2 orders with an item each, 1 staff, 1 request, 3 refunds, generic endpoints | finding, see below |
| `refund_transactions` | 1 item of 1 cent, every kind of request and the generic refund, 3 connections | is every request atomic, the generic refund included, and is there never a circular wait? |
| `refund_transactions_items` | 2 items of an order, 2 connections | the same when the sums are over two items |
| `refund_transactions_live` | 2 connections | does every request end? |
| `cart_checkout` | 2 sessions, 1 administrator, 2 prices, quantities to 2, 2 carts, 4 versions | is there one active cart, is an order what was offered (catalog price, active address) and what was shown, and what can requests that wait wait for? |
| `cart_checkout_history` | as `cart_checkout` | finding, see below |
| `notification_outbox` | 1 order, 1 request, 2 workers, 1 death, 1 failure | queued with the event, honest status, at most once; settled unless its request died |
| `customer_resources` (`MCCustomers`) | 2 sessions, 3 rows; or 1 account, 2 tabs, lock after 2 failures, 3 changes, 2 tokens, a bag of 1 product | one default, decisions still right at the write, no lost edit; do sessions and links end, does a session that was signed out stay so, and is nothing of the bag lost? |
| `staff_accounts` (`MCStaff`) | 3 accounts (all active at first, as they are created), 2 sessions, lock after 2 failures, 3 changes; or 6 records of the four tables, changed once, by 2 sessions | an administrator remains, tokens match, failures are counted; references hold, changes are of what was seen, refunds fit when written, and the audit trail is complete |
| `event_log` (`MCBatch`) | 3 events in 2 partitions, 3 productions, 2 starts, batches of 2; or 4 rows of CSV, 3 inserts, 2 imports, 2 terminals; or 3 page views of 2 sessions, 2 orders, 2 partitions; or 1 import and 2 jobs of session 3; or 2 callers, 2 calls, 3 rows; or a window with 3 stages, or 2 commands of the migration tab, or 2 clicks on 2 stages | do offsets cover only what the sinks have; are a passed reconciliation and a report of no loss true; do rows keep their origin and the schema its evidence; do partitions compute what the metrics mean; does a passed reconciliation of session 3 mean a complete snapshot; does every call get what it asked for; does a window tell how its scripts ended and work again, and was a PASS true? |
| `event_log_recovery` | 1 production, 2 demonstrations | finding, see below |

Why these are enough to be interesting. An item of 2 cents is the smallest that can
be refunded in part, an order of two items the smallest whose full refund is a
sum nobody has locked as a whole; three requests are one more than fit in the item.
Two connections are enough for a lost update; three are enough for a circle of three rows.
A second cart is what a `row_version` read from the first one can be confused
with, and four versions let two changes of a cart be under way at once. Three rows let the heir of a default be one of two. Three
accounts let two administrators remove each other, or both remove the third one. Three
events are one pageview, one that converted and one refund, so that the three groups
read different parts; three productions clear the log twice under one consumer.
Two tabs are what can hold an older handle than the cookie's; two tokens let one of them be restored
after the other was signed out, and three changes are a reset, a sign-in and one more.
Six records leave room for two that a request creates while another deletes their parent; one
change of each row is enough for a stale version. A product, an order, its item and its refund are one row of
each table the migrations rewrite; two imports are one before and one after the
migrations, and three inserts let staff and customer rows stand beside them. Three page views and
two orders over two sessions are the smallest files in which a session has
two views, two orders, or none. Two jobs let a second one find what the first left. Two clicks, or two commands, are the
least that overlap. Two tables, copied in one order and counted in the other, are the least of which a count in
the middle of an import could take old rows for the one and new rows for the other.
`MaxVersion`, `MaxChanges`, `MaxCarts`, `MaxItems`, `MaxRows`, `MaxProductions`, `MaxStarts`,
`MaxDeaths`, `MaxFailures`, `MaxTokens`, `MaxPicks`, `MaxInserts`, `MaxImports`, `MaxEvents`, `MaxJobs`, `MaxPolls`,
`MaxCalls` and `IdsLeft` (no request starts without a free row for
it) are bounds of the instances and appear in guards of the actions that submit
requests (in `CustomerAccess`, of those that change an account); `MaxQuantity`, `Attempts`, `Limit`, `CommitEvery` and `PoolSize` are limits of the code,
made small. Symmetry is used in no run with a liveness property.

## Fairness

- `RefundTransactions`: strong fairness of each client's server-side steps (`Answer`),
  submission excluded. A handler thread keeps running; a statement that waits for a row is
  queued by PostgreSQL and gets it when it is released, so a row that is free again and
  again is obtained. Nobody is assumed ever to press a button.
- `NotificationOutbox`: weak fairness of each worker's `Serve`: a handler in flight goes on.
  Rows of a request that died stay pending by design
  (`RetailMetricsWeb/docs/NOTIFICATIONS.md`), and `Settles` leaves them out.
- The other modules assume no fairness and promise safety only. `CartCheckout` has circular waits;
  `WaitsEnd` says which: no request waits for one that is over, and a circle has a checkout with a request of another
  kind in it, or an addition with a change of the cart; PostgreSQL aborts one of them. A lock that outlives its
  request, or a deletion that locked the cart before the item, violates it. (In `CustomerResources` the account is locked before any row, and an
  edit locks a single row, so no circle can form.) That every single request ends would need fairness of the database's lock queue with
  respect to a changing set of rivals and is not claimed.

## What is proved

For every value of the constants (any number of sessions, rows, products, prices, tokens, partitions); TLC had
checked each formula first.

**`RefundProofs`, `OrderRefunds`.** `ApiTypeCorrect` and `TypeCorrect`: types, under
`ApiSpec` and `Spec`. `RefundsNeverExceedPrice`: under `ApiSpec` the refunds of an item
never exceed its price. It is inductive with the types alone, because every path
that adds a refund goes by `Remaining`. `ApprovalsAreCovered`: under `Spec`, refunds and approved
requests of an item together fit in its price. Approving checks the sum including the
request, and processing moves an amount from one sum to the other, so the
proof is about how a sum changes when one member leaves it. `PaymentsFollowOrders` and
`RequestsPaidOnce` (a processed request has exactly one refund row and no other has any)
are inductive with the types. `MoneyFollowsGoods` (`RefundsSettle`) needs both: that the order is closed
exactly when everything went back is a statement about a sum over the items of the order, each
of which `RefundsNeverExceedPrice` bounds, and that an approval can be kept needs that a refund which
closes the order leaves no approved request behind, which `ApprovalsAreCovered` says. `DecisionsOnCurrentState`
(`DecidedOnCurrentState`) names who decides: the client whose request is accepted was shown the present status, because
a page whose version is current shows it, and every change of a status is such a request. The first part of the module has the
lemmas on sums: a sum is the number of cents of a set of rows, so adding a row, changing one or leaving one out follows from
the library's facts on cardinalities.

**`RefundProofs`, `RefundTransactions`.** `CommitsAreAtomic` (`RequestsAreAtomic`): the transactions refine
`ApiSpec`. The invariant `TInv` says of every open transaction that what it has read under its locks is still so
(`Current`), that it holds the lock of every row it has read (`HasLocks`), and that conflicting locks
have one owner. A commit of another session could change what was read only with a lock that
conflicts; for the sums nobody has locked as a whole, whoever changes one must have locked the item. Then the
guards of a commit, evaluated on what was read, are those of the atomic action. `NobodyWaitsInACircle`
(`NoCircularWait`): every plan locks in the order item, request, order, payment, so the ranks of what is waited
for increase along a chain of waiting transactions. `CommittedRowsAreRight` carries three invariants of `OrderRefunds` over.

**`CustomerResourcesProofs`.** `TypeCorrect`, `DecisionsStayRight` (`PlansHold`),
`AlwaysOneDefault` (`OneDefault`). `OneDefault` is not inductive: a commit
writes what was decided several statements earlier. The invariant `IInv` adds that
requests in flight are well formed, that at most one session holds the account, and that
the holder's plan still agrees with the rows: it can, since whoever
does not hold the account changes no row's default or activity. That
an heir is the lowest id uses a minimal-counterexample argument from the
library's well-foundedness of the naturals. `ChangesAsSeen` (`ChangedAsSeen`) has two parts: `LowestInherits` follows from `PlansHold`, and
`EditsOnSeen` from a second invariant, `SInv`: a version belongs to one state of a row, and a request that has compared
versions holds the row. The last section is about `Customers`: a step of the whole is a step of one part, so the theorems of both
hold of it, with those of `CustomerAccessProofs` as `SessionsAreOver` (`SessionsEnd`), `BagsArriveWhole`
(`GuestItems`) and `NothingComesBack` (`SignedOutGone`).

**`CartCheckoutProofs`.** `TypeCorrect` (`TypeOK`, with one active cart), `OrdersAsOffered`
(`OrderedAsOffered`), `OrdersAsShown` (`ShownIsOrdered`). The invariant says what each request knows after each of its statements
(`Adding`, `Deleting`, `Checking`) and which locks make it stay so (`Keeps`): the account's row keeps other
additions away, the shared locks on catalog rows and on the address keep prices and activity as they were compared.
`ShownIsOrdered` rests on `Current`: as long as a cart is active, a version of it stands for one set of items,
because every change of an item raises it. A second invariant, `OInv`, says that a checkout that has compared versions holds the
cart, and that an ordered cart is converted: so no cart is ordered twice, and a session that had read another cart
had one that is converted by then. `WaitsComeToAnEnd` (`WaitsEnd`) follows from which kinds of rows a request may have locked at each of its
steps (`HeldOK`): checkouts alone wait for checkouts that are further, and each circle without a checkout needs one side that
goes from cart to item and one that goes from item to cart.

**`NotificationOutboxProofs`.** `RowsFollowEvents` (`QueuedWithEvent`), `RowsAreHonest` (`HonestStatus`)
and the refinement `ImplementsAtMostOnce` (`DeliveredAtMostOnce`). The invariant: the rows a worker is about to queue are missing as long as
it holds their target; a row in state `sending` that is being sent belongs to one worker, and to none once
that one has died; an inbox that is not empty goes with a row that has left `pending`. A second
delivery would be of a row that a worker has claimed, whose inbox is empty.

**`StaffProofs`.** `TypeCorrect`, `AlwaysAnAdmin` (`AdminRemains`), `RolesOfTokens` (`TokensMatch`),
`EveryFailureCounts` (`FailuresCounted`), `DecisionsOnSeen`. An administrator who is about to be removed is one
of two active ones whose rows the request holds (`HoldsTwo`), and nobody else can remove a row that is held. A token that is
not older than its account has its role, since a change of the role raises the account's `token_version`. The last
section is about `Staff`, accounts and records together: `StaffTypesCorrect` (`StaffTypeOK`), `TrailIsComplete`
(`AuditComplete`), `ChangesAsSeen` (`SeenBeforeChanged`).

**`StaffRecordsProofs`.** `TypeCorrect`, `TrailIsComplete`, `WritesAsSeen`, `RefundsFit`. A request validates, writes and commits in
three steps, and others commit between them. The invariant says what a request still knows: about the row it is going
to write (`WriteOK`), that an item's order stays one of the staff's though it may be deleted (`ItemOK`), and that a refund, with all others of its item, fits in the price (`RefundOK`) from the validation to the commit. Nothing else keeps
them so but the locks: no two requests hold conflicting ones (`AllApart`), and whoever changes an item's price or its
refunds needs the lock that a refund's request holds.

**`CustomerAccessProofs`.** `SessionsAreOver` (`TypeOK` and `SessionsEnd`), `BagsArriveWhole` (`GuestItems`), `NothingComesBack`
(`SignedOutGone`). What ends a token raises the account's `token_version`, which never falls, so a token that is
over stays below it; a link goes with the number of the password's changes. The bag is a count of pieces:
`Counted` says of each product that the carts' pieces and the bags it is in lie between what was picked
and that plus the answers that were lost; the proof is about one piece that moves from a set to
another. `NothingComesBack` looks at every step that takes a tab's token away: all but a full page
load are sign-outs, and a tab that shows an account holds the handle that restores it.

**`BatchProofs`.** Every invariant of `Batch`, one component after the other; the last section puts them together
(each component's part of `BatchSpec` is a behaviour of its own specification, `EventsMove`, `DatabaseMoves`, ...).

- The event log: `TypeCorrect`, `OffsetsAreHonest` (`OffsetsHonest`), `BothLagsAgree`, `ReconciliationVouches`,
  `EverythingReconciled` (`ReconciledEverywhere`), `ReportsAreLossless` (`ReportedLossless`). The invariant relates
  the end of the log a run has looked up to all numbers given out: a number is never used again, so what is appended
  after a reset is beyond that end, and a group that is at work has no offset until its sink has what was read.
- Import and migrations: `BatchTypesCorrect` (`BatchTypeOK`), `CanonicalStays` (`CanonicalIsImported`), `MigrationEvidence`.
  `DatabaseInv` says which rows can be there: those imported are exactly the ids of the files, because
  applications write only once migration 001 has put the shared sequence above them; which column says so
  depends on the schema (`OriginOK`); and a script that is past its question works on a database that is filled,
  while no import runs. `VerdictHonest` needs it most: a verifier compares counts, and the counts suffice only because the
  rows can be no others. These theorems and `EvidenceStands` assume `~Overlap`, as the run does: nobody starts a second
  `run_migration.py` while the first waits for its answer; what happens otherwise is told with `Migrations` above.
- The snapshot of session 3: `VerdictStands` (`VerdictCovers`). `JobOK` gives the stages a job may have left; while
  it reads, each part read so far is kept. The refunds' file is copied last, so a part that has the refunds is complete
  (`PartOK`), and the comparisons of a reconciliation are just those that tell a part with refunds from one without.
- The windows: `EvidenceStands` (`EvidenceTrue`), which also has `MigrationEvidence`. In session 1 a stage's row is true or the last
  message about it in the queue will make it so (`Settled`), and the window is busy until the last message. In session 2, as long as
  no click came between two stages, one chain runs, it has passed all stages before its own, and `stage_state`
  tells of every stage but the one that is just reporting (`NotOverlapped`); with such a click, a row still says "running" only
  while a thread is at work on its stage (`TreeOK`), and the last callback stops everything (`NeverStuck`). In the migration tab
  what a count has found complete stays so until the count ends (`CommandOK`), because the import cannot empty a table the count has read.
- The services of session 3: `AnswersAreExact` (`ServedExactly`). Whoever is between reading a count and writing it holds
  the lock; an answer is a piece of the sorted rows, and a stream has looked at the first `at` rows and
  sent those of them that come after its start (`Streaming`).
- The batch of session 1: `BatchIsExact` (`ParallelIsSequential`). The join of files without doubles has one row per view, so a session's group is the same
  before and after the partitioning; what has been computed are the groups of the partitions whose tasks are
  through (`Computed`), however often the benchmark starts again with another number of partitions.

The assumptions are those named `...Assumption` in the modules; TLC evaluates them in the
runs. `CustomerAccess` states its assumption as a definition that its theorems take as a
hypothesis, because the run uses the module as an instance, and so does `StaffRecords`; `MCCustomers` and
`MCStaff` assume them of those instances.

The constants of the programs in `Batch` are assumed there, of each instance.

Only model-checked: liveness (`RequestsEnd`, `Settles`; fairness is outside the prover's reach) and the three runs that refute a sentence of the documents. What recursive definitions compute for every input
cannot be proved here, so none is used in the modules proved about.

## Where the code and its documents differ

1. `FullRefundClosesOrder` (run `order_refunds_generic`). The generic refund endpoint
   (`services/business_service.py:51`) checks the price only. A full refund through it leaves the
   order pending and the payment paid, although `RetailMetricsWeb/README.md:562` says that
   cumulative refunds covering the order set both to `refunded`, and line 315 that these
   routes cannot mutate customer-origin transactions.
2. `ConvertedCartKept` (run `cart_checkout_history`). A removal of a cart line that waits
   behind a checkout deletes the line from the converted cart
   (`repositories/storefront_repository.py:177`), which line 538 says is retained as history.
3. `FlakyOffsetHonest` (run `event_log_recovery`). The failure demonstration says that a
   restarted consumer "only knows the committed offset"
   (`session2_event_streaming/failure_recovery.py:73`), but it keeps that offset in a variable
   and leaves the stored one at the end of the log its last run reached. If the process dies
   where it only pretends to, the table claims all events and the sink has the first ones.

## What the models show without a property

Behaviour that is in the models and that no document of the repository rules out:

- A sign-in whose password was compared before the last failure clears the lock that failure set
  (`LoginSuccess`), and one that upgrades an outdated hash puts back the password it compared, even if
  the password was changed or reset in between (`services/auth_service.py:78`).
- A run of migration 002 that dies after writing its snapshot leaves a file that refuses the next run
  (`scripts/run_migration_002.py:99`).
- `scripts/reset_presentation_data.py:69` deletes orders that rows of the notification outbox refer to
  with ON DELETE RESTRICT since migration 003: the reset is refused and rolled back (`ResetOrder`).
- A price of a staff item may be lowered below what has been refunded (`Update` in `StaffRecords`).
- A passed reconciliation of session 3 does not cover the lists of products, orders and items, nor
  the product performance; the safety fingerprint does not see changes that keep the counts.
- A host that failed to start (`Start`) is not started again until it is stopped: the next "Serve"
  returns at once.
- The partition analysis of session 1 checks row counts only (`AnalysisOnly`).
- Between two stages of "Run everything" the window of session 2 is not "running" (`session2_event_streaming/gui.py`): a
  click in these 250 ms starts a second script beside the chain, and the first of the two to end frees the window for a third.
- Nothing keeps the migration tab of session 1 from running two commands at once; the rows then show the one that reports last,
  and a PASS may stand over an import that has begun since.
- A `row_version` does not name a cart. A checkout may order another cart than the one that was shown, if that one has
  been checked out since and the new one has reached the same version; `ShownIsOrdered` only says that nothing else gets mixed up.

## What is not modelled

- Analytics, reports and the display side of the pages: no state changes.
- The customer's profile and the staff's own account pages (one row under a `row_version`, as the
  addresses), account creation by an administrator, the staff's password reset and cookie (the statements of
  `CustomerAccess`); the audit row of a failed sign-in and the allowlist of audited values; the pool's start and stop.
- The administrator's test message, message wording, provider HTTP, the first
  configuration of a catalog entry, and the payment method chosen at checkout (the
  same statements as the address).
- Creating the first administrator, the presentation data and the secret.
- Payload sizes, latencies, the contract report, the port probe of session 3; profiles, plans and timings
  of session 1; the self test, replay reports and handover check of session 2, which start or read only.
- The generated protocol code and the diagrams; of the desktop windows the output, charts and layout, and the window that draws the
  metrics. An exception while the window of session 1 shows the results of a stage (`_apply_stage`, called by `_drain`) would end the draining of
  the queue: the row has been written by then, but what comes later is never shown. Locks while an import waits to empty the tables are
  left out: where PostgreSQL finds a circle, one of the two commands fails, as any may.
- A request repeated by a client that gave up, except for the visitor's bag: elsewhere it is another request
  with the same page.

## Plan

In the order of importance; all of the following exist, 8 to 10 composed in `Batch` with proofs.

1. `Cents`, `OrderRefunds` with proofs.
2. `RefundTransactions`, refining `OrderRefunds`.
3. `CartCheckout`.
4. `AtMostOnce`, `NotificationOutbox`, refining it.
5. `CustomerResources` with proofs.
6. `StaffAccounts`, `StaffRecords`, composed in `Staff`, with proofs.
7. `CustomerAccess` with proofs, composed with 5 in `Customers`.
8. `EventLog`, `Migrations`.
9. `SnapshotRuntime`, `ServedReads`, `PartitionedAggregation`.
10. `BatchConsole`, `StreamConsole`.
