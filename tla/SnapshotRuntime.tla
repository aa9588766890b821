--------------------------- MODULE SnapshotRuntime ---------------------------
(***************************************************************************)
(* Session 3: a process reads the imported rows of the database into a      *)
(* snapshot, serves it, measures the services and reconciles the snapshot   *)
(* with the results of sessions 1 and 2.  The importer of session 1 may run  *)
(* meanwhile, and stop anywhere.                                            *)
(*                                                                         *)
(* What is read of a table is all of its file or nothing, because a file is  *)
(* copied in one transaction; a part of the snapshot is therefore known by   *)
(* the tables that were there when it was read.                             *)
(***************************************************************************)
EXTENDS Naturals, Sequences, Functions

CONSTANTS MaxImports, MaxRows, MaxJobs,   \* bounds
          None

VARIABLES
    loaded,     \* imported tables that have their rows
    importing,  \* the importer: the next of its files, 0 if it does not run
    own,        \* rows the applications added to the protected tables
    references, \* the results of sessions 1 and 2 are there
    runtime,    \* Session3Runtime: [core, before, host]
    job,        \* what its worker has to do: [kind, todo, draft]
    verdict,    \* of the last reconciliation of this process
    count       \* imports and jobs begun, for the bounds

database == <<loaded, importing, own>>
vars == <<database, references, runtime, job, verdict, count>>

\* FILES, in the order in which they are copied
Files == <<"sessions", "products", "pageviews", "orders", "items", "refunds">>
Tables == Range(Files)
Protected == {"products", "orders", "items", "refunds"}

\* The parts of a snapshot in the order of load_snapshot, and what they read.
Parts == <<"counts", "products", "orders", "items", "refunds", "sessions",
           "session_metrics", "sales_summary", "product_performance">>
Reads(part) ==
    CASE part = "counts"              -> Tables
      [] part = "session_metrics"     -> {"pageviews", "orders"}
      [] part = "sales_summary"       -> {"sessions", "orders", "refunds"}
      [] part = "product_performance" -> {"products", "items", "refunds"}
      [] OTHER                        -> {part}

\* The stages of a job; those of the worker's functions that only differ in what
\* they call are one.
Stages == [serve     |-> <<"start">>,
           measure   |-> <<"start", "call">>,
           payload   |-> <<"prepare", "payload">>,
           compose   |-> <<"prepare">>,
           reconcile |-> <<"prepare", "reconcile">>,
           all       |-> <<"prepare", "payload", "start", "call", "reconcile", "safety", "stop">>]

\* No snapshot is none.
NoneAssumption == None \notin [Range(Parts) -> SUBSET Tables]

NewRuntime == [core |-> None, before |-> None, host |-> "none"]
NoJob == [kind |-> None, todo |-> <<>>, draft |-> <<>>]

Init ==
    /\ loaded \in {{}, Tables} /\ importing = 0 /\ own = 0
    /\ references \in BOOLEAN
    /\ runtime = NewRuntime /\ job = NoJob /\ verdict = None
    /\ count = [imports |-> 0, jobs |-> 0]

-----------------------------------------------------------------------------
(* The database.                                                            *)

Process == UNCHANGED <<references, runtime, job, verdict>>

\* One TRUNCATE, committed; CASCADE takes what refers to the tables.
StartImport ==
    /\ importing = 0 /\ count.imports < MaxImports
    /\ importing' = 1 /\ loaded' = {} /\ own' = 0
    /\ count' = [count EXCEPT !.imports = @ + 1]
    /\ Process

CopyFile ==
    /\ importing # 0
    /\ loaded' = loaded \cup {Files[importing]}
    /\ importing' = (importing + 1) % (Len(Files) + 1)
    /\ UNCHANGED <<own, count>> /\ Process

StopImport ==
    /\ importing # 0 /\ importing' = 0
    /\ UNCHANGED <<loaded, own, count>> /\ Process

AddRow ==
    /\ own < MaxRows /\ own' = own + 1
    /\ UNCHANGED <<loaded, importing, count>> /\ Process

-----------------------------------------------------------------------------
(* The process.                                                             *)

At(stage) == job.todo # <<>> /\ Head(job.todo) = stage
Goto(todo) == job' = [job EXCEPT !.todo = todo]
Done == Goto(Tail(job.todo))
Kept == UNCHANGED <<database, references, count>>

\* run_all stops the services in any case.
Raise == job' = IF job.kind = "all" THEN [job EXCEPT !.todo = <<"stop">>, !.draft = <<>>] ELSE NoJob

\* The busy flag admits one job at a time.
Begin(kind) ==
    /\ job.todo = <<>> /\ count.jobs < MaxJobs
    /\ job' = [NoJob EXCEPT !.kind = kind, !.todo = Stages[kind]]
    /\ count' = [count EXCEPT !.jobs = @ + 1]
    /\ UNCHANGED <<database, references, runtime, verdict>>

Prepare ==
    /\ At("prepare")
    /\ Goto(IF runtime.core # None THEN Tail(job.todo)
            ELSE <<"protected", "canonical">> \o Parts \o <<"core">> \o Tail(job.todo))
    /\ Kept /\ UNCHANGED <<runtime, verdict>>

\* safety_fingerprint: the protected tables in one transaction, the canonical
\* counts in the next.
FingerprintProtected ==
    /\ At("protected") /\ Done
    /\ runtime' = [runtime EXCEPT !.before = [rows |-> <<loaded \cap Protected, own>>, canonical |-> {}]]
    /\ Kept /\ UNCHANGED verdict

FingerprintCanonical ==
    /\ At("canonical") /\ Done
    /\ runtime' = [runtime EXCEPT !.before.canonical = loaded]
    /\ Kept /\ UNCHANGED verdict

\* Each part is read in a transaction of its own.
ReadPart(part) ==
    /\ At(part)
    /\ job' = [job EXCEPT !.todo = Tail(@), !.draft = Append(@, loaded \cap Reads(part))]
    /\ Kept /\ UNCHANGED <<runtime, verdict>>

Core ==
    /\ At("core")
    /\ runtime' = [runtime EXCEPT !.core = [p \in Range(Parts) |-> job.draft[CHOOSE i \in DOMAIN Parts : Parts[i] = p]]]
    /\ job' = [job EXCEPT !.todo = Tail(@), !.draft = <<>>]
    /\ Kept /\ UNCHANGED verdict

\* No connection, or a statement that fails.
DatabaseFails ==
    /\ \E step \in {"protected", "canonical", "safety"} \cup Range(Parts) : At(step)
    /\ Raise
    /\ Kept /\ UNCHANGED <<runtime, verdict>>

\* The host is kept before it has started: one that failed is not started again.
Start ==
    /\ At("start")
    /\ IF runtime.host # "none" THEN Done /\ UNCHANGED runtime
       ELSE IF runtime.core = None THEN Goto(<<"prepare">> \o job.todo) /\ UNCHANGED runtime
       ELSE \/ Done /\ runtime' = [runtime EXCEPT !.host = "up"]
            \/ Raise /\ runtime' = [runtime EXCEPT !.host = "failed"]
    /\ Kept /\ UNCHANGED verdict

Call ==
    /\ At("call")
    /\ IF runtime.host = "up" THEN Done ELSE Raise
    /\ Kept /\ UNCHANGED <<runtime, verdict>>

Stop ==
    /\ At("stop") /\ job' = NoJob
    /\ runtime' = [runtime EXCEPT !.host = "none"]
    /\ Kept /\ UNCHANGED verdict

\* The first row of each list is measured, and has to be there.
First(part) == IF part = "session_metrics" THEN "pageviews" ELSE IF part = "product_performance" THEN "products" ELSE part

Payload ==
    /\ At("payload")
    /\ IF \A p \in Range(Parts) \ {"counts", "sales_summary"} : First(p) \in runtime.core[p] THEN Done ELSE Raise
    /\ Kept /\ UNCHANGED <<runtime, verdict>>

Whole(part) == runtime.core[part] = Reads(part)

PassesRefundsUncompared == Whole("session_metrics")      \* Mutant: sessions only.

\* Both session frames, the number of refunds and their sum.
Passes ==
    /\ Whole("session_metrics")
    /\ "refunds" \in runtime.core["counts"]
    /\ "refunds" \in runtime.core["sales_summary"]

Reconcile ==
    /\ At("reconcile")
    /\ IF references /\ "pageviews" \in runtime.core["session_metrics"]
       THEN /\ Done
            /\ verdict' = [passed |-> Passes, kind |-> job.kind]
       ELSE Raise /\ UNCHANGED verdict
    /\ Kept /\ UNCHANGED runtime

\* verify_safety: the first of its two transactions decides or is followed by the second.
Safety ==
    /\ At("safety")
    /\ IF runtime.before.rows = <<loaded \cap Protected, own>> THEN Goto(<<"safe">> \o Tail(job.todo)) ELSE Raise
    /\ Kept /\ UNCHANGED <<runtime, verdict>>

Safe ==
    /\ At("safe")
    /\ IF runtime.before.canonical = loaded THEN Done ELSE Raise
    /\ Kept /\ UNCHANGED <<runtime, verdict>>

\* The window is closed, or the process ends: a worker ends with it.
Exit ==
    /\ runtime # NewRuntime
    /\ runtime' = NewRuntime /\ job' = NoJob /\ verdict' = None
    /\ Kept

Next ==
    \/ StartImport \/ CopyFile \/ StopImport \/ AddRow
    \/ \E kind \in DOMAIN Stages : Begin(kind)
    \/ Prepare \/ FingerprintProtected \/ FingerprintCanonical
    \/ \E part \in Range(Parts) : ReadPart(part)
    \/ Core \/ DatabaseFails \/ Start \/ Call \/ Stop \/ Payload \/ Reconcile \/ Safety \/ Safe \/ Exit

Spec == Init /\ [][Next]_vars

-----------------------------------------------------------------------------
(* Properties.                                                              *)

\* A reconciliation that passes vouches for what it does not compare: although each
\* part was read in a transaction of its own, with the importer truncating and
\* copying between them, the counts, the session metrics and the sales summary are
\* those of the complete files; and the lists, if the payloads were measured first.
\* The refunds carry this, because their file is the last to be copied.
VerdictCovers ==
    verdict # None /\ verdict.passed =>
        /\ \A p \in {"counts", "session_metrics", "sales_summary"} : Whole(p)
        /\ verdict.kind = "all" => \A p \in Range(Parts) \ {"product_performance"} : Whole(p)

=============================================================================
