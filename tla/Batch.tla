--------------------------------- MODULE Batch ---------------------------------
(***************************************************************************)
(* The programs around the shop's database.  They share its tables, but    *)
(* each reads and writes its own, so "part" says which of them moves, and  *)
(* the rest keeps its initial state.                                       *)
(*   events       the log of session 2                                     *)
(*   database     import and migrations                                    *)
(*   aggregation  the batch of session 1                                   *)
(*   snapshot     the runtime of session 3, while the importer runs        *)
(*   services     calls of the services of session 3                       *)
(*   pipeline     the window of session 1 and its pipeline                 *)
(*   migration    its migration tab                                        *)
(*   stream       the window of session 2                                  *)
(***************************************************************************)
EXTENDS EventLog, Integers

CONSTANTS
    None,
    FileRows, Parent(_), Runners, Overlap,                      \* of Migrations
    MaxInserts, MaxImports, MaxEvents,                       \* its bounds
    Views, Orders, SessionKeys, Times, Amounts,              \* of PartitionedAggregation
    MaxSnapshotImports, MaxRows, MaxJobs,                    \* bounds of SnapshotRuntime
    Callers, ServedRows, Ids, Limits, MaxPolls, MaxCalls,    \* of ServedReads
    PipelineStages, CopiedTables, RefersTo(_), CountedTables, \* of BatchConsole
    StreamStages, SelfTestStage, ProduceStage,               \* of StreamConsole
    Clicks                                                   \* bound of both

VARIABLES part,
          schema, rows, nextId, support, evidence, runner, importer, reset, verified, inserts, imports,
          view, copies, order, hash, stage, baseline, result, tasks,
          loaded, importing, own, references, runtime, job, verdict, count,
          calls, lock, call, counted, begun,
          window, messages, thread, exited, tab, stored, command, due,
          connected, running, live, row, state, chain, ended, overlapped

Database == INSTANCE Migrations WITH Source <- FileRows, ParentOf <- Parent, sequence <- nextId,
                                     snapshot <- evidence, verdict <- verified

Aggregation == INSTANCE PartitionedAggregation

Snapshot == INSTANCE SnapshotRuntime WITH MaxImports <- MaxSnapshotImports

Services == INSTANCE ServedReads WITH Rows <- ServedRows

Console == INSTANCE BatchConsole WITH Stages <- PipelineStages, Tables <- CopiedTables,
                                      Counts <- CountedTables, Slots <- Clicks, job <- command

StreamTab == INSTANCE StreamConsole WITH Stages <- StreamStages, SelfTest <- SelfTestStage,
                                         Produce <- ProduceStage, exited <- ended

ASSUME DatabaseAssumption ==
    Database!SourceAssumption /\ Database!BoundsAssumption /\ Database!NoneAssumption

ASSUME SnapshotAssumption == Snapshot!NoneAssumption

ASSUME AggregationAssumption == Aggregation!FilesAssumption

ASSUME ServicesAssumption == Services!RowsAssumption /\ Services!NoneAssumption

ASSUME ConsoleAssumption == Console!StagesAssumption /\ Console!CountsAssumption /\ Console!NoneAssumption

ASSUME StreamAssumption == StreamTab!StagesAssumption /\ StreamTab!NoneAssumption

databaseVars == <<schema, rows, nextId, support, evidence, runner, importer, reset, verified, inserts, imports>>
aggregationVars == <<view, copies, order, hash, stage, baseline, result, tasks>>
snapshotVars == <<loaded, importing, own, references, runtime, job, verdict, count>>
servicesVars == <<calls, lock, call, counted, begun>>
consoleVars == <<window, messages, thread, exited, tab, stored, command, due>>
streamVars == <<connected, running, live, row, state, chain, ended, overlapped>>

BatchInit ==
    /\ part \in {"events", "database", "aggregation", "snapshot", "services", "pipeline", "migration", "stream"}
    /\ Init /\ Database!Init /\ Snapshot!Init /\ Services!Init /\ Console!Init /\ StreamTab!Init
    /\ part # "snapshot" => loaded = {} /\ ~references
    /\ part # "migration" => \A t \in DOMAIN stored : ~stored[t]
    /\ IF part = "aggregation" THEN Aggregation!Init
       ELSE /\ view = None /\ copies = None /\ order = None /\ hash = None
            /\ stage = None /\ baseline = None /\ result = None /\ tasks = None

BatchNext ==
    /\ UNCHANGED part
    /\ \/ part = "events" /\ Next
       \/ part = "database" /\ Database!Next
       \/ part = "aggregation" /\ Aggregation!Next
       \/ part = "snapshot" /\ Snapshot!Next
       \/ part = "services" /\ Services!Next
       \/ part = "pipeline" /\ Console!Pipeline
       \/ part = "migration" /\ Console!Migration
       \/ part = "stream" /\ StreamTab!Next
    /\ part # "events" => UNCHANGED vars
    /\ part # "database" => UNCHANGED databaseVars
    /\ part # "aggregation" => UNCHANGED aggregationVars
    /\ part # "snapshot" => UNCHANGED snapshotVars
    /\ part # "services" => UNCHANGED servicesVars
    /\ part \notin {"pipeline", "migration"} => UNCHANGED consoleVars
    /\ part # "stream" => UNCHANGED streamVars

BatchSpec == BatchInit /\ [][BatchNext]_<<part, vars, databaseVars, aggregationVars, snapshotVars,
                                          servicesVars, consoleVars, streamVars>>

-----------------------------------------------------------------------------
\* A part that does not move keeps its initial state, so each property is asked of
\* the part it is about.

\* The tables' domains: offsets were given out once each and no group is ahead of
\* the sequence; the shop's rows satisfy the checks of the schema they are in, the
\* next migration's included, and the shared sequence gives out no id that a row
\* has, not even after the CSV files have been imported again.
BatchTypeOK ==
    /\ part = "events" => TypeOK
    /\ part = "database" => Database!TypeOK /\ Database!StatusesUpgrade /\ Database!SequenceAhead

\* When reconcile.py passes over a log that is not empty, every core sink is
\* complete, and no partition of a group that has read all of the log lags.
ReconciledEverywhere == part = "events" => ReconciledSinks /\ LagsAgree

\* Analytics sees the imported rows, all of them when no import was cut short, and
\* nothing the applications wrote, whatever schema the database is in.
CanonicalIsImported == part = "database" => Database!CanonicalIsImported

\* What the scripts leave as evidence is true: a migrated database has a snapshot
\* that was taken before, and a verifier that passed has seen what it claims; and
\* so is what the windows that start them show: a stage's row and stage_state say
\* how its script ended, PASS was true of the whole database when it was counted,
\* and nothing seems to run, and the buttons work, once nothing does, whatever has
\* been clicked meanwhile.
EvidenceTrue ==
    /\ part = "database" => Database!SnapshotIsBefore /\ Database!VerdictHonest
    /\ part = "pipeline" => Console!IdleTellsTheTruth
    /\ part = "migration" => Console!PassWasTrue
    /\ part = "stream" => StreamTab!NeverStuck /\ StreamTab!TrueUnlessOverlapped

\* A reconciliation of session 3 that passes vouches for counts, session metrics and
\* sales summary of the complete files, though the importer ran between the reads.
VerdictCovers == part = "snapshot" => Snapshot!VerdictCovers

\* A call over either transport gets exactly what it asked for, or a beginning of
\* it, and every call is counted once, however many run.
ServedExactly == part = "services" => Services!ServedExactly

\* Whatever the files and the partitioning, pandas and Spark compute what the
\* metrics mean.
ParallelIsSequential == part = "aggregation" => Aggregation!ParallelIsSequential

=============================================================================
