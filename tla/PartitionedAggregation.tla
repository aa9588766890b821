----------------------- MODULE PartitionedAggregation -----------------------
(***************************************************************************)
(* The batch of session 1: page views joined with their session and its    *)
(* order, then one row of metrics per session, computed by pandas group by  *)
(* group and by Spark partition by partition.                              *)
(*                                                                         *)
(* The CSV files are any files: sessions may be missing or twice, and an    *)
(* order may be the second of its session.  The joins check what they can;  *)
(* what comes out is compared with what the metrics mean.                  *)
(***************************************************************************)
EXTENDS Integers, FiniteSets, FiniteSetsExt

CONSTANTS
    Views, Orders,     \* rows of website_pageviews.csv and of orders.csv
    SessionKeys,       \* website_session_id
    Times, Amounts,    \* bounds: created_at, and the profit of an order
    Partitions,        \* the partitions of a setting
    None

\* Files are finite; None is neither an order's id nor its row.
FilesAssumption ==
    /\ IsFiniteSet(Views) /\ IsFiniteSet(Orders) /\ Times \subseteq Int /\ Amounts \subseteq Int
    /\ None \notin Orders /\ None \notin [session : SessionKeys, profit : Amounts]

VARIABLES
    view,      \* [Views -> session and time]
    copies,    \* [SessionKeys -> how many rows of website_sessions.csv have this id]
    order,     \* [Orders -> session and profit, or None: there is no such row]
    hash,      \* [SessionKeys -> Partitions]: where repartition sends a session's rows
    stage,     \* of the script
    baseline,  \* what pandas computed
    result,    \* [computed groups -> metrics]
    tasks      \* partitions still to be computed

files == <<view, copies, order>>
vars == <<files, hash, stage, baseline, result, tasks>>

Init ==
    /\ view \in [Views -> [session : SessionKeys, time : Times]]
    /\ copies \in [SessionKeys -> 0 .. 2]
    /\ order \in [Orders -> [session : SessionKeys, profit : Amounts] \cup {None}]
    /\ hash \in [SessionKeys -> Partitions]
    /\ stage = "load" /\ baseline = None /\ result = <<>> /\ tasks = {}

OrdersOf(k) == {o \in Orders : order[o] # None /\ order[o].session = k}

\* pageviews JOIN sessions LEFT JOIN orders: a row per view, copy of its session
\* and order of it, if there is any.
Joined ==
    UNION {{[view |-> v, copy |-> c, order |-> o] :
               c \in 1 .. copies[view[v].session],
               o \in IF OrdersOf(view[v].session) = {} THEN {None} ELSE OrdersOf(view[v].session)} : v \in Views}

SameRows == Cardinality(Joined) = Cardinality(Views)

-----------------------------------------------------------------------------
(* One group.                                                               *)

Session(row) == view[row.view].session
Clock(row) == view[row.view].time
Profit(row) == IF row.order = None THEN 0 ELSE order[row.order].profit

MetricsSummed(rows) ==       \* Mutant: the profit is summed over the page views, which all show the order's.
    [pageviews |-> Cardinality(rows),
     duration  |-> Max({Clock(r) : r \in rows}) - Min({Clock(r) : r \in rows}),
     converted |-> \E r \in rows : r.order # None,
     profit    |-> Cardinality(rows) * Max({Profit(r) : r \in rows})]

\* COUNT, MAX - MIN, MAX of the flag and MAX of the order's profit, NULL being 0;
\* the revenue goes with the profit.
Metrics(rows) ==
    [pageviews |-> Cardinality(rows),
     duration  |-> Max({Clock(r) : r \in rows}) - Min({Clock(r) : r \in rows}),
     converted |-> \E r \in rows : r.order # None,
     profit    |-> Max({Profit(r) : r \in rows})]

\* groupBy
GroupBy(rows) == [k \in {Session(r) : r \in rows} |-> Metrics({r \in rows : Session(r) = k})]

-----------------------------------------------------------------------------
(* The scripts.                                                             *)

Unique == \A k \in SessionKeys : copies[k] <= 1 /\ Cardinality(OrdersOf(k)) <= 1

\* build_working_dataset: the merges are many to one and keep the views.
Load ==
    /\ stage = "load"
    /\ stage' = IF Unique /\ SameRows THEN "baseline" ELSE "failed"
    /\ UNCHANGED <<files, hash, baseline, result, tasks>>

Baseline ==
    /\ stage = "baseline" /\ stage' = "join"
    /\ baseline' = GroupBy(Joined)
    /\ UNCHANGED <<files, hash, result, tasks>>

\* partition_analysis.py has no baseline: it begins with the Spark join.
AnalysisOnly ==
    /\ stage = "load" /\ stage' = "sizes"
    /\ UNCHANGED <<files, hash, baseline, result, tasks>>

\* build_joined counts the rows before and after.
SparkJoin ==
    /\ stage \in {"join", "sizes"}
    /\ stage' = IF ~SameRows THEN "failed" ELSE IF stage = "join" THEN "compute" ELSE "done"
    /\ tasks' = IF SameRows /\ stage = "join" THEN Partitions ELSE {}
    /\ UNCHANGED <<files, hash, baseline, result>>

\* Where the row is when its group is computed: repartition sends it there by the
\* key, and groupBy would move rows that are not clustered by the key.
Destination(row) == hash[Session(row)]

InPartition(p) == {r \in Joined : Destination(r) = p}

\* A task computes the groups of its partition.
Task(p) ==
    /\ p \in tasks
    /\ LET groups == GroupBy(InPartition(p))
       IN  result' = [k \in DOMAIN result \cup DOMAIN groups |-> IF k \in DOMAIN groups THEN groups[k] ELSE result[k]]
    /\ tasks' = tasks \ {p}
    /\ UNCHANGED <<files, hash, stage, baseline>>

\* validate: as many groups, and no difference in those that both have.
Validate ==
    /\ stage = "compute" /\ tasks = {}
    /\ stage' = IF /\ Cardinality(DOMAIN result) = Cardinality(DOMAIN baseline)
                   /\ \A k \in DOMAIN result \cap DOMAIN baseline : result[k] = baseline[k]
                  THEN "written" ELSE "failed"
    /\ UNCHANGED <<files, hash, baseline, result, tasks>>

\* The benchmark computes each setting again, and reports it correct unseen.
Benchmark ==
    /\ stage = "compute" /\ tasks = {} /\ result # <<>>
    /\ tasks' = Partitions /\ result' = <<>>
    /\ hash' \in [SessionKeys -> Partitions]
    /\ UNCHANGED <<files, stage, baseline>>

Next == Load \/ Baseline \/ AnalysisOnly \/ SparkJoin \/ (\E p \in Partitions : Task(p)) \/ Validate \/ Benchmark

Spec == Init /\ [][Next]_vars

-----------------------------------------------------------------------------
(* Properties.                                                              *)

\* What the metrics of a session are, by the files.
Meaning(k) ==
    LET mine == {v \in Views : view[v].session = k}
        its  == {order[o] : o \in OrdersOf(k)}
    IN  [pageviews |-> Cardinality(mine),
         duration  |-> Max({view[v].time : v \in mine}) - Min({view[v].time : v \in mine}),
         converted |-> its # {},
         profit    |-> IF its = {} THEN 0 ELSE (CHOOSE o \in its : TRUE).profit]

Reference == [k \in {view[v].session : v \in Views} |-> Meaning(k)]

\* Whatever the files and the partitioning, what is computed is what the metrics
\* mean, in pandas and, once its tasks are through, in Spark; so the benchmark is
\* right to call every setting correct, and the validation refuses none.
ParallelIsSequential ==
    /\ baseline # None => baseline = Reference
    /\ stage \in {"compute", "written"} /\ tasks = {} => result = Reference
    /\ stage = "failed" => ~(Unique /\ SameRows)

=============================================================================
