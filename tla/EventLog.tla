------------------------------- MODULE EventLog -------------------------------
(***************************************************************************)
(* The durable log of session2_event_streaming, a table, and the scripts   *)
(* that fill it and read it: the producer, with and without --reset, the   *)
(* consumer groups, the failure demonstration and the reconciliation.      *)
(*                                                                         *)
(* A step is a statement, or a transaction's last statement together with  *)
(* its commit when nothing in between can be observed.  Each script is a   *)
(* process and can die between any two steps; the open transaction is then *)
(* rolled back.  Several scripts may run side by side, each kind once.     *)
(***************************************************************************)
EXTENDS Naturals, Sequences, FiniteSets

CONSTANTS
    Source,         \* the events of the database in the order of event_time, event_id
    Pageviews, Converted, Refunds,
    Partitions,
    PartitionOf(_), \* MOD(website_session_id, NUM_PARTITIONS)
    CommitEvery,    \* COMMIT_EVERY, 50000 in the code
    MaxProductions, \* bound: runs of the producer
    MaxStarts       \* bound: runs of the consumers and of the failure demonstration

Events == {Source[i] : i \in DOMAIN Source}

ASSUME SourceAssumption ==
    /\ Source \in Seq(Events) /\ Source # <<>>
    /\ \A i, j \in DOMAIN Source : Source[i] = Source[j] => i = j
    /\ Pageviews \cup Refunds = Events /\ Pageviews \cap Refunds = {}
    /\ Converted \subseteq Pageviews
    /\ \A e \in Events : PartitionOf(e) \in Partitions
ASSUME BoundsAssumption ==
    {MaxProductions, MaxStarts} \subseteq Nat /\ CommitEvery \in Nat \ {0}

VARIABLES
    log,          \* [retained events -> log_offset]
    sequence,     \* the last value the BIGSERIAL gave out
    offset,       \* [groups with a row -> last_offset]
    partitions,   \* [groups with rows -> [Partitions -> last_offset]]
    sink,         \* [CoreGroups -> the events its sink stands for]
    csv,          \* the pageviews stream_session_metrics.csv stands for
    audit,        \* the events of retailmetrics_failure_audit
    reports,      \* failure_recovery.json files written
    producer, consumer, recovery,
    productions, starts

tables == <<log, sequence, offset, partitions, sink, audit>>
vars == <<tables, csv, reports, producer, consumer, recovery, productions, starts>>

\* consumers.main runs them in this order.
Order == <<"projector", "audit", "refunds">>
CoreGroups == {Order[i] : i \in DOMAIN Order}
Flaky == "flaky"

Handles(g) ==
    CASE g = "projector" -> Pageviews
      [] g = "audit"     -> Converted
      [] g = "refunds"   -> Refunds
      [] g = Flaky       -> Events

NoProducer == [step |-> "idle", doomed |-> {}]
NoConsumer == [step |-> "idle", group |-> 1, end |-> 0, seen |-> {}]
NoRecovery == [step |-> "idle", total |-> 0, handled |-> 0, committed |-> 0,
               handledAt |-> 0, committedAt |-> 0, seen |-> {}, skipped |-> 0]

Init ==
    /\ log = <<>> /\ sequence = 0 /\ offset = <<>> /\ partitions = <<>>
    /\ sink = [g \in CoreGroups |-> {}] /\ csv = {} /\ audit = {} /\ reports = 0
    /\ producer = NoProducer /\ consumer = NoConsumer /\ recovery = NoRecovery
    /\ productions = 0 /\ starts = 0

Retained == DOMAIN log

\* COALESCE(MAX(log_offset), 0) over some retained events.
Last(es) ==
    IF es = {} THEN 0 ELSE log[CHOOSE e \in es : \A d \in es : log[d] <= log[e]]

End == Last(Retained)

\* The offset of the nth retained event, 0 when there are fewer.
NthOffset(n) ==
    LET nth == {e \in Retained : Cardinality({d \in Retained : log[d] <= log[e]}) = n}
    IN  Last(nth)

\* INSERT ... ON CONFLICT DO UPDATE of one row.
With(f, g, x) == [h \in {g} \cup DOMAIN f |-> IF h = g THEN x ELSE f[h]]

\* A row the producer is deleting is locked until its transaction ends.
Writable(g) == g \notin producer.doomed

-----------------------------------------------------------------------------
(* produce_events.py                                                        *)

\* --reset: the offsets are deleted first, then the log, in one transaction.
BeginReset ==
    /\ producer = NoProducer /\ productions < MaxProductions
    /\ producer' = [step |-> "clear", doomed |-> DOMAIN offset]
    /\ productions' = productions + 1
    /\ UNCHANGED <<tables, csv, reports, consumer, recovery, starts>>

Without(f, gone) == [g \in DOMAIN f \ gone |-> f[g]]

Clear ==
    /\ producer.step = "clear"
    /\ offset' = Without(offset, producer.doomed)
    /\ partitions' = Without(partitions, producer.doomed)
    /\ log' = <<>>
    /\ producer' = [step |-> "produce", doomed |-> {}]
    /\ UNCHANGED <<sequence, sink, audit, csv, reports, consumer, recovery, productions, starts>>

BeginProduce ==
    /\ producer = NoProducer /\ productions < MaxProductions
    /\ producer' = [NoProducer EXCEPT !.step = "produce"]
    /\ productions' = productions + 1
    /\ UNCHANGED <<tables, csv, reports, consumer, recovery, starts>>

Index(e) == CHOOSE i \in DOMAIN Source : Source[i] = e

\* Mutant: the numbers start again with an empty log.
ProduceFromOne ==
    /\ producer.step = "produce"
    /\ log' = [e \in Events |-> IF e \in Retained THEN log[e] ELSE Index(e)]
    /\ sequence' = Len(Source)
    /\ producer' = NoProducer
    /\ UNCHANGED <<offset, partitions, sink, audit, csv, reports, consumer, recovery, productions, starts>>

\* An event that is there already keeps its offset, and uses up a number.
Produce ==
    /\ producer.step = "produce"
    /\ log' = [e \in Events |-> IF e \in Retained THEN log[e] ELSE sequence + Index(e)]
    /\ sequence' = sequence + Len(Source)
    /\ producer' = NoProducer
    /\ UNCHANGED <<offset, partitions, sink, audit, csv, reports, consumer, recovery, productions, starts>>

-----------------------------------------------------------------------------
(* consumers.py: the end of the log is read once, then group after group is *)
(* reset, read, written and committed, in a transaction each but for the    *)
(* read and the write.                                                      *)

Group == Order[consumer.group]

BeginConsumers ==
    /\ consumer = NoConsumer /\ starts < MaxStarts
    /\ End > 0
    /\ consumer' = [NoConsumer EXCEPT !.step = "reset", !.end = End]
    /\ starts' = starts + 1
    /\ UNCHANGED <<tables, csv, reports, producer, recovery, productions>>

Nowhere == [p \in Partitions |-> 0]

ResetConsumer ==
    /\ consumer.step = "reset" /\ Writable(Group)
    /\ offset' = With(offset, Group, 0)
    /\ partitions' = With(partitions, Group, Nowhere)
    /\ consumer' = [consumer EXCEPT !.step = "read"]
    /\ UNCHANGED <<log, sequence, sink, audit, csv, reports, producer, recovery, productions, starts>>

\* The projector writes its file before its table.
ReadLog ==
    /\ consumer.step = "read"
    /\ consumer' = [consumer EXCEPT !.step = "write", !.seen = Handles(Group) \cap Retained]
    /\ csv' = IF Group = "projector" THEN Pageviews \cap Retained ELSE csv
    /\ UNCHANGED <<tables, reports, producer, recovery, productions, starts>>

WriteSink ==
    /\ consumer.step = "write"
    /\ sink' = [sink EXCEPT ![Group] = consumer.seen]
    /\ consumer' = [consumer EXCEPT !.step = "commit", !.seen = {}]
    /\ UNCHANGED <<log, sequence, offset, partitions, audit, csv, reports, producer, recovery, productions, starts>>

NextGroup ==
    IF consumer.group = Len(Order) THEN NoConsumer
    ELSE [consumer EXCEPT !.step = "reset", !.group = @ + 1, !.seen = {}]

PartitionsAtEnd(g) ==
    LET known == IF g \in DOMAIN partitions THEN partitions[g] ELSE Nowhere
    IN  [p \in Partitions |->
           LET es == {e \in Retained : PartitionOf(e) = p}
           IN  IF es = {} THEN known[p] ELSE Last(es)]

\* Mutant: the end of the log is looked up again.
CommitGroupAtEnd ==
    /\ consumer.step = "commit" /\ Writable(Group)
    /\ offset' = With(offset, Group, End)
    /\ partitions' = With(partitions, Group, PartitionsAtEnd(Group))
    /\ consumer' = NextGroup
    /\ UNCHANGED <<log, sequence, sink, audit, csv, reports, producer, recovery, productions, starts>>

\* Mutant: the partitions are left for later.
CommitGroupOnly ==
    /\ consumer.step = "commit" /\ Writable(Group)
    /\ offset' = With(offset, Group, consumer.end)
    /\ partitions' = partitions
    /\ consumer' = NextGroup
    /\ UNCHANGED <<log, sequence, sink, audit, csv, reports, producer, recovery, productions, starts>>

\* Mutant: the next offset to read is stored.
CommitGroupNext ==
    /\ consumer.step = "commit" /\ Writable(Group)
    /\ offset' = With(offset, Group, consumer.end + 1)
    /\ partitions' = With(partitions, Group, PartitionsAtEnd(Group))
    /\ consumer' = NextGroup
    /\ UNCHANGED <<log, sequence, sink, audit, csv, reports, producer, recovery, productions, starts>>

\* The partitions' ends are those of the log by now.
CommitGroup ==
    /\ consumer.step = "commit" /\ Writable(Group)
    /\ offset' = With(offset, Group, consumer.end)
    /\ partitions' = With(partitions, Group, PartitionsAtEnd(Group))
    /\ consumer' = NextGroup
    /\ UNCHANGED <<log, sequence, sink, audit, csv, reports, producer, recovery, productions, starts>>

-----------------------------------------------------------------------------
(* failure_recovery.py: two transactions with a simulated crash between.    *)

\* The last batch boundary before the crash.
Committed(handled) ==
    LET c == (handled \div CommitEvery) * CommitEvery
    IN  IF c = handled THEN c - CommitEvery ELSE c

\* --fail-after, kept between 1 and the number of events.
BeginRecovery ==
    /\ recovery = NoRecovery /\ starts < MaxStarts
    /\ \E handled \in 1..Cardinality(Retained) :
         recovery' = [NoRecovery EXCEPT !.step = "handled", !.total = Cardinality(Retained),
                                        !.handled = handled, !.committed = Committed(handled)]
    /\ starts' = starts + 1
    /\ UNCHANGED <<tables, csv, reports, producer, consumer, productions>>

ReadHandled ==
    /\ recovery.step = "handled"
    /\ recovery' = [recovery EXCEPT !.step = "committed", !.handledAt = NthOffset(recovery.handled)]
    /\ UNCHANGED <<tables, csv, reports, producer, consumer, productions, starts>>

ReadCommitted ==
    /\ recovery.step = "committed"
    /\ recovery' = [recovery EXCEPT !.step = "before", !.committedAt = NthOffset(recovery.committed)]
    /\ UNCHANGED <<tables, csv, reports, producer, consumer, productions, starts>>

\* The sink is truncated and filled up to where the crash comes.
BeforeCrash ==
    /\ recovery.step = "before"
    /\ audit' = {e \in Retained : log[e] <= recovery.handledAt}
    /\ recovery' = [recovery EXCEPT !.step = "again"]
    /\ UNCHANGED <<log, sequence, offset, partitions, sink, csv, reports, producer, consumer, productions, starts>>

\* All that follows the committed offset is delivered again; what is there is skipped.
Redeliver ==
    LET candidates == {e \in Retained : log[e] > recovery.committedAt} IN
    /\ recovery.step = "again"
    /\ recovery' = [recovery EXCEPT !.step = "finish", !.seen = audit \cup candidates,
                                    !.skipped = Cardinality(audit \cap candidates)]
    /\ UNCHANGED <<tables, csv, reports, producer, consumer, productions, starts>>

FinishRecovery ==
    /\ recovery.step = "finish" /\ Writable(Flaky)
    /\ audit' = recovery.seen
    /\ offset' = With(offset, Flaky, NthOffset(recovery.total))
    /\ recovery' = [recovery EXCEPT !.step = "verify"]
    /\ UNCHANGED <<log, sequence, partitions, sink, csv, reports, producer, consumer, productions, starts>>

\* Mutant: the assertions are compiled away (python -O).
PassesAlways == TRUE

\* The two assertions that follow the commit.
Passes ==
    /\ recovery.skipped = recovery.handled - recovery.committed
    /\ Cardinality(recovery.seen) = recovery.total

Verify ==
    /\ recovery.step = "verify"
    /\ reports' = IF Passes THEN reports + 1 ELSE reports
    /\ recovery' = NoRecovery
    /\ UNCHANGED <<tables, csv, producer, consumer, productions, starts>>

-----------------------------------------------------------------------------
\* A script is killed or fails.
Die ==
    /\ \/ producer # NoProducer /\ producer' = NoProducer /\ UNCHANGED <<consumer, recovery>>
       \/ consumer # NoConsumer /\ consumer' = NoConsumer /\ UNCHANGED <<producer, recovery>>
       \/ recovery # NoRecovery /\ recovery' = NoRecovery /\ UNCHANGED <<producer, consumer>>
    /\ UNCHANGED <<tables, csv, reports, productions, starts>>

Next ==
    \/ BeginReset \/ Clear \/ BeginProduce \/ Produce
    \/ BeginConsumers \/ ResetConsumer \/ ReadLog \/ WriteSink \/ CommitGroup
    \/ BeginRecovery \/ ReadHandled \/ ReadCommitted \/ BeforeCrash \/ Redeliver
    \/ FinishRecovery \/ Verify
    \/ Die

Spec == Init /\ [][Next]_vars

-----------------------------------------------------------------------------
(* Properties.                                                              *)

\* The tables' domains: offsets were given out once each, and no group is ahead of
\* the sequence.
TypeOK ==
    /\ Retained \subseteq Events /\ sequence \in Nat
    /\ \A e \in Retained : log[e] \in 1..sequence
    /\ \A d, e \in Retained : log[d] = log[e] => d = e
    /\ DOMAIN offset \subseteq CoreGroups \cup {Flaky}
    /\ \A g \in DOMAIN offset : offset[g] \in 0..sequence
    /\ \A g \in DOMAIN partitions : partitions[g] \in [Partitions -> 0..sequence]
    /\ \A g \in CoreGroups : sink[g] \subseteq Handles(g)
    /\ audit \subseteq Events /\ csv \subseteq Pageviews

Behind(g) == {e \in Retained \cap Handles(g) : log[e] <= offset[g]}

\* A core group's offset covers only events its sink has, although the two are
\* committed apart, a script can die in between, and the log may be cleared and
\* filled again while the group is at work.
OffsetsHonest == \A g \in CoreGroups \cap DOMAIN offset : Behind(g) \subseteq sink[g]

\* reconcile.py passes: the file has every session and no core group lags.
Reconciled ==
    /\ csv = Pageviews
    /\ \A g \in CoreGroups : g \in DOMAIN offset /\ End <= offset[g]

\* When the reconciliation passes over a log that is not empty, every core sink is complete,
\* those it does not look at too.
ReconciledSinks ==
    Reconciled /\ Retained # {} => \A g \in CoreGroups : sink[g] = Handles(g)

\* The two lags of a group agree: a group that has read all of the log has read
\* all of each partition.
LagsAgree ==
    \A g \in CoreGroups \cap DOMAIN offset :
        (Retained # {} /\ End <= offset[g]) =>
            /\ g \in DOMAIN partitions
            /\ \A e \in Retained : log[e] <= partitions[g][PartitionOf(e)]

\* The failure demonstration reports that no event was lost only if none was, even
\* when the log is cleared and filled again between its statements.
ReportedLossless == [][reports' > reports => audit' = Events]_vars

\* failure_recovery.py: what was written before the crash is received again, since
\* only the committed offset is known; the offset covers only events in the sink.
FlakyOffsetHonest == Flaky \in DOMAIN offset => Behind(Flaky) \subseteq audit

=============================================================================
