----------------------------- MODULE BatchConsole -----------------------------
(***************************************************************************)
(* The desktop window of session 1: the pipeline's stages, run one by one  *)
(* or all of them by a thread that reports through a queue the window      *)
(* drains, and the migration tab, whose threads report through callbacks   *)
(* of the window's event loop.                                             *)
(*                                                                         *)
(* Nothing keeps the migration tab from running two commands at once; only *)
(* the database's table locks stand between an import and a count.         *)
(***************************************************************************)
EXTENDS Naturals, Sequences, Functions

CONSTANTS
    Stages,        \* the pipeline's stages, in order
    Tables,        \* the tables the import fills, parents first
    RefersTo(_),   \* [table -> those its rows refer to]
    Counts,        \* the same tables as they are counted: products come last
    Slots,         \* bound: threads of the migration tab at one time
    None

Command == [what : {"migrate", "verify", "refresh", "test"}, next : Nat, found : [Range(Tables) -> BOOLEAN],
            ended : {None, "ok", "failed"}, whole : BOOLEAN]

\* There is something to run and to count; None is neither a result nor a thread.
StagesAssumption == Stages \in Seq(Range(Stages)) \ {<<>>}
CountsAssumption == Counts \in Seq(Range(Tables)) \ {<<>>} /\ Range(Counts) = Range(Tables)
NoneAssumption ==
    None \notin {0, 1, "ok", "failed"} /\ None \notin Command /\ None \notin [todo : Seq(Range(Stages)), all : BOOLEAN]

VARIABLES
    window,        \* running, running_stage, and the rows of pipeline_tree
    messages,      \* the queue q; lines of output are left out
    thread,        \* the pipeline's thread: the stages it has yet to run
    exited,        \* [stage -> the exit code its script ended with last], for the properties
    tab,           \* pg_overall, the rows of pg_verify_tree, and, for the
                   \* properties, whether the database was whole when they were counted
    stored,        \* [table -> the database has its expected rows]
    job,           \* [Slots -> a thread of the migration tab]
    due            \* slots with a callback in the event loop, in its order

pipelineVars == <<window, messages, thread, exited>>
migrationVars == <<tab, stored, job, due>>

Stage == Range(Stages)
Table == Range(Tables)

Init ==
    /\ window = [running |-> FALSE, stage |-> None, row |-> [s \in Stage |-> "not run"]]
    /\ messages = <<>> /\ thread = None /\ exited = [s \in Stage |-> None]
    /\ tab = [overall |-> "none", row |-> [t \in Table |-> "none"], whole |-> FALSE]
    /\ stored \in [Table -> BOOLEAN]
    /\ job = [n \in Slots |-> None] /\ due = <<>>

-----------------------------------------------------------------------------
(* The pipeline.                                                            *)

\* run_stage: the row shows at once that the stage runs.
RunStage(s) ==
    /\ ~window.running
    /\ window' = [window EXCEPT !.running = TRUE, !.stage = s, !.row[s] = "running"]
    /\ thread' = [todo |-> <<s>>, all |-> FALSE]
    /\ UNCHANGED <<messages, exited>>

\* run_all: the thread tells the window when a stage begins.
RunAll ==
    /\ ~window.running
    /\ window' = [window EXCEPT !.running = TRUE, !.stage = "everything"]
    /\ messages' = Append(messages, [kind |-> "stage_running", key |-> Head(Stages), code |-> 0])
    /\ thread' = [todo |-> Stages, all |-> TRUE]
    /\ UNCHANGED exited

\* The script of the stage ends, or could not be started.
ScriptEnds(code) ==
    LET s == Head(thread.todo) IN
    /\ thread # None /\ thread.todo # <<>>
    /\ exited' = [exited EXCEPT ![s] = code]
    /\ IF thread.all
         THEN LET result == [kind |-> "all_result", key |-> s, code |-> code]
                  rest   == IF code = 0 THEN Tail(thread.todo) ELSE <<>>
              IN  /\ thread' = IF rest = <<>> THEN None ELSE [thread EXCEPT !.todo = rest]
                  /\ messages' = messages \o <<result,
                       IF rest = <<>> THEN [kind |-> "all_done", key |-> s, code |-> code]
                       ELSE [kind |-> "stage_running", key |-> Head(rest), code |-> 0]>>
         ELSE /\ thread' = None
              /\ messages' = Append(messages, [kind |-> "done", key |-> s, code |-> code])
    /\ UNCHANGED window

RowAfter(code) == IF code = 0 THEN "passed" ELSE "failed"

HandleStoppingEarly(w, m) ==          \* Mutant: the first result of all frees the window.
    CASE m.kind = "stage_running" -> [w EXCEPT !.row[m.key] = "running"]
      [] m.kind = "all_done" -> [w EXCEPT !.running = FALSE, !.stage = None]
      [] OTHER -> [w EXCEPT !.running = FALSE, !.stage = None, !.row[m.key] = RowAfter(m.code)]

\* One message of the queue.
Handle(w, m) ==
    CASE m.kind = "stage_running" -> [w EXCEPT !.row[m.key] = "running"]
      [] m.kind = "all_result" -> [w EXCEPT !.row[m.key] = RowAfter(m.code)]
      [] m.kind = "done" -> [w EXCEPT !.running = FALSE, !.stage = None, !.row[m.key] = RowAfter(m.code)]
      [] m.kind = "all_done" -> [w EXCEPT !.running = FALSE, !.stage = None]

\* _drain, every 120 ms, takes message after message until there is none, while the
\* thread goes on.  One message is a step: no click is possible in between, because
\* the window is busy as long as a message is left.
Drain ==
    /\ messages # <<>>
    /\ window' = Handle(window, Head(messages))
    /\ messages' = Tail(messages)
    /\ UNCHANGED <<thread, exited>>

Pipeline ==
    /\ \/ (\E s \in Stage : RunStage(s)) \/ RunAll
       \/ (\E code \in {0, 1} : ScriptEnds(code)) \/ Drain
    /\ UNCHANGED migrationVars

-----------------------------------------------------------------------------
(* The migration tab.                                                       *)

Job(what) == [what |-> what, next |-> 1, found |-> [t \in Table |-> FALSE], ended |-> None, whole |-> FALSE]

\* "Migrate", "Verify" and "Refresh"; a verification says so at once.
Start(n, what) ==
    /\ job[n] = None
    /\ job' = [job EXCEPT ![n] = Job(what)]
    /\ tab' = IF what = "verify" THEN [tab EXCEPT !.overall = "VERIFYING"] ELSE tab
    /\ UNCHANGED <<stored, due>>

Ended(n, j, ended) == job' = [job EXCEPT ![n] = [j EXCEPT !.ended = ended]] /\ due' = Append(due, n)

Working(n) == job[n] # None /\ job[n].ended = None

\* verify_migration.py and the refresh count all tables on one connection and
\* commit nothing: the locks of what they have read are theirs until they end.
Locking(n) == Working(n) /\ job[n].what \in {"verify", "refresh"} /\ job[n].next > 1

EmptyAll(n) == stored' = [t \in Table |-> FALSE] /\ job' = [job EXCEPT ![n].next = 2] /\ UNCHANGED due

\* A table is copied and committed; rows it has, or a parent that was emptied
\* again, make the COPY fail.
CopyTable(n) ==
    LET j == job[n]
        k == j.next - 1
    IN  IF stored[Tables[k]] \/ \E p \in RefersTo(Tables[k]) : ~stored[p]
          THEN Ended(n, j, "failed") /\ UNCHANGED stored
          ELSE /\ stored' = [stored EXCEPT ![Tables[k]] = TRUE]
               /\ IF k = Len(Tables) THEN Ended(n, j, "ok")
                  ELSE job' = [job EXCEPT ![n].next = k + 2] /\ UNCHANGED due

MigrateStepAtOnce(n) ==               \* Mutant: the tables are emptied by DELETE, which waits for no reader.
    /\ Working(n) /\ job[n].what = "migrate"
    /\ IF job[n].next = 1 THEN EmptyAll(n) ELSE CopyTable(n)
    /\ UNCHANGED tab

\* The first step, TRUNCATE, empties all of them, once nobody holds a lock on one.
MigrateStep(n) ==
    /\ Working(n) /\ job[n].what = "migrate"
    /\ IF job[n].next = 1 THEN (\A m \in Slots : ~Locking(m)) /\ EmptyAll(n)
       ELSE CopyTable(n)
    /\ UNCHANGED tab

\* One table is counted.
CountStep(n) ==
    LET j    == job[n]
        t    == Counts[j.next]
        read == [j EXCEPT !.found[t] = stored[t], !.next = @ + 1]
    IN  /\ Working(n) /\ j.what \in {"verify", "refresh"}
        /\ IF j.next = Len(Counts) THEN Ended(n, [read EXCEPT !.whole = \A q \in Table : stored[q]], "ok")
           ELSE job' = [job EXCEPT ![n] = read] /\ UNCHANGED due
        /\ UNCHANGED <<tab, stored>>

\* The connection fails.
Fail(n) == Working(n) /\ Ended(n, job[n], "failed") /\ UNCHANGED <<tab, stored>>

\* update_ui, and _pg_parse_verification_output: all rows, and OVERALL.
Shown(j) ==
    [overall |-> IF \A t \in Table : j.found[t] THEN "PASS" ELSE "CHECK",
     row     |-> [t \in Table |-> IF j.found[t] THEN "PASS" ELSE "CHECK"],
     whole   |-> j.whole]

\* The event loop runs the first callback; a migration that succeeded and a
\* connection test refresh the counts, in a thread of their own.
Callback ==
    LET n == Head(due)
        j == job[n]
    IN  /\ due # <<>> /\ due' = Tail(due)
        /\ tab' = CASE j.what \in {"verify", "refresh"} /\ j.ended = "ok" -> Shown(j)
                    [] j.what = "verify" /\ j.ended = "failed" -> [tab EXCEPT !.overall = "FAILED"]
                    [] OTHER -> tab
        /\ job' = [job EXCEPT ![n] = IF j.what \in {"migrate", "test"} /\ j.ended = "ok" THEN Job("refresh") ELSE None]
        /\ UNCHANGED stored

\* No thread for a verification: its callback never comes, and the tab says
\* VERIFYING for good.
Unstarted(n) == Working(n) /\ job[n] = Job("verify") /\ job' = [job EXCEPT ![n] = None] /\ UNCHANGED <<tab, stored, due>>

Tested(n) == Working(n) /\ job[n].what = "test" /\ Ended(n, job[n], "ok") /\ UNCHANGED <<tab, stored>>

Migration ==
    /\ \/ \E n \in Slots :
            \/ \E what \in {"migrate", "verify", "refresh", "test"} : Start(n, what)
            \/ MigrateStep(n) \/ CountStep(n) \/ Tested(n) \/ Fail(n) \/ Unstarted(n)
       \/ Callback
    /\ UNCHANGED pipelineVars

Next == Pipeline \/ Migration

Spec == Init /\ [][Next]_<<pipelineVars, migrationVars>>

-----------------------------------------------------------------------------
(* Properties.                                                              *)

\* Only one script of the pipeline runs: the window is busy from the click to the
\* last message.  When it is free no row says that its stage runs, and each row
\* tells how its script ended last.
IdleTellsTheTruth ==
    /\ thread # None \/ messages # <<>> => window.running
    /\ ~window.running => \A s \in Stage :
          window.row[s] = IF exited[s] = None THEN "not run" ELSE RowAfter(exited[s])

\* OVERALL says PASS only of a database in which all tables were complete together
\* when the count ended, though an import may have been started meanwhile and the
\* tables were looked at one after the other.
PassWasTrue == tab.overall = "PASS" => tab.whole

=============================================================================
