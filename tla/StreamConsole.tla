----------------------------- MODULE StreamConsole ----------------------------
(***************************************************************************)
(* The desktop window of session 2.  A stage is a thread that prepares the *)
(* tables, runs a script and calls back; "Run everything" is a chain of    *)
(* such threads, each started 250 ms after the callback of the one before. *)
(* Between the two the window is not "running": a click then starts a      *)
(* second script beside the chain, and the first of the two to end frees   *)
(* the window for a third.                                                 *)
(***************************************************************************)
EXTENDS Naturals, Sequences, Functions

CONSTANTS
    Stages,        \* the stages, in the order of "Run everything"
    SelfTest, Produce, \* two of them
    Clicks,        \* bound: runs of a stage or of everything at one time
    None

Stage == Range(Stages)

Run == [at : DOMAIN Stages, all : BOOLEAN,
        step : {"setup", "script", "post", "done", "next"}, code : {0, 1}]

\* There is something to run, and the self-test comes before Produce.
StagesAssumption ==
    /\ Stages \in Seq(Stage) \ {<<>>} /\ SelfTest \in Stage
    /\ \A k \in DOMAIN Stages : Stages[k] = Produce => \E j \in 1 .. k - 1 : Stages[j] = SelfTest
NoneAssumption == None \notin {0, 1} /\ None \notin Run

VARIABLES
    connected,     \* pg_connected
    running,       \* the flag the buttons look at
    live,          \* live_status_var and running_stage
    row,           \* [stage -> its status in pipeline_tree]
    state,         \* stage_state
    chain,         \* [Clicks -> a run: its thread or the callback it waits for]
    exited,        \* [stage -> the exit code its thread ended with last], for the properties
    overlapped     \* a click came while a run was under way, for the properties

vars == <<connected, running, live, row, state, chain, exited, overlapped>>

Init ==
    /\ connected = FALSE /\ running = FALSE
    /\ live = [text |-> "idle", stage |-> None]
    /\ row = [s \in Stage |-> "not run"] /\ state = row
    /\ chain = [n \in Clicks |-> None]
    /\ exited = [s \in Stage |-> None] /\ overlapped = FALSE

-----------------------------------------------------------------------------
(* Clicks.                                                                  *)

\* The button, or a click on "Run everything" whose preflight fails.
TestConnection(ok) ==
    /\ connected' = ok
    /\ UNCHANGED <<running, live, row, state, chain, exited, overlapped>>

\* What a thread's start shows, and the run as the thread has it.
Begin(n, k, all) ==
    /\ running' = TRUE
    /\ row' = [row EXCEPT ![Stages[k]] = "running"]
    /\ live' = [text |-> "running", stage |-> Stages[k]]
    /\ chain' = [chain EXCEPT ![n] = [at |-> k, all |-> all, step |-> "setup", code |-> 1]]

\* run_stage of one stage, and run_all: connected already, or after a test.
Click(n, k, all) ==
    /\ ~running /\ chain[n] = None
    /\ Begin(n, k, all)
    /\ connected' = TRUE
    /\ overlapped' = (overlapped \/ \E m \in Clicks : chain[m] # None)
    /\ UNCHANGED <<state, exited>>

\* What refresh_from_results shows of the stages that have left results.
Loaded(r, have) == [s \in Stage |-> IF s \in have THEN "loaded" ELSE r[s]]

\* The button asks neither for a connection nor whether anything runs.
Refresh(have) ==
    /\ row' = Loaded(row, have)
    /\ UNCHANGED <<connected, running, live, state, chain, exited, overlapped>>

-----------------------------------------------------------------------------
(* The thread.                                                              *)

To(n, step, code) ==
    /\ chain' = [chain EXCEPT ![n].step = step, ![n].code = code]
    /\ exited' = IF step = "done" THEN [exited EXCEPT ![Stages[chain[n].at]] = code] ELSE exited
    /\ UNCHANGED <<connected, running, live, row, state, overlapped>>

At(n, step) == chain[n] # None /\ chain[n].step = step

\* setup_streaming.py; its failure ends the thread with code 1.
EnsureStreamingTables(n, ok) == At(n, "setup") /\ To(n, IF ok THEN "script" ELSE "done", 1)

\* The script ends; in a chain, Produce is followed by the self-test.
ScriptEnds(n, code) ==
    /\ At(n, "script")
    /\ To(n, IF code = 0 /\ chain[n].all /\ Stages[chain[n].at] = Produce THEN "post" ELSE "done", code)

PostValidation(n, code) == At(n, "post") /\ To(n, "done", code)

-----------------------------------------------------------------------------
(* Callbacks.                                                               *)

Verdict(code) == IF code = 0 THEN "passed" ELSE "failed"

\* _stop_live_status
Stopped(code) ==
    IF live.stage = None THEN live
    ELSE [text |-> IF code = 0 THEN "completed" ELSE "failed", stage |-> None]

DoneWithoutState(n, confirmed) ==     \* Mutant: the callback updates the table only.
    LET c == chain[n]
        s == Stages[c.at]
    IN  /\ At(n, "done") /\ (confirmed => c.all /\ c.code = 0 /\ s = Produce)
        /\ running' = FALSE
        /\ row' = [row EXCEPT ![s] = Verdict(c.code)]
        /\ live' = Stopped(c.code)
        /\ chain' = [chain EXCEPT ![n] = IF c.all /\ c.code = 0 THEN [c EXCEPT !.step = "next"] ELSE None]
        /\ UNCHANGED <<connected, state, exited, overlapped>>

DoneOfLiveStage(n, confirmed) ==      \* Mutant: only the stage the live status names is told.
    LET c == chain[n]
        s == Stages[c.at]
    IN  /\ At(n, "done") /\ (confirmed => c.all /\ c.code = 0 /\ s = Produce)
        /\ running' = FALSE
        /\ row' = IF s = live.stage THEN [row EXCEPT ![s] = Verdict(c.code)] ELSE row
        /\ state' = [state EXCEPT ![s] = Verdict(c.code)]
        /\ live' = Stopped(c.code)
        /\ chain' = [chain EXCEPT ![n] = IF c.all /\ c.code = 0 THEN [c EXCEPT !.step = "next"] ELSE None]
        /\ UNCHANGED <<connected, exited, overlapped>>

\* _stage_finished, and done of a chain: the window is free, and the next stage
\* is due in 250 ms.  After Produce the self-test's report may be there
\* ("confirmed"); the chain's failure is written whatever the live status was.
Done(n, confirmed) ==
    LET c == chain[n]
        s == Stages[c.at]
        Passed(f) == [q \in Stage |-> IF q = s \/ (confirmed /\ q = SelfTest) THEN Verdict(c.code) ELSE f[q]]
    IN  /\ At(n, "done") /\ (confirmed => c.all /\ c.code = 0 /\ s = Produce)
        /\ running' = FALSE
        /\ row' = Passed(row) /\ state' = Passed(state)
        /\ live' = IF c.all /\ c.code # 0 THEN [text |-> "failed", stage |-> None] ELSE Stopped(c.code)
        /\ chain' = [chain EXCEPT ![n] = IF c.all /\ c.code = 0 THEN [c EXCEPT !.step = "next"] ELSE None]
        /\ UNCHANGED <<connected, exited, overlapped>>

\* next_stage, 250 ms later: it does not look at "running".
NextStage(n) ==
    /\ At(n, "next") /\ chain[n].at < Len(Stages)
    /\ Begin(n, chain[n].at + 1, TRUE)
    /\ UNCHANGED <<connected, state, exited, overlapped>>

\* next_stage after the last one: all that have results are loaded.
Completed(n, have) ==
    /\ At(n, "next") /\ chain[n].at = Len(Stages)
    /\ running' = FALSE
    /\ live' = [text |-> "all passed", stage |-> None]
    /\ row' = Loaded(row, have)
    /\ chain' = [chain EXCEPT ![n] = None]
    /\ UNCHANGED <<connected, state, exited, overlapped>>

Next ==
    \/ \E ok \in BOOLEAN : TestConnection(ok)
    \/ \E have \in SUBSET Stage : Refresh(have)
    \/ \E n \in Clicks :
          \/ \E k \in 1..Len(Stages) : Click(n, k, FALSE)
          \/ Click(n, 1, TRUE)
          \/ \E ok \in BOOLEAN : EnsureStreamingTables(n, ok)
          \/ \E code \in {0, 1} : ScriptEnds(n, code) \/ PostValidation(n, code)
          \/ \E confirmed \in BOOLEAN : Done(n, confirmed)
          \/ NextStage(n)
          \/ \E have \in SUBSET Stage : Completed(n, have)

Spec == Init /\ [][Next]_vars

-----------------------------------------------------------------------------
(* Properties.                                                              *)

Idle == \A n \in Clicks : chain[n] = None

\* However runs overlap, when the last of them has ended the buttons work again, no
\* row says that its stage runs, and the live status has stopped: every run, whether
\* another one has written over its row and freed the window or not, cleans up.
NeverStuck ==
    Idle => ~running /\ live.stage = None /\ \A s \in Stage : row[s] # "running"

\* As long as nobody clicked between two stages of a chain: at most one thread is
\* at work, under the flag "running"; stage_state tells how each stage ended
\* last, as soon as its callback has run, and "all Session 2 stages passed" is only shown when they did.
TrueUnlessOverlapped ==
    ~overlapped =>
        /\ \A m, n \in Clicks : chain[m] # None /\ chain[n] # None => m = n
        /\ \A n \in Clicks : chain[n] # None /\ chain[n].step # "next" => running
        /\ \A s \in Stage :
              \/ \E n \in Clicks : At(n, "done") /\ Stages[chain[n].at] = s
              \/ state[s] = IF exited[s] = None THEN "not run" ELSE Verdict(exited[s])
        /\ live.text = "all passed" => \A s \in Stage : state[s] = "passed"

=============================================================================
