----------------------------- MODULE ServedReads -----------------------------
(***************************************************************************)
(* The services of session 3: calls over REST and gRPC, at the same time,    *)
(* read one immutable snapshot.  The servers have many threads; what they    *)
(* share and change are the call counts, which are under a lock.             *)
(*                                                                         *)
(* The entities differ in their columns only and are one list of rows here,  *)
(* each with a column that may be NULL.  A limit is at least 1.              *)
(***************************************************************************)
EXTENDS Integers, Sequences, FiniteSets, FiniteSetsExt

CONSTANTS Callers, Rows, Ids, Limits,  \* Rows: what the snapshot has, by id
          MaxPolls, MaxCalls,          \* bounds
          None

\* Every query has an ORDER BY on the id; REST validates limits and offsets.
RowType == [id : Int, flag : Int \cup {None}]
RowsAssumption ==
    /\ Rows \in Seq(RowType) /\ \A i, k \in DOMAIN Rows : i < k => Rows[i].id <= Rows[k].id
    /\ Ids \subseteq Nat /\ Limits \subseteq Nat \ {0} /\ MaxPolls \in Nat
NoneAssumption == None \notin Int \cup Callers /\ None \notin Seq(RowType)

VARIABLES
    calls,    \* [Methods -> count], as the service summary reports it
    lock,     \* the caller whose thread holds the lock of the counts
    call,     \* [Callers -> the call in progress, or the last one]
    counted,  \* history: [Methods -> how many were counted]
    begun     \* calls begun, for the bound

vars == <<calls, lock, call, counted, begun>>

Methods == {"one", "batch", "list", "metrics", "stream", "summary", "delay"}
Summary == [id |-> 0, flag |-> 0]

Request(method, transport, ids, limit, from) ==
    [method |-> method, transport |-> transport, ids |-> ids, limit |-> limit, from |-> from]

Requests ==
    UNION {
        {Request("one", t, <<i>>, 1, 0) : t \in {"rest", "grpc"}, i \in Ids},
        {Request("batch", t, <<i, j>>, 1, 0) : t \in {"rest", "grpc"}, i \in Ids, j \in Ids},
        {Request(m, t, <<>>, n, k) : m \in {"list", "metrics"}, t \in {"rest", "grpc"}, n \in Limits, k \in Ids},
        {Request("stream", "grpc", <<>>, n, k) : n \in Limits, k \in Ids},
        {Request(m, t, <<>>, 1, 0) : m \in {"summary", "delay"}, t \in {"rest", "grpc"}}}

Idle == [request |-> None, phase |-> "idle", counts |-> None, seen |-> 0, at |-> 0, active |-> TRUE, answer |-> <<>>]

Init ==
    /\ calls = [m \in Methods |-> 0] /\ counted = calls
    /\ lock = None /\ begun = 0
    /\ call = [c \in Callers |-> Idle]

-----------------------------------------------------------------------------
(* The messages.                                                            *)

\* A field of a protobuf message is set or not; JSON has null.
ToPb(row) ==
    [id |-> row.id, has |-> row.flag # None, flag |-> IF row.flag = None THEN 0 ELSE row.flag]

FromPb(message) ==
    [id |-> message.id, flag |-> IF message.has THEN message.flag ELSE None]

Received(transport, row) == IF transport = "grpc" THEN FromPb(ToPb(row)) ELSE row

-----------------------------------------------------------------------------
(* The service core.                                                        *)

Known(id) == \E r \in Range(Rows) : r.id = id
Row(id) == CHOOSE r \in Range(Rows) : r.id = id
Slice(s, from, limit) == SubSeq(s, from + 1, Min({from + limit, Len(s)}))

\* The rows that the comprehension keeps are the last ones, as they are in order.
After(id) == SubSeq(Rows, Cardinality({k \in DOMAIN Rows : Rows[k].id <= id}) + 1, Len(Rows))

\* The value of a method that answers at once; None is NotFoundError.
Value(request) ==
    CASE request.method \in {"one", "batch"} ->
             IF \A i \in DOMAIN request.ids : Known(request.ids[i])
             THEN [i \in DOMAIN request.ids |-> Row(request.ids[i])] ELSE None
      [] request.method = "list" -> Slice(Rows, request.from, request.limit)
      [] request.method = "metrics" -> Slice(After(request.from), 0, request.limit)
      [] OTHER -> <<Summary>>

Set(c, phase) == call' = [call EXCEPT ![c].phase = phase]

Answer(c, rows) ==
    [call EXCEPT ![c].phase = "done",
                 ![c].answer = [i \in DOMAIN rows |-> Received(call[c].request.transport, rows[i])]]

Begin(c) ==
    /\ call[c].phase \in {"idle", "done", "failed"}
    /\ begun < MaxCalls /\ begun' = begun + 1
    /\ \E r \in Requests :
          call' = [call EXCEPT ![c] = [Idle EXCEPT !.request = r, !.phase = "count", !.counts = r.method]]
    /\ UNCHANGED <<calls, lock, counted>>

\* _called reads and writes a count in two steps.
FreeUnchecked == TRUE      \* Mutant: without the lock.
Free == lock = None

CountRead(c) ==
    /\ call[c].phase = "count" /\ Free
    /\ lock' = c
    /\ call' = [call EXCEPT ![c].phase = "counting", ![c].seen = calls[call[c].counts]]
    /\ UNCHANGED <<calls, counted, begun>>

CountWrite(c) ==
    /\ call[c].phase = "counting"
    /\ calls' = [calls EXCEPT ![call[c].counts] = call[c].seen + 1]
    /\ counted' = [counted EXCEPT ![call[c].counts] = @ + 1]
    /\ lock' = None
    /\ Set(c, IF call[c].counts = call[c].request.method THEN "body" ELSE "answer")
    /\ UNCHANGED begun

\* A caller's deadline passes; only gRPC tells the server.
Expire(c) ==
    /\ call[c].phase \in {"count", "counting", "body", "answer"} /\ call[c].active
    /\ call' = [call EXCEPT ![c].active = FALSE]
    /\ UNCHANGED <<calls, lock, counted, begun>>

Gone(c) == call[c].request.transport = "grpc" /\ ~call[c].active

Unary(c) ==
    /\ call[c].phase = "body" /\ call[c].request.method \notin {"stream", "delay"}
    /\ IF Value(call[c].request) = None THEN Set(c, "failed")
       ELSE call' = Answer(c, Value(call[c].request))
    /\ UNCHANGED <<calls, lock, counted, begun>>

\* One turn of the generator: a row that comes after the first ones is looked at,
\* sent if the caller is there, and the last one of the limit ends the stream.
Stream(c) ==
    /\ call[c].phase = "body" /\ call[c].request.method = "stream"
    /\ LET next  == call[c].at + 1
           r     == call[c].request
           sent  == Append(call[c].answer, Received("grpc", Rows[next]))
       IN  IF next > Len(Rows) THEN Set(c, "done")
           ELSE IF Rows[next].id <= r.from THEN call' = [call EXCEPT ![c].at = next]
           ELSE IF Gone(c) THEN Set(c, "failed")
           ELSE call' = [call EXCEPT ![c].at = next, ![c].answer = sent,
                                     ![c].phase = IF Len(sent) >= r.limit THEN "done" ELSE "body"]
    /\ UNCHANGED <<calls, lock, counted, begun>>

\* delay_summary sleeps in pieces, and gives up when nobody waits; then it counts
\* and returns the sales summary.
Delay(c) ==
    /\ call[c].phase = "body" /\ call[c].request.method = "delay"
    /\ IF call[c].at < MaxPolls
       THEN IF Gone(c) THEN Set(c, "failed") ELSE call' = [call EXCEPT ![c].at = @ + 1]
       ELSE call' = [call EXCEPT ![c].phase = "count", ![c].counts = "summary"]
    /\ UNCHANGED <<calls, lock, counted, begun>>

DelayAnswer(c) ==
    /\ call[c].phase = "answer" /\ call' = Answer(c, <<Summary>>)
    /\ UNCHANGED <<calls, lock, counted, begun>>

Next ==
    \E c \in Callers :
        \/ Begin(c) \/ CountRead(c) \/ CountWrite(c) \/ Expire(c)
        \/ Unary(c) \/ Stream(c) \/ Delay(c) \/ DelayAnswer(c)

Spec == Init /\ [][Next]_vars

-----------------------------------------------------------------------------
(* Properties.                                                              *)

Exact(r, answer) ==
    CASE r.method \in {"one", "batch"} ->
             Len(answer) = Len(r.ids) /\ \A i \in DOMAIN answer : answer[i].id = r.ids[i]
      [] r.method = "list" -> Len(answer) = Min({r.limit, Max({0, Len(Rows) - r.from})})
      [] r.method \in {"metrics", "stream"} ->
             /\ \A i \in DOMAIN answer : answer[i].id > r.from
             /\ Len(answer) = Min({r.limit, Cardinality({i \in DOMAIN Rows : Rows[i].id > r.from})})
      [] OTHER -> answer = <<Summary>>

\* A call over either transport gets the snapshot's rows, NULL and zero apart, and
\* those it asked for, in their order and without a gap; a stream that ends early
\* has a beginning of them; and every call is counted once, however many run.
ServedExactly ==
    /\ \A c \in Callers :
          LET r == call[c].request
              answer == call[c].answer
          IN  /\ r # None /\ r.method # "summary" /\ r.method # "delay" =>
                    \A i \in DOMAIN answer : answer[i] \in Range(Rows)
              /\ r # None /\ r.method \in {"list", "metrics", "stream"} =>
                    \A i \in 1 .. Len(answer) - 1 :
                        \A k \in DOMAIN Rows : ~(answer[i].id < Rows[k].id /\ Rows[k].id < answer[i + 1].id)
              /\ call[c].phase = "done" => Exact(r, answer)
              /\ call[c].phase = "failed" /\ ~Gone(c) => \E i \in DOMAIN r.ids : ~Known(r.ids[i])
    /\ calls = counted

=============================================================================
