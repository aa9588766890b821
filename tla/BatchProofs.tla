------------------------------ MODULE BatchProofs ------------------------------
(***************************************************************************)
(* The event log, proved for any events, partitions and numbers of runs:   *)
(* the core groups' offsets are honest and their two lags agree; a         *)
(* reconciliation that passes vouches for every sink, and so does a        *)
(* failure demonstration that passes.  The key is that numbers are never   *)
(* used again: what is appended after a consumer looked up the end of the  *)
(* log is beyond that end, though the log was cleared in between.          *)
(*                                                                         *)
(* Then the database, for any files, terminals and numbers of writes,      *)
(* imports and migrations; the snapshot of session 3, which is read while  *)
(* the importer runs; the windows of sessions 1 and 2, for any stages and  *)
(* clicks; the calls of session 3, for any snapshot and callers; and the   *)
(* metrics of session 1, for any files and partitions.  The last section   *)
(* is about the programs together, as the run checks them.                 *)
(***************************************************************************)
EXTENDS Batch, FiniteSetTheorems, SequenceTheorems, WellFoundedInduction, TLAPS

Groups == CoreGroups \cup {Flaky}

ProducerType == [step : {"idle", "clear", "produce"}, doomed : SUBSET Groups]
ConsumerType == [step : {"idle", "reset", "read", "write", "commit"}, group : 1..3, end : Nat,
                 seen : SUBSET Events]
RecoveryType == [step : {"idle", "handled", "committed", "before", "again", "finish", "verify"},
                 total : Nat, handled : Nat, committed : Int, handledAt : Nat, committedAt : Nat,
                 seen : SUBSET Events, skipped : Nat]

\* The retained events of a group up to a number.
Below(g, n) == {e \in Retained \cap Handles(g) : log[e] <= n}

\* The log is empty or whole, and its numbers are among those given out.
Log ==
    /\ Retained \in {{}, Events}
    /\ log = [e \in Retained |-> log[e]]
    /\ sequence \in Nat
    /\ \A e \in Retained : log[e] \in 1..sequence
    /\ \A d, e \in Retained : log[d] = log[e] => d = e

Tables ==
    /\ DOMAIN offset \subseteq Groups
    /\ \A g \in DOMAIN offset : offset[g] \in 0..sequence
    /\ \A g \in DOMAIN partitions : partitions[g] \in [Partitions -> 0..sequence]
    /\ sink \in [CoreGroups -> SUBSET Events]
    /\ \A g \in CoreGroups : sink[g] \subseteq Handles(g)
    /\ audit \subseteq Events /\ csv \subseteq Pageviews

\* Until its offset is stored, a group at work has none; what it has read, and later
\* what its sink has, is all there is up to the end it looked up.
GoodConsumer(c) ==
    /\ c \in ConsumerType /\ c.end <= sequence /\ c.seen \subseteq Handles(Order[c.group])
    /\ c.step \in {"read", "write", "commit"} /\ Order[c.group] \in DOMAIN offset
         => offset[Order[c.group]] = 0
    /\ c.step = "write" => Below(Order[c.group], c.end) \subseteq c.seen
    /\ c.step = "commit" => Below(Order[c.group], c.end) \subseteq sink[Order[c.group]]

GoodRecovery(r) ==
    /\ r \in RecoveryType
    /\ r.step # "idle" => r.total = Cardinality(Events)
    /\ r.step = "verify" => audit = r.seen

IInv ==
    /\ Log /\ Tables /\ OffsetsHonest /\ LagsAgree
    /\ producer \in ProducerType /\ GoodConsumer(consumer) /\ GoodRecovery(recovery)

-----------------------------------------------------------------------------
(* The constants.                                                           *)

LEMMA GroupsAre ==
    /\ CoreGroups = {"projector", "audit", "refunds"} /\ Flaky \notin CoreGroups /\ Len(Order) = 3
    /\ \A i \in 1..3 : Order[i] \in CoreGroups
    /\ \A i \in 1..3 : Order[i] = "projector" <=> i = 1
<1>1. Len(Order) = 3 /\ DOMAIN Order = 1..3  BY DEF Order
<1>2. Order[1] = "projector" /\ Order[2] = "audit" /\ Order[3] = "refunds"  BY DEF Order
<1>3. 1..3 = {1, 2, 3}  OBVIOUS
<1>4. QED  BY <1>1, <1>2, <1>3 DEF CoreGroups, Flaky

LEMMA EventsAre ==
    /\ IsFiniteSet(Events) /\ Cardinality(Events) \in Nat
    /\ \A g \in CoreGroups : Handles(g) \subseteq Events
    /\ Events # {}
    /\ \A e \in Events : Index(e) \in 1..Len(Source) /\ Source[Index(e)] = e
    /\ Len(Source) \in Nat
<1>1. Source \in Seq(Events) /\ Len(Source) \in Nat /\ DOMAIN Source = 1..Len(Source)
  BY SourceAssumption
<1>2. IsFiniteSet(1..Len(Source))  BY <1>1, FS_Interval
<1>3. [i \in 1..Len(Source) |-> Source[i]] \in Surjection(1..Len(Source), Events)
  BY <1>1 DEF Surjection, Events
<1>4. IsFiniteSet(Events)  BY <1>2, <1>3, FS_Surjection
<1>5. \A e \in Events : Index(e) \in 1..Len(Source) /\ Source[Index(e)] = e
  BY <1>1 DEF Events, Index
<1>6. \A g \in CoreGroups : Handles(g) \subseteq Events
  BY SourceAssumption, GroupsAre DEF Handles
<1>7. Events # {}
  <2>1. Len(Source) # 0  BY <1>1, SourceAssumption
  <2>2. 1 \in DOMAIN Source  BY <1>1, <2>1
  <2>3. QED  BY <2>2 DEF Events
<1>8. QED  BY <1>1, <1>4, <1>5, <1>6, <1>7, FS_CardinalityType

\* Some numbers of a set have a greatest one.
LEMMA GreatestIs ==
    ASSUME NEW l, NEW n \in Nat, NEW es, es # {}, \A e \in es : l[e] \in 1..n,
           NEW c, c = CHOOSE e \in es : \A d \in es : l[d] <= l[e]
    PROVE  c \in es /\ \A d \in es : l[d] <= l[c]
<1> DEFINE T == {n - l[e] : e \in es}
<1>1. T \subseteq Nat /\ T # {}  OBVIOUS
<1>2. PICK x \in T : \A y \in T : ~ (<<y, x>> \in OpToRel(<, Nat))
  <2> HIDE DEF T
  <2> QED  BY <1>1, NatLessThanWellFounded, WFMin
<1>3. \A y \in T : x <= y
  <2> HIDE DEF T
  <2> SUFFICES ASSUME NEW y \in T, y < x PROVE FALSE  BY <1>1
  <2>1. x \in Nat /\ y \in Nat  BY <1>1
  <2>2. <<y, x>> \in OpToRel(<, Nat)  BY <2>1 DEF OpToRel
  <2>3. QED  BY <1>2, <2>2
<1>4. PICK e \in es : x = n - l[e]  OBVIOUS
<1>5. \A d \in es : l[d] <= l[e]
  <2>1. \A d \in es : n - l[e] <= n - l[d]  BY <1>3, <1>4
  <2>2. QED  BY <2>1
<1>6. QED  BY <1>5

\* The last offset of some retained events is the greatest of theirs.
LEMMA LastIs ==
    ASSUME Log, NEW es, es \subseteq Retained
    PROVE  /\ Last(es) \in 0..sequence
           /\ \A d \in es : log[d] <= Last(es)
           /\ es # {} => \E e \in es : Last(es) = log[e]
<1>1. CASE es = {}  BY <1>1 DEF Last, Log
<1>2. CASE es # {}
  <2>1. PICK c : c = CHOOSE e \in es : \A d \in es : log[d] <= log[e]  OBVIOUS
  <2>2. c \in es /\ \A d \in es : log[d] <= log[c]  BY <1>2, <2>1, GreatestIs DEF Log
  <2>3. Last(es) = log[c]  BY <1>2, <2>1 DEF Last
  <2>4. QED  BY <2>2, <2>3 DEF Log
<1>3. QED  BY <1>1, <1>2

\* The end of the log after a step, whichever step it is.
LEMMA EndNext ==
    ASSUME Log', Retained' # {}
    PROVE  \A e \in Retained' : log'[e] <= End'
<1>1. PICK c : c = CHOOSE e \in Retained' : \A d \in Retained' : log'[d] <= log'[e]  OBVIOUS
<1>2. PICK r : r = Retained'  OBVIOUS
<1>3. \A d \in r : log'[d] <= log'[c]
  <2>1. \A e \in r : log'[e] \in 1..sequence'  BY <1>2 DEF Log
  <2>2. sequence' \in Nat  BY DEF Log
  <2>3. QED  BY <1>1, <1>2, <2>1, <2>2, GreatestIs
<1>4. End' = log'[c]  BY <1>1 DEF End, Last
<1>5. QED  BY <1>2, <1>3, <1>4

LEMMA EndIs ==
    ASSUME Log
    PROVE  End \in 0..sequence /\ (\A e \in Retained : log[e] <= End) /\ (Retained # {} => End > 0)
<1>1. /\ End \in 0..sequence /\ \A e \in Retained : log[e] <= End
      /\ Retained # {} => \E e \in Retained : End = log[e]
  BY LastIs DEF End
<1>2. QED  BY <1>1 DEF Log

LEMMA NthIs == ASSUME Log, NEW n PROVE NthOffset(n) \in 0..sequence
BY LastIs DEF NthOffset
-----------------------------------------------------------------------------
(* The inductive invariant.                                                 *)

LEMMA GroupType ==
    ASSUME NEW c \in ConsumerType
    PROVE  Order[c.group] \in CoreGroups /\ Order[c.group] \in Groups /\ Handles(Order[c.group]) \subseteq Events
BY GroupsAre, EventsAre DEF ConsumerType, Groups

\* A script that moves without writing what the others rely on.
LEMMA Kept ==
    ASSUME IInv, UNCHANGED <<log, sequence, offset, partitions, sink>>,
           csv' \subseteq Pageviews, audit' \subseteq Events, producer' \in ProducerType,
           GoodConsumer(consumer)', GoodRecovery(recovery)'
    PROVE  IInv'
<1>1. Log' /\ Tables'  BY DEF IInv, Log, Tables, Retained
<1>2. OffsetsHonest' /\ LagsAgree'
  BY DEF IInv, OffsetsHonest, LagsAgree, Behind, Retained, End, Last
<1>3. QED  BY <1>1, <1>2 DEF IInv

LEMMA ConsumerRests ==
    ASSUME IInv, UNCHANGED <<log, sequence, offset, sink, consumer>>
    PROVE  GoodConsumer(consumer)'
BY DEF IInv, GoodConsumer, Below, Retained

LEMMA RecoveryRests ==
    ASSUME IInv, UNCHANGED <<audit, recovery>>
    PROVE  GoodRecovery(recovery)'
BY DEF IInv, GoodRecovery

LEMMA NothingToDo ==
    /\ NoProducer \in ProducerType
    /\ NoRecovery \in RecoveryType
    /\ NoConsumer \in ConsumerType
<1>1. 1 \in 1..3  OBVIOUS
<1>2. QED  BY <1>1 DEF NoProducer, NoRecovery, NoConsumer, ProducerType, RecoveryType, ConsumerType

LEMMA InitInv == Init => IInv
<1> SUFFICES ASSUME Init PROVE IInv  OBVIOUS
<1>1. DOMAIN log = {} /\ DOMAIN offset = {} /\ DOMAIN partitions = {}  BY DEF Init
<1>2. Log
  <2>1. log = [e \in Retained |-> log[e]]  BY <1>1 DEF Init, Retained
  <2>2. QED  BY <1>1, <2>1 DEF Init, Log, Retained
<1>3. Tables  BY <1>1 DEF Init, Tables
<1>4. OffsetsHonest /\ LagsAgree  BY <1>1 DEF OffsetsHonest, LagsAgree
<1>5. GoodConsumer(consumer)
  <2>1. consumer.step = "idle" /\ consumer.end = 0 /\ consumer.seen = {}  BY DEF Init, NoConsumer
  <2>2. QED  BY <2>1, NothingToDo DEF Init, GoodConsumer
<1>6. GoodRecovery(recovery)
  <2>1. recovery.step = "idle"  BY DEF Init, NoRecovery
  <2>2. QED  BY <2>1, NothingToDo DEF Init, GoodRecovery
<1>7. QED  BY <1>2, <1>3, <1>4, <1>5, <1>6, NothingToDo DEF Init, IInv

-----------------------------------------------------------------------------
(* The producer.                                                            *)

LEMMA BeginResetInv == IInv /\ BeginReset => IInv'
<1> SUFFICES ASSUME IInv, BeginReset PROVE IInv'  OBVIOUS
<1>1. UNCHANGED <<log, sequence, offset, partitions, sink, csv, audit, consumer, recovery>>
  BY DEF BeginReset, tables
<1>2. producer' \in ProducerType  BY DEF BeginReset, ProducerType, IInv, Tables
<1>3. QED  BY <1>1, <1>2, Kept, ConsumerRests, RecoveryRests DEF IInv, Tables

LEMMA BeginProduceInv == IInv /\ BeginProduce => IInv'
<1> SUFFICES ASSUME IInv, BeginProduce PROVE IInv'  OBVIOUS
<1>1. UNCHANGED <<log, sequence, offset, partitions, sink, csv, audit, consumer, recovery>>
  BY DEF BeginProduce, tables
<1>2. producer' \in ProducerType  BY NothingToDo DEF BeginProduce, ProducerType
<1>3. QED  BY <1>1, <1>2, Kept, ConsumerRests, RecoveryRests DEF IInv, Tables

\* With the log the group's number is gone, or it has nothing to cover.
LEMMA ClearInv == IInv /\ Clear => IInv'
<1> SUFFICES ASSUME IInv, Clear PROVE IInv'  OBVIOUS
<1> USE DEF Clear
<1>1. Retained' = {}  BY DEF Retained
<1>2. Log'
  <2>1. log' = [e \in Retained' |-> log'[e]]  BY <1>1
  <2>2. QED  BY <1>1, <2>1 DEF Log, IInv
<1>3. /\ DOMAIN offset' \subseteq DOMAIN offset /\ DOMAIN partitions' \subseteq DOMAIN partitions
      /\ \A g \in DOMAIN offset' : offset'[g] = offset[g]
      /\ \A g \in DOMAIN partitions' : partitions'[g] = partitions[g]
  BY DEF Without
<1>4. Tables'  BY <1>3 DEF Tables, IInv
<1>5. OffsetsHonest' /\ LagsAgree'  BY <1>1 DEF OffsetsHonest, LagsAgree, Behind
<1>6. producer' \in ProducerType  BY DEF ProducerType
<1>7. GoodConsumer(consumer)'
  <2>1. Below(Order[consumer.group], consumer.end)' = {}  BY <1>1 DEF Below
  <2>2. QED  BY <1>3, <2>1 DEF GoodConsumer, IInv
<1>8. QED  BY <1>2, <1>4, <1>5, <1>6, <1>7, RecoveryRests DEF IInv
\* An event that is there keeps its number; into an empty log they all come with numbers
\* that no offset, and no end that was looked up, has reached.
LEMMA ProduceInv == IInv /\ Produce => IInv'
<1> SUFFICES ASSUME IInv, Produce PROVE IInv'  OBVIOUS
<1>1. /\ UNCHANGED <<offset, partitions, sink, audit, csv, consumer, recovery>>
      /\ sequence' = sequence + Len(Source) /\ sequence \in Nat /\ sequence' \in Nat /\ sequence <= sequence'
      /\ Retained' = Events
  BY EventsAre DEF Produce, Retained, IInv, Log
<1>2. producer' \in ProducerType  BY NothingToDo DEF Produce
<1>3. Tables'
  <2>1. \A g \in DOMAIN offset : offset[g] \in 0..sequence'  BY <1>1 DEF IInv, Tables
  <2>2. \A g \in DOMAIN partitions : partitions[g] \in [Partitions -> 0..sequence']
    <3>1. 0..sequence \subseteq 0..sequence'  BY <1>1
    <3>2. QED  BY <3>1 DEF IInv, Tables
  <2>3. QED  BY <1>1, <2>1, <2>2 DEF IInv, Tables
<1>4. CASE Retained = Events
  <2>1. log' = log  BY <1>4 DEF Produce, IInv, Log
  <2>2. Log'  BY <1>1, <2>1, <1>4 DEF IInv, Log, Retained
  <2>3. OffsetsHonest' /\ LagsAgree'
    BY <1>1, <2>1 DEF IInv, OffsetsHonest, LagsAgree, Behind, Retained, End, Last
  <2>4. GoodConsumer(consumer)'
    <3>1. consumer.end \in Nat  BY DEF IInv, GoodConsumer, ConsumerType
    <3>2. QED  BY <1>1, <2>1, <3>1 DEF IInv, GoodConsumer, Below, Retained
  <2>5. QED  BY <1>1, <1>2, <1>3, <2>2, <2>3, <2>4, RecoveryRests DEF IInv
<1>5. CASE Retained = {}
  <2>1. log' = [e \in Events |-> sequence + Index(e)]  BY <1>5 DEF Produce
  <2>2. \A e \in Events : log'[e] \in Nat /\ log'[e] > sequence /\ log'[e] \in 1..sequence'
    <3>1. \A e \in Events : log'[e] = sequence + Index(e)  BY <2>1
    <3>2. \A e \in Events : Index(e) \in 1..Len(Source)  BY EventsAre
    <3>3. QED  BY <1>1, <3>1, <3>2, EventsAre
  <2>3. \A d, e \in Events : log'[d] = log'[e] => d = e
    <3>1. \A e \in Events : Index(e) \in Nat /\ Source[Index(e)] = e  BY EventsAre
    <3>2. \A d, e \in Events : log'[d] = log'[e] => Index(d) = Index(e)  BY <1>1, <2>1, <3>1
    <3>3. QED  BY <3>1, <3>2
  <2>4. Log'
    <3>1. log' = [e \in Retained' |-> log'[e]]  BY <1>1, <2>1
    <3>2. QED  BY <1>1, <2>2, <2>3, <3>1 DEF Log
  <2>5. \A n \in 0..sequence : \A e \in Events : ~ (log'[e] <= n)  BY <1>1, <2>2
  <2>6. OffsetsHonest'
    <3>1. \A g \in DOMAIN offset : offset[g] \in 0..sequence  BY DEF IInv, Tables
    <3>2. QED  BY <1>1, <2>5, <3>1 DEF OffsetsHonest, Behind
  <2>7. LagsAgree'
    <3>1. PICK e \in Events : TRUE  BY EventsAre
    <3>2. log'[e] <= End'  BY <1>1, <2>4, <3>1, EndNext
    <3>3. End' \in Nat
      <4>1. PICK c : c = CHOOSE d \in Retained' : \A x \in Retained' : log'[x] <= log'[d]  OBVIOUS
      <4>2. End' = log'[c]  BY <1>1, <3>1, <4>1 DEF End, Last
      <4>3. PICK r : r = Retained'  OBVIOUS
      <4>4. c \in r  BY <1>1, <2>2, <4>1, <4>3, EventsAre, GreatestIs
      <4>5. QED  BY <1>1, <2>2, <4>2, <4>3, <4>4
    <3>4. \A g \in DOMAIN offset : offset[g] \in 0..sequence  BY DEF IInv, Tables
    <3>5. \A g \in DOMAIN offset : ~ (End' <= offset[g])  BY <1>1, <2>2, <3>1, <3>2, <3>3, <3>4
    <3>6. QED  BY <1>1, <3>5 DEF LagsAgree
  <2>8. GoodConsumer(consumer)'
    <3>1. consumer \in ConsumerType /\ consumer.end <= sequence  BY DEF IInv, GoodConsumer
    <3>2. consumer.end \in 0..sequence  BY <1>1, <3>1 DEF ConsumerType
    <3>3. Below(Order[consumer.group], consumer.end)' = {}
      <4>1. \A e \in Events : ~ (log'[e] <= consumer.end)  BY <2>5, <3>2
      <4>2. QED  BY <1>1, <4>1 DEF Below
    <3>4. consumer.end <= sequence'  BY <1>1, <3>2
    <3>5. QED  BY <1>1, <3>3, <3>4 DEF IInv, GoodConsumer
  <2>9. QED  BY <1>1, <1>2, <1>3, <2>4, <2>6, <2>7, <2>8, RecoveryRests DEF IInv
<1>6. QED  BY <1>4, <1>5 DEF IInv, Log
-----------------------------------------------------------------------------
(* The consumer groups.                                                     *)

LEMMA BeginConsumersInv == IInv /\ BeginConsumers => IInv'
<1> SUFFICES ASSUME IInv, BeginConsumers PROVE IInv'  OBVIOUS
<1>1. UNCHANGED <<log, sequence, offset, partitions, sink, csv, audit, producer, recovery>>
  BY DEF BeginConsumers, tables
<1>2. GoodConsumer(consumer)'
  <2>1. consumer' = [step |-> "reset", group |-> 1, end |-> End, seen |-> {}]
    BY DEF BeginConsumers, NoConsumer
  <2>2. End \in 0..sequence /\ sequence \in Nat  BY EndIs DEF IInv, Log
  <2>3. consumer' \in ConsumerType /\ consumer'.end <= sequence'
    <3>1. End \in Nat /\ End <= sequence  BY <2>2
    <3>2. 1 \in 1..3  OBVIOUS
    <3>3. QED  BY <1>1, <2>1, <3>1, <3>2 DEF ConsumerType
  <2>4. QED  BY <2>1, <2>3 DEF GoodConsumer
<1>3. QED  BY <1>1, <1>2, Kept, RecoveryRests DEF IInv, Tables

\* What a group's row becomes leaves the other groups' promises alone.
LEMMA GroupStored ==
    ASSUME IInv, UNCHANGED <<log, sequence, sink>>,
           NEW g \in Groups, NEW n \in 0..sequence, offset' = With(offset, g, n)
    PROVE  /\ DOMAIN offset' \subseteq Groups
           /\ \A h \in DOMAIN offset' : offset'[h] \in 0..sequence
           /\ (g \in CoreGroups => Below(g, n) \subseteq sink[g]) => OffsetsHonest'
<1>1. /\ DOMAIN offset' = {g} \cup DOMAIN offset /\ offset'[g] = n
      /\ \A h \in DOMAIN offset : h # g => offset'[h] = offset[h]
  BY DEF With
<1>2. DOMAIN offset \subseteq Groups /\ \A h \in DOMAIN offset : offset[h] \in 0..sequence
  BY DEF IInv, Tables
<1>3. ASSUME g \in CoreGroups => Below(g, n) \subseteq sink[g]  PROVE OffsetsHonest'
  <2> SUFFICES ASSUME NEW h \in CoreGroups, h \in DOMAIN offset' PROVE Behind(h)' \subseteq sink[h]
    BY DEF OffsetsHonest
  <2>1. CASE h = g  BY <1>1, <1>3, <2>1 DEF Behind, Below, Retained
  <2>2. CASE h # g
    <3>1. Behind(h) \subseteq sink[h]  BY <1>1, <2>2 DEF IInv, OffsetsHonest
    <3>2. QED  BY <1>1, <2>2, <3>1 DEF Behind, Retained
  <2>3. QED  BY <2>1, <2>2
<1>4. QED  BY <1>1, <1>2, <1>3

LEMMA PartitionsStored ==
    ASSUME IInv, UNCHANGED sequence, NEW g, NEW ends \in [Partitions -> 0..sequence],
           partitions' = With(partitions, g, ends)
    PROVE  \A h \in DOMAIN partitions' : partitions'[h] \in [Partitions -> 0..sequence']
BY DEF IInv, Tables, With

LEMMA ResetConsumerInv == IInv /\ ResetConsumer => IInv'
<1> SUFFICES ASSUME IInv, ResetConsumer PROVE IInv'  OBVIOUS
<1>1. PICK g : g = Group  OBVIOUS
<1>2. /\ UNCHANGED <<log, sequence, sink, csv, audit, producer, recovery>>
      /\ consumer.step = "reset" /\ consumer' = [consumer EXCEPT !.step = "read"]
      /\ offset' = With(offset, g, 0) /\ partitions' = With(partitions, g, Nowhere)
  BY <1>1 DEF ResetConsumer
<1>3. consumer \in ConsumerType /\ g = Order[consumer.group] /\ g \in CoreGroups /\ g \in Groups
  BY <1>1, GroupType DEF IInv, GoodConsumer, Group
<1>4. sequence \in Nat /\ 0 \in 0..sequence  BY DEF IInv, Log
<1>5. Below(g, 0) = {}
  <2>1. \A e \in Retained : ~ (log[e] <= 0)  BY <1>4 DEF IInv, Log
  <2>2. QED  BY <2>1 DEF Below
<1>6. OffsetsHonest' /\ DOMAIN offset' \subseteq Groups /\ \A h \in DOMAIN offset' : offset'[h] \in 0..sequence'
  BY <1>2, <1>3, <1>4, <1>5, GroupStored
<1>7. \A h \in DOMAIN partitions' : partitions'[h] \in [Partitions -> 0..sequence']
  <2>1. Nowhere \in [Partitions -> 0..sequence]  BY <1>4 DEF Nowhere
  <2>2. QED  BY <1>2, <2>1, PartitionsStored
<1>8. Log' /\ Tables'  BY <1>2, <1>6, <1>7 DEF IInv, Log, Tables, Retained
<1>9. LagsAgree'
  <2> SUFFICES ASSUME NEW h \in CoreGroups, h \in DOMAIN offset', Retained' # {}, End' <= offset'[h]
               PROVE  /\ h \in DOMAIN partitions'
                      /\ \A e \in Retained' : log'[e] <= partitions'[h][PartitionOf(e)]
    BY DEF LagsAgree
  <2>1. End' = End /\ Retained' = Retained  BY <1>2 DEF End, Last, Retained
  <2>2. h # g
    <3>1. End > 0 /\ End \in 0..sequence  BY <2>1, EndIs DEF IInv
    <3>2. offset'[g] = 0  BY <1>2 DEF With
    <3>3. QED  BY <2>1, <3>1, <3>2, <1>4
  <2>3. h \in DOMAIN offset /\ offset'[h] = offset[h]  BY <1>2, <2>2 DEF With
  <2>4. h \in DOMAIN partitions /\ \A e \in Retained : log[e] <= partitions[h][PartitionOf(e)]
    BY <2>1, <2>3 DEF IInv, LagsAgree
  <2>5. h \in DOMAIN partitions' /\ partitions'[h] = partitions[h]  BY <1>2, <2>2, <2>4 DEF With
  <2>6. QED  BY <1>2, <2>1, <2>4, <2>5
<1>10. GoodConsumer(consumer)'
  <2>1. consumer' \in ConsumerType /\ consumer'.step = "read" /\ consumer'.group = consumer.group
        /\ consumer'.end = consumer.end /\ consumer'.seen = consumer.seen
    BY <1>2, <1>3 DEF ConsumerType
  <2>2. offset'[g] = 0  BY <1>2 DEF With
  <2>3. consumer.end <= sequence /\ consumer.seen \subseteq Handles(g)  BY <1>3 DEF IInv, GoodConsumer
  <2>4. QED  BY <1>2, <1>3, <2>1, <2>2, <2>3 DEF GoodConsumer
<1>11. QED  BY <1>2, <1>6, <1>8, <1>9, <1>10, RecoveryRests DEF IInv

LEMMA ReadLogInv == IInv /\ ReadLog => IInv'
<1> SUFFICES ASSUME IInv, ReadLog PROVE IInv'  OBVIOUS
<1>1. PICK g : g = Group  OBVIOUS
<1>2. /\ UNCHANGED <<log, sequence, offset, partitions, sink, audit, producer, recovery>>
      /\ consumer.step = "read"
      /\ consumer' = [consumer EXCEPT !.step = "write", !.seen = Handles(g) \cap Retained]
      /\ csv' \in {Pageviews \cap Retained, csv}
  BY <1>1 DEF ReadLog, tables
<1>3. consumer \in ConsumerType /\ g = Order[consumer.group] /\ Handles(g) \subseteq Events
  BY <1>1, GroupType DEF IInv, GoodConsumer, Group
<1>4. /\ consumer' \in ConsumerType /\ consumer'.step = "write" /\ consumer'.group = consumer.group
      /\ consumer'.end = consumer.end /\ consumer'.seen = Handles(g) \cap Retained
  BY <1>2, <1>3 DEF ConsumerType
<1>5. GoodConsumer(consumer)'
  <2>2. consumer.end <= sequence /\ (g \in DOMAIN offset => offset[g] = 0)
    BY <1>2, <1>3 DEF IInv, GoodConsumer
  <2>3. Below(Order[consumer.group], consumer.end)' \subseteq consumer'.seen
    BY <1>2, <1>3, <1>4 DEF Below, Retained
  <2>4. QED  BY <1>2, <1>3, <1>4, <2>2, <2>3 DEF GoodConsumer
<1>6. csv' \subseteq Pageviews  BY <1>2 DEF IInv, Tables
<1>7. QED  BY <1>2, <1>5, <1>6, Kept, RecoveryRests DEF IInv, Tables
LEMMA WriteSinkInv == IInv /\ WriteSink => IInv'
<1> SUFFICES ASSUME IInv, WriteSink PROVE IInv'  OBVIOUS
<1>1. PICK g : g = Group  OBVIOUS
<1>2. /\ UNCHANGED <<log, sequence, offset, partitions, csv, audit, producer, recovery>>
      /\ consumer.step = "write"
      /\ sink' = [sink EXCEPT ![g] = consumer.seen]
      /\ consumer' = [consumer EXCEPT !.step = "commit", !.seen = {}]
  BY <1>1 DEF WriteSink
<1>3. consumer \in ConsumerType /\ g = Order[consumer.group] /\ g \in CoreGroups /\ Handles(g) \subseteq Events
  BY <1>1, GroupType DEF IInv, GoodConsumer, Group
<1>4. /\ consumer' \in ConsumerType /\ consumer'.step = "commit" /\ consumer'.group = consumer.group
      /\ consumer'.end = consumer.end /\ consumer'.seen = {}
  BY <1>2, <1>3 DEF ConsumerType
<1>5. /\ consumer.seen \subseteq Handles(g) /\ consumer.end <= sequence
      /\ g \in DOMAIN offset => offset[g] = 0
      /\ Below(g, consumer.end) \subseteq consumer.seen
  BY <1>2, <1>3 DEF IInv, GoodConsumer
<1>6. sink \in [CoreGroups -> SUBSET Events] /\ \A h \in CoreGroups : sink[h] \subseteq Handles(h)
  BY DEF IInv, Tables
<1>7. sink' \in [CoreGroups -> SUBSET Events] /\ \A h \in CoreGroups : sink'[h] \subseteq Handles(h)
  BY <1>2, <1>3, <1>5, <1>6
<1>8. Log' /\ Tables'  BY <1>2, <1>7 DEF IInv, Log, Tables, Retained
<1>9. OffsetsHonest'
  <2> SUFFICES ASSUME NEW h \in CoreGroups, h \in DOMAIN offset PROVE Behind(h)' \subseteq sink'[h]
    BY <1>2 DEF OffsetsHonest
  <2>1. CASE h = g
    <3>1. \A e \in Retained : ~ (log[e] <= 0)  BY DEF IInv, Log
    <3>2. Behind(g)' = {}  BY <1>2, <1>5, <2>1, <3>1 DEF Behind, Retained
    <3>3. QED  BY <2>1, <3>2
  <2>2. CASE h # g
    <3>1. Behind(h) \subseteq sink[h]  BY DEF IInv, OffsetsHonest
    <3>2. sink'[h] = sink[h]  BY <1>2, <1>6, <2>2
    <3>3. QED  BY <1>2, <3>1, <3>2 DEF Behind, Retained
  <2>3. QED  BY <2>1, <2>2
<1>10. LagsAgree'  BY <1>2 DEF IInv, LagsAgree, Retained, End, Last
<1>11. GoodConsumer(consumer)'
  <2>1. sink'[g] = consumer.seen  BY <1>2, <1>3, <1>6
  <2>2. Below(Order[consumer.group], consumer.end)' \subseteq sink'[Order[consumer'.group]]
    BY <1>2, <1>3, <1>4, <1>5, <2>1 DEF Below, Retained
  <2>3. QED  BY <1>2, <1>3, <1>4, <1>5, <2>2 DEF GoodConsumer
<1>12. QED  BY <1>2, <1>8, <1>9, <1>10, <1>11, RecoveryRests DEF IInv

\* The last offset of each partition is beyond that of all its events.
LEMMA AtEndIs ==
    ASSUME IInv, NEW g
    PROVE  /\ PartitionsAtEnd(g) \in [Partitions -> 0..sequence]
           /\ \A e \in Retained : log[e] <= PartitionsAtEnd(g)[PartitionOf(e)]
<1> DEFINE known == IF g \in DOMAIN partitions THEN partitions[g] ELSE Nowhere
           In(p) == {e \in Retained : PartitionOf(e) = p}
<1>1. PartitionsAtEnd(g) = [p \in Partitions |-> IF In(p) = {} THEN known[p] ELSE Last(In(p))]
  BY DEF PartitionsAtEnd
<1>2. known \in [Partitions -> 0..sequence]
  <2>1. 0 \in 0..sequence  BY DEF IInv, Log
  <2>2. QED  BY <2>1 DEF IInv, Tables, Nowhere
<1>3. \A p \in Partitions : Last(In(p)) \in 0..sequence /\ \A e \in In(p) : log[e] <= Last(In(p))
  BY LastIs DEF IInv
<1>4. ASSUME NEW e \in Retained PROVE log[e] <= PartitionsAtEnd(g)[PartitionOf(e)]
  <2>1. PartitionOf(e) \in Partitions /\ e \in In(PartitionOf(e))
    <3>1. e \in Events  BY DEF IInv, Log
    <3>2. QED  BY <3>1, SourceAssumption
  <2>2. PartitionsAtEnd(g)[PartitionOf(e)] = Last(In(PartitionOf(e)))
    <3> HIDE DEF known, In
    <3> QED  BY <1>1, <2>1
  <2>3. QED
    <3> HIDE DEF known, In
    <3> QED  BY <1>3, <2>1, <2>2
<1>5. PartitionsAtEnd(g) \in [Partitions -> 0..sequence]
  <2> HIDE DEF known, In
  <2> QED  BY <1>1, <1>2, <1>3
<1>6. QED  BY <1>4, <1>5

\* What the group read covers all there is up to the end that becomes its offset.
LEMMA CommitGroupInv == IInv /\ CommitGroup => IInv'
<1> SUFFICES ASSUME IInv, CommitGroup PROVE IInv'  OBVIOUS
<1>1. PICK g, ends : g = Group /\ ends = PartitionsAtEnd(g)  OBVIOUS
<1>2. /\ UNCHANGED <<log, sequence, sink, csv, audit, producer, recovery>>
      /\ consumer.step = "commit" /\ consumer' = NextGroup
      /\ offset' = With(offset, g, consumer.end) /\ partitions' = With(partitions, g, ends)
  BY <1>1 DEF CommitGroup
<1>3. consumer \in ConsumerType /\ g = Order[consumer.group] /\ g \in CoreGroups /\ g \in Groups
  BY <1>1, GroupType DEF IInv, GoodConsumer, Group
<1>4. sequence \in Nat /\ consumer.end \in 0..sequence /\ consumer.end <= sequence
      /\ Below(g, consumer.end) \subseteq sink[g]
  BY <1>2, <1>3 DEF IInv, GoodConsumer, ConsumerType, Log
<1>5. ends \in [Partitions -> 0..sequence] /\ \A e \in Retained : log[e] <= ends[PartitionOf(e)]
  BY <1>1, AtEndIs
<1>6. OffsetsHonest' /\ DOMAIN offset' \subseteq Groups /\ \A h \in DOMAIN offset' : offset'[h] \in 0..sequence'
  BY <1>2, <1>3, <1>4, GroupStored
<1>7. \A h \in DOMAIN partitions' : partitions'[h] \in [Partitions -> 0..sequence']
  BY <1>2, <1>5, PartitionsStored
<1>8. Log' /\ Tables'  BY <1>2, <1>6, <1>7 DEF IInv, Log, Tables, Retained
<1>9. LagsAgree'
  <2> SUFFICES ASSUME NEW h \in CoreGroups, h \in DOMAIN offset', Retained' # {}, End' <= offset'[h]
               PROVE  /\ h \in DOMAIN partitions'
                      /\ \A e \in Retained' : log'[e] <= partitions'[h][PartitionOf(e)]
    BY DEF LagsAgree
  <2>1. End' = End /\ Retained' = Retained  BY <1>2 DEF End, Last, Retained
  <2>2. CASE h = g
    <3>1. g \in DOMAIN partitions' /\ partitions'[g] = ends  BY <1>2 DEF With
    <3>2. QED  BY <1>2, <1>5, <2>1, <2>2, <3>1
  <2>3. CASE h # g
    <3>1. h \in DOMAIN offset /\ offset'[h] = offset[h]  BY <1>2, <2>3 DEF With
    <3>2. h \in DOMAIN partitions /\ \A e \in Retained : log[e] <= partitions[h][PartitionOf(e)]
      BY <2>1, <3>1 DEF IInv, LagsAgree
    <3>3. h \in DOMAIN partitions' /\ partitions'[h] = partitions[h]  BY <1>2, <2>3, <3>2 DEF With
    <3>4. QED  BY <1>2, <2>1, <3>2, <3>3
  <2>4. QED  BY <2>2, <2>3
<1>10. GoodConsumer(consumer)'
  <2>1. consumer' \in ConsumerType /\ consumer'.step \in {"idle", "reset"} /\ consumer'.seen = {}
        /\ consumer'.end \in {0, consumer.end}
    <3>1. CASE consumer.group = 3
      <4>1. consumer' = NoConsumer  BY <1>2, <3>1, GroupsAre DEF NextGroup
      <4>2. QED  BY <4>1, NothingToDo DEF NoConsumer
    <3>2. CASE consumer.group # 3
      <4>1. consumer' = [consumer EXCEPT !.step = "reset", !.group = consumer.group + 1, !.seen = {}]
        BY <1>2, <3>2, GroupsAre DEF NextGroup
      <4>2. consumer.group + 1 \in 1..3
        <5>1. consumer.group \in 1..3  BY <1>3 DEF ConsumerType
        <5>2. QED  BY <3>2, <5>1
      <4>3. QED  BY <1>3, <4>1, <4>2 DEF ConsumerType
    <3>3. QED  BY <3>1, <3>2
  <2>2. consumer'.end <= sequence'  BY <1>2, <1>4, <2>1
  <2>3. QED  BY <2>1, <2>2 DEF GoodConsumer
<1>11. QED  BY <1>2, <1>6, <1>8, <1>9, <1>10, RecoveryRests DEF IInv
-----------------------------------------------------------------------------
(* The failure demonstration.                                               *)

\* It writes no table but its own sink and ends.
LEMMA RecoveryMoves ==
    ASSUME IInv, UNCHANGED <<log, sequence, offset, partitions, sink, csv, producer, consumer>>,
           audit' \subseteq Events, GoodRecovery(recovery)'
    PROVE  IInv'
BY Kept, ConsumerRests DEF IInv, Tables

LEMMA BeginRecoveryInv == IInv /\ BeginRecovery => IInv'
<1> SUFFICES ASSUME IInv, BeginRecovery PROVE IInv'  OBVIOUS
<1>1. PICK handled \in 1..Cardinality(Retained) :
        recovery' = [NoRecovery EXCEPT !.step = "handled", !.total = Cardinality(Retained),
                                       !.handled = handled, !.committed = Committed(handled)]
  BY DEF BeginRecovery
<1>2. Retained = Events
  <2>1. Retained # {}
    <3>1. Cardinality({}) = 0  BY FS_EmptySet
    <3>2. Cardinality(Retained) # 0
      <4>1. Cardinality(Retained) \in Nat  BY EventsAre, FS_EmptySet DEF IInv, Log
      <4>2. QED  BY <4>1
    <3>3. QED  BY <3>1, <3>2
  <2>2. QED  BY <2>1 DEF IInv, Log
<1>3. PICK n, c : n = Cardinality(Events) /\ c = Committed(handled)  OBVIOUS
<1>4. n \in Nat /\ handled \in Nat /\ c \in Int
  <2>1. n \in Nat  BY <1>3, EventsAre
  <2>2. handled \in 1..n  BY <1>2, <1>3
  <2>3. handled \in Nat  BY <2>1, <2>2
  <2>4. CommitEvery \in Nat \ {0}  BY BoundsAssumption
  <2>5. PICK q : q = handled \div CommitEvery  OBVIOUS
  <2>6. q \in Nat  BY <2>3, <2>4, <2>5
  <2>7. q * CommitEvery \in Nat  BY <2>4, <2>6
  <2>8. c \in {q * CommitEvery, q * CommitEvery - CommitEvery}  BY <1>3, <2>5 DEF Committed
  <2>9. QED  BY <2>1, <2>3, <2>4, <2>7, <2>8
<1>5. recovery' \in RecoveryType /\ recovery'.step = "handled" /\ recovery'.total = n
  BY <1>1, <1>2, <1>3, <1>4, NothingToDo DEF RecoveryType
<1>6. GoodRecovery(recovery)'  BY <1>3, <1>5 DEF GoodRecovery
<1>7. QED  BY <1>6, RecoveryMoves DEF BeginRecovery, tables, IInv, Tables

LEMMA ReadHandledInv == IInv /\ ReadHandled => IInv'
<1> SUFFICES ASSUME IInv, ReadHandled PROVE IInv'  OBVIOUS
<1>1. PICK n : n = NthOffset(recovery.handled)  OBVIOUS
<1>2. n \in Nat  BY <1>1, NthIs DEF IInv, Log
<1>3. GoodRecovery(recovery)'  BY <1>1, <1>2 DEF ReadHandled, IInv, GoodRecovery, RecoveryType
<1>4. QED  BY <1>3, RecoveryMoves DEF ReadHandled, tables, IInv, Tables

LEMMA ReadCommittedInv == IInv /\ ReadCommitted => IInv'
<1> SUFFICES ASSUME IInv, ReadCommitted PROVE IInv'  OBVIOUS
<1>1. PICK n : n = NthOffset(recovery.committed)  OBVIOUS
<1>2. n \in Nat  BY <1>1, NthIs DEF IInv, Log
<1>3. GoodRecovery(recovery)'  BY <1>1, <1>2 DEF ReadCommitted, IInv, GoodRecovery, RecoveryType
<1>4. QED  BY <1>3, RecoveryMoves DEF ReadCommitted, tables, IInv, Tables

LEMMA BeforeCrashInv == IInv /\ BeforeCrash => IInv'
<1> SUFFICES ASSUME IInv, BeforeCrash PROVE IInv'  OBVIOUS
<1>1. GoodRecovery(recovery)'  BY DEF BeforeCrash, IInv, GoodRecovery, RecoveryType
<1>2. audit' \subseteq Events  BY DEF BeforeCrash, IInv, Log
<1>3. QED  BY <1>1, <1>2, RecoveryMoves DEF BeforeCrash

LEMMA RedeliverInv == IInv /\ Redeliver => IInv'
<1> SUFFICES ASSUME IInv, Redeliver PROVE IInv'  OBVIOUS
<1>1. PICK candidates, n : /\ candidates = {e \in Retained : log[e] > recovery.committedAt}
                           /\ n = Cardinality(audit \cap candidates)
  OBVIOUS
<1>2. candidates \subseteq Events /\ audit \subseteq Events  BY <1>1 DEF IInv, Log, Tables
<1>3. n \in Nat
  <2>1. IsFiniteSet(audit \cap candidates)  BY <1>2, EventsAre, FS_Subset
  <2>2. QED  BY <1>1, <2>1, FS_CardinalityType
<1>4. recovery' = [recovery EXCEPT !.step = "finish", !.seen = audit \cup candidates, !.skipped = n]
  BY <1>1 DEF Redeliver
<1>5. recovery.step = "again" /\ UNCHANGED audit  BY DEF Redeliver, tables
<1>6. GoodRecovery(recovery)'  BY <1>2, <1>3, <1>4, <1>5 DEF IInv, GoodRecovery, RecoveryType
<1>7. QED  BY <1>2, <1>6, RecoveryMoves DEF Redeliver, tables

LEMMA FinishRecoveryInv == IInv /\ FinishRecovery => IInv'
<1> SUFFICES ASSUME IInv, FinishRecovery PROVE IInv'  OBVIOUS
<1>1. PICK n : n = NthOffset(recovery.total)  OBVIOUS
<1>2. /\ UNCHANGED <<log, sequence, partitions, sink, csv, producer, consumer>>
      /\ recovery.step = "finish" /\ audit' = recovery.seen
      /\ offset' = With(offset, Flaky, n) /\ recovery' = [recovery EXCEPT !.step = "verify"]
  BY <1>1 DEF FinishRecovery
<1>3. n \in 0..sequence /\ Flaky \in Groups /\ Flaky \notin CoreGroups
  BY <1>1, NthIs, GroupsAre DEF IInv, Groups
<1>4. OffsetsHonest' /\ DOMAIN offset' \subseteq Groups /\ \A h \in DOMAIN offset' : offset'[h] \in 0..sequence'
  BY <1>2, <1>3, GroupStored
<1>5. GoodRecovery(recovery)' /\ audit' \subseteq Events  BY <1>2 DEF IInv, GoodRecovery, RecoveryType
<1>6. Log' /\ Tables'  BY <1>2, <1>4, <1>5 DEF IInv, Log, Tables, Retained
<1>7. \A h \in CoreGroups : /\ h \in DOMAIN offset' <=> h \in DOMAIN offset
                            /\ h \in DOMAIN offset => offset'[h] = offset[h]
  BY <1>2, <1>3 DEF With
<1>8. LagsAgree'  BY <1>2, <1>7 DEF IInv, LagsAgree, Retained, End, Last
<1>9. GoodConsumer(consumer)'
  <2>1. consumer \in ConsumerType /\ Order[consumer.group] \in CoreGroups
    BY GroupType DEF IInv, GoodConsumer
  <2>2. QED  BY <1>2, <1>7, <2>1 DEF IInv, GoodConsumer, Below, Retained
<1>10. QED  BY <1>2, <1>4, <1>5, <1>6, <1>8, <1>9 DEF IInv

LEMMA Idle == GoodRecovery(NoRecovery) /\ (IInv => GoodConsumer(NoConsumer))
<1>1. NoRecovery.step = "idle" /\ NoConsumer.step = "idle" /\ NoConsumer.end = 0 /\ NoConsumer.seen = {}
  BY DEF NoRecovery, NoConsumer
<1>2. IInv => NoConsumer.end <= sequence  BY <1>1 DEF IInv, Log
<1>3. QED  BY <1>1, <1>2, NothingToDo DEF GoodRecovery, GoodConsumer

LEMMA VerifyInv == IInv /\ Verify => IInv'
<1> SUFFICES ASSUME IInv, Verify PROVE IInv'  OBVIOUS
<1>1. GoodRecovery(recovery)'
  <2>1. recovery' = NoRecovery /\ NoRecovery.step = "idle"  BY DEF Verify, NoRecovery
  <2>2. QED  BY <2>1, NothingToDo DEF GoodRecovery
<1>2. QED  BY <1>1, RecoveryMoves DEF Verify, tables, IInv, Tables

LEMMA DieInv == IInv /\ Die => IInv'
<1> SUFFICES ASSUME IInv, Die PROVE IInv'  OBVIOUS
<1>1. UNCHANGED <<log, sequence, offset, partitions, sink, csv, audit>>  BY DEF Die, tables
<1>2. producer' \in ProducerType  BY NothingToDo DEF Die, IInv
<1>3. GoodConsumer(consumer)'
  <2>1. CASE consumer' = consumer  BY <1>1, <2>1, ConsumerRests
  <2>2. CASE consumer' = NoConsumer
    <3>1. consumer'.step = "idle" /\ consumer'.end = 0 /\ consumer'.seen = {}  BY <2>2 DEF NoConsumer
    <3>2. sequence' \in Nat  BY <1>1 DEF IInv, Log
    <3>3. QED  BY <2>2, <3>1, <3>2, NothingToDo DEF GoodConsumer
  <2>3. QED  BY <2>1, <2>2 DEF Die
<1>4. GoodRecovery(recovery)'
  <2>1. CASE recovery' = recovery  BY <1>1, <2>1, RecoveryRests
  <2>2. CASE recovery' = NoRecovery
    <3>1. recovery'.step = "idle"  BY <2>2 DEF NoRecovery
    <3>2. QED  BY <2>2, <3>1, NothingToDo DEF GoodRecovery
  <2>3. QED  BY <2>1, <2>2 DEF Die
<1>5. QED  BY <1>1, <1>2, <1>3, <1>4, Kept DEF IInv, Tables

LEMMA NextInv == IInv /\ [Next]_vars => IInv'
<1> SUFFICES ASSUME IInv, [Next]_vars PROVE IInv'  OBVIOUS
<1>1. CASE UNCHANGED vars
  <2>1. UNCHANGED <<log, sequence, offset, partitions, sink, csv, audit, producer, consumer, recovery>>
    BY <1>1 DEF vars, tables
  <2>2. QED  BY <2>1, Kept, ConsumerRests, RecoveryRests DEF IInv, Tables
<1>2. CASE Next
  BY <1>2, BeginResetInv, ClearInv, BeginProduceInv, ProduceInv, BeginConsumersInv, ResetConsumerInv,
     ReadLogInv, WriteSinkInv, CommitGroupInv, BeginRecoveryInv, ReadHandledInv, ReadCommittedInv,
     BeforeCrashInv, RedeliverInv, FinishRecoveryInv, VerifyInv, DieInv DEF Next
<1>3. QED  BY <1>1, <1>2

LEMMA Invariance == Spec => []IInv
BY InitInv, NextInv, PTL DEF Spec

-----------------------------------------------------------------------------
(* What follows.                                                            *)

\* The tables hold what they may hold (TypeOK, a part of the run's BatchTypeOK): numbers of
\* the log are those the sequence gave out, each once, and no offset is ahead of it.
THEOREM TypeCorrect == Spec => []TypeOK
<1>1. IInv => TypeOK  BY DEF IInv, Log, Tables, TypeOK, Groups
<1>2. QED  BY <1>1, Invariance, PTL

\* A core group's offset covers only events its sink has, whatever dies and whenever the log
\* is cleared (consumers.py, produce_events.py).
THEOREM OffsetsAreHonest == Spec => []OffsetsHonest
<1>1. IInv => OffsetsHonest  BY DEF IInv
<1>2. QED  BY <1>1, Invariance, PTL

\* The lag by group and the lag by partition agree (consumers.py: _commit_group).
THEOREM BothLagsAgree == Spec => []LagsAgree
<1>1. IInv => LagsAgree  BY DEF IInv
<1>2. QED  BY <1>1, Invariance, PTL

\* A reconciliation that passes over a log that is not empty vouches for every core sink,
\* the two it compares no contents of too (reconcile.py).
THEOREM ReconciliationVouches == Spec => []ReconciledSinks
<1>1. ASSUME IInv, Reconciled, Retained # {}, NEW g \in CoreGroups  PROVE sink[g] = Handles(g)
  <2>1. Retained = Events /\ Handles(g) \subseteq Events  BY <1>1, EventsAre DEF IInv, Log
  <2>2. g \in DOMAIN offset /\ End <= offset[g]  BY <1>1 DEF Reconciled
  <2>3. \A e \in Retained : log[e] <= End /\ End \in Nat /\ log[e] \in Nat  BY <1>1, EndIs DEF IInv, Log
  <2>4. offset[g] \in Nat  BY <1>1, <2>2 DEF IInv, Tables, Log
  <2>5. \A e \in Retained : log[e] <= offset[g]  BY <2>2, <2>3, <2>4
  <2>6. Handles(g) \subseteq Behind(g)  BY <2>1, <2>5 DEF Behind
  <2>7. Behind(g) \subseteq sink[g]  BY <1>1, <2>2 DEF IInv, OffsetsHonest
  <2>8. sink[g] \subseteq Handles(g)  BY <1>1 DEF IInv, Tables
  <2>9. QED  BY <2>6, <2>7, <2>8
<1>2. IInv => ReconciledSinks  BY <1>1 DEF ReconciledSinks
<1>3. QED  BY <1>2, Invariance, PTL

\* The failure demonstration reports that no event was lost only if its sink has them all,
\* though the log is cleared and filled again between its statements (failure_recovery.py).
THEOREM ReportsAreLossless == Spec => ReportedLossless
<1> DEFINE R == reports \in Nat
<1>1. ASSUME [Next]_vars  PROVE Verify \/ UNCHANGED reports
  BY <1>1 DEF Next, vars, BeginReset, Clear, BeginProduce, Produce, BeginConsumers, ResetConsumer, ReadLog,
     WriteSink, CommitGroup, BeginRecovery, ReadHandled, ReadCommitted, BeforeCrash, Redeliver,
     FinishRecovery, Die
<1>2. Init => R  BY DEF Init
<1>3. R /\ [Next]_vars => R'
  <2>1. R /\ Verify => R'  BY DEF Verify
  <2>2. QED  BY <1>1, <2>1
<1>4. ASSUME IInv, R, [Next]_vars, reports' > reports  PROVE audit' = Events
  <2>1. ~ UNCHANGED reports  BY <1>4
  <2>2. Verify  BY <1>1, <1>4, <2>1
  <2>3. Passes /\ recovery.step = "verify" /\ audit' = audit  BY <2>1, <2>2 DEF Verify, tables
  <2>4. audit \subseteq Events /\ audit = recovery.seen /\ Cardinality(audit) = Cardinality(Events)
    BY <1>4, <2>3 DEF IInv, Tables, GoodRecovery, Passes
  <2>5. audit = Events  BY <2>4, EventsAre, FS_Subset
  <2>6. QED  BY <2>3, <2>5
<1>5. IInv /\ R /\ [Next]_vars => [reports' > reports => audit' = Events]_vars  BY <1>4
<1>6. QED  BY <1>2, <1>3, <1>5, Invariance, PTL DEF Spec, ReportedLossless

-----------------------------------------------------------------------------
(* The import and the migrations.  Their invariant is DatabaseInv: an id   *)
(* has been imported exactly when it is an id of the files, since the       *)
(* sequence is above all of them once the applications write; and the       *)
(* schema tells which columns say so.                                       *)
\* What a row and the schema may be.
Names == {"imported", "staff", "customer"}
StatusNames == {"pending", "processing", "completed", "ready_shipped", "delivered", "cancelled", "refunded"}
Column == [made : {"import", "staff", "customer"}, creator : BOOLEAN, account : BOOLEAN,
           of : (Database!Business \X Nat) \cup {None}, origin : Names \cup {None}, status : StatusNames \cup {None}]
AllKeys == (Database!Business \cup {"notification_outbox"}) \X Nat

SchemaOK ==
    /\ schema \in [users : BOOLEAN, creatorFk : {"none", "set_null", "restrict"}, views : {"none", "creator", "origin"},
                   portal : BOOLEAN, trigger : {None, "completed", "ready_shipped"}, outbox : {"none", "v3", "v4"},
                   statuses : {"none", "old", "new"}, audit : BOOLEAN]
    /\ schema.portal => schema.users
    /\ schema.views = IF schema.portal THEN "origin" ELSE IF schema.users THEN "creator" ELSE "none"
    /\ schema.statuses = "none" <=> ~schema.portal
    /\ schema.trigger = CASE schema.statuses = "none" -> None [] schema.statuses = "old" -> "completed"
                          [] OTHER -> "ready_shipped"
    /\ schema.outbox # "none" => schema.portal
    /\ schema.statuses = "new" <=> schema.outbox = "v4"

\* The rows of the files are those that were imported, and the applications never get
\* an id of theirs.
RowsOK ==
    /\ Database!Keys \subseteq AllKeys /\ \A k \in Database!Keys : rows[k] \in Column
    /\ nextId \in Nat
    /\ schema.users => \A k \in FileRows : k[2] < nextId
    /\ Database!SequenceAhead
    /\ ~schema.users => Database!Keys \subseteq FileRows
    /\ \A k \in Database!Keys : rows[k].made = "import" <=> k \in FileRows

ParentOK(k) ==
    CASE k[1] = "order_items"        -> rows[k].of \in Database!In("orders")
      [] k[1] = "order_item_refunds" -> rows[k].of \in Database!In("order_items")
      [] k[1] \in {"products", "orders"} -> rows[k].of = None
      [] OTHER -> TRUE

\* Who made a row can be told from its columns: in the portal's schema from its origin,
\* before from its creator.
OriginOK(k) ==
    IF schema.portal THEN rows[k].origin # None /\ (rows[k].origin = "imported" <=> rows[k].made = "import")
    ELSE /\ rows[k].origin = None /\ rows[k].status = None /\ ~rows[k].account
         /\ rows[k].creator <=> rows[k].made = "staff"
         /\ rows[k].made # "customer"

Accepted(k) == k[1] \in Database!Business => Database!Accepts(k[1], rows[k])
Original(k) == k \in FileRows => rows[k].of = Parent(k)
ContentOK == \A k \in Database!Keys : ParentOK(k) /\ OriginOK(k) /\ Accepted(k) /\ Original(k)

\* The importer has copied the tables before its next one.
ImportOK ==
    /\ importer \in [step : {"idle", "truncate", "copy"}, table : 1..4]
    /\ importer.step = "truncate" => importer.table = 1
    /\ importer.step = "copy" => \A k \in FileRows : \A i \in 1..(importer.table - 1) : k[1] = Database!Tables[i] => k \in Database!Keys

\* A script runs on a database that is filled, and run_migration.py on one without accounts.
Documents == [support : Nat, migrated : BOOLEAN]
Script0(s) ==
    /\ s \in [script : 0..3, step : {"idle", "prompt", "save", "replace", "execute"}, document : Documents \cup {None}]
    /\ s.step = "idle" <=> s.script = 0
    /\ s.step # "idle" => importer.step = "idle" /\ FileRows \subseteq Database!Keys
    /\ s.script = 1 => ~schema.users
    /\ s.script = 1 /\ s.step = "execute" => evidence[1] # None
    /\ s.step \in {"save", "replace"} => /\ s.script \in 1..2 /\ s.document # None
                                         /\ s.script = 2 => ~s.document.migrated
    /\ s.script = 2 /\ s.step = "execute" => evidence[2] # None
RunnersOK ==
    /\ runner = [r \in Runners |-> runner[r]]
    /\ \A r \in Runners : Script0(runner[r])
    /\ \A r, q \in Runners : runner[r].script = 1 /\ runner[q].script = 1 => r = q

\* A schema that was migrated has its snapshot, taken before.
EvidenceOK ==
    /\ evidence \in [1..2 -> Documents \cup {None}] /\ support \in Nat
    /\ schema.users => evidence[1] # None
    /\ schema.portal => evidence[2] # None
    /\ evidence[2] # None => ~evidence[2].migrated

DataOK == SchemaOK /\ RowsOK /\ ContentOK
DatabaseInv == DataOK /\ ImportOK /\ RunnersOK /\ EvidenceOK

Given == Database!SourceAssumption /\ Database!BoundsAssumption /\ Database!NoneAssumption /\ ~Overlap

-----------------------------------------------------------------------------

LEMMA BusinessIs ==
    /\ Database!Business = {"products", "orders", "order_items", "order_item_refunds"}
    /\ Database!Tables[1] = "products" /\ Database!Tables[2] = "orders" /\ Database!Tables[3] = "order_items" /\ Database!Tables[4] = "order_item_refunds"
    /\ Len(Database!Tables) = 4
<1>1. Database!Tables = <<"products", "orders", "order_items", "order_item_refunds">>  BY DEF Database!Tables
<1>2. DOMAIN Database!Tables = 1..4 /\ 1..4 = {1, 2, 3, 4}  BY <1>1
<1>3. Database!Business = {Database!Tables[i] : i \in {1, 2, 3, 4}}  BY <1>2 DEF Database!Business
<1>4. QED  BY <1>1, <1>3

LEMMA SameSize == \A S : Database!Cardinality(S) = Cardinality(S)
BY DEF Database!Cardinality, Cardinality

LEMMA NoneIs ==
    ASSUME Given
    PROVE  None \notin Names /\ None \notin StatusNames /\ None \notin Documents
BY DEF Given, Database!NoneAssumption, Names, StatusNames, Documents

LEMMA SourceIs ==
    ASSUME Given
    PROVE  /\ IsFiniteSet(FileRows) /\ FileRows \subseteq Database!Business \X Nat /\ FileRows \subseteq AllKeys
           /\ \A k \in FileRows : /\ k[1] \in Database!Business /\ k[2] \in Nat
                                  /\ k[1] = "order_items" => Parent(k) \in FileRows /\ Parent(k)[1] = "orders"
                                  /\ k[1] = "order_item_refunds" =>
                                        Parent(k) \in FileRows /\ Parent(k)[1] = "order_items"
                                  /\ k[1] \in {"products", "orders"} => Parent(k) = None
                                  /\ Parent(k) \in (Database!Business \X Nat) \cup {None}
<1>1. IsFiniteSet(FileRows) /\ FileRows \subseteq Database!Business \X Nat /\ FileRows \subseteq AllKeys
  BY DEF Given, Database!SourceAssumption, Database!IsFiniteSet, IsFiniteSet, AllKeys
<1>2. ASSUME NEW k \in FileRows
      PROVE  /\ k[1] \in Database!Business /\ k[2] \in Nat
             /\ k[1] = "order_items" => Parent(k) \in FileRows /\ Parent(k)[1] = "orders"
             /\ k[1] = "order_item_refunds" => Parent(k) \in FileRows /\ Parent(k)[1] = "order_items"
             /\ k[1] \in {"products", "orders"} => Parent(k) = None
  <2>1. CASE k[1] = "order_items"  BY <1>1, <2>1 DEF Given, Database!SourceAssumption
  <2>2. CASE k[1] = "order_item_refunds"  BY <1>1, <2>2 DEF Given, Database!SourceAssumption
  <2>3. CASE k[1] \in {"products", "orders"}  BY <1>1, <2>3 DEF Given, Database!SourceAssumption
  <2>4. QED  BY <1>1, <2>1, <2>2, <2>3, BusinessIs
<1>3. QED  BY <1>1, <1>2, BusinessIs

\* A step that touches neither rows nor schema.
LEMMA SameData ==
    ASSUME DataOK, UNCHANGED <<schema, rows, nextId>>
    PROVE  DataOK'
<1>1. SchemaOK'  BY DEF DataOK, SchemaOK
<1>2. RowsOK'  BY DEF DataOK, RowsOK, Database!SequenceAhead, Database!Records, Database!Keys
<1>3. ASSUME NEW k
      PROVE  /\ ParentOK(k)' <=> ParentOK(k)
             /\ OriginOK(k)' <=> OriginOK(k)
             /\ Accepted(k)' <=> Accepted(k)
             /\ Original(k)' <=> Original(k)
  <2>1. ParentOK(k)' <=> ParentOK(k)  BY DEF ParentOK, Database!In, Database!Keys
  <2>2. OriginOK(k)' <=> OriginOK(k)  BY DEF OriginOK
  <2>3. Accepted(k)' <=> Accepted(k)  BY DEF Accepted, Database!Accepts
  <2>4. Original(k)' <=> Original(k)  BY DEF Original
  <2>5. QED  BY <2>1, <2>2, <2>3, <2>4
<1>4. Database!Keys' = Database!Keys  BY DEF Database!Keys
<1>5. ContentOK'  BY <1>3, <1>4 DEF DataOK, ContentOK
<1>6. QED  BY <1>1, <1>2, <1>5 DEF DataOK

LEMMA WithIs ==
    ASSUME NEW new, rows' = Database!With(new)
    PROVE  /\ Database!Keys' = Database!Keys \cup DOMAIN new
           /\ \A k \in Database!Keys : rows'[k] = rows[k]
           /\ \A k \in DOMAIN new : k \notin Database!Keys => rows'[k] = new[k]
BY DEF Database!With, Database!Keys

\* What a row says stays right while it and its parent stay.
LEMMA RowStays ==
    ASSUME DataOK, schema' = schema, NEW k \in Database!Keys, k \in Database!Keys', rows'[k] = rows[k],
           k[1] \in {"order_items", "order_item_refunds"} =>
               rows[k].of \in Database!Keys' /\ rows'[rows[k].of] = rows[rows[k].of]
    PROVE  ParentOK(k)' /\ OriginOK(k)' /\ Accepted(k)' /\ Original(k)'
<1>1. ParentOK(k) /\ OriginOK(k) /\ Accepted(k) /\ Original(k)  BY DEF DataOK, ContentOK
<1>2. ParentOK(k)'  BY <1>1 DEF ParentOK, Database!In, Database!Keys
<1>3. OriginOK(k)'  BY <1>1 DEF OriginOK
<1>4. Accepted(k)'  BY <1>1 DEF Accepted, Database!Accepts
<1>5. Original(k)'  BY <1>1 DEF Original
<1>6. QED  BY <1>2, <1>3, <1>4, <1>5

\* The importer has what it had, and the scripts where they were.
LEMMA OthersStay ==
    ASSUME DatabaseInv, UNCHANGED <<schema, support, evidence, runner, importer>>, Database!Keys \cap FileRows \subseteq Database!Keys'
    PROVE  (ImportOK /\ RunnersOK /\ EvidenceOK)'
<1>1. ImportOK'  BY DEF DatabaseInv, ImportOK
<1>2. \A r \in Runners : Script0(runner[r])'  BY DEF DatabaseInv, RunnersOK, Script0
<1>3. RunnersOK'  BY <1>2 DEF DatabaseInv, RunnersOK
<1>4. EvidenceOK'  BY DEF DatabaseInv, EvidenceOK
<1>5. QED  BY <1>1, <1>3, <1>4

LEMMA Inserted ==
    ASSUME Given, DatabaseInv, NEW new, Database!InsertRows(new), nextId' \in Nat, nextId <= nextId',
           \A k \in DOMAIN new : /\ k \in AllKeys /\ new[k] \in Column /\ new[k].made # "import"
                                 /\ k[1] \in Database!Business => k[2] >= nextId /\ k[2] < nextId'
                                 /\ ParentOK(k)' /\ OriginOK(k)' /\ Accepted(k)'
    PROVE  DatabaseInv'
<1>1. /\ schema.users /\ rows' = Database!With(new) /\ UNCHANGED <<schema, support, evidence, runner, importer>>
      /\ \A k \in DOMAIN new : k \notin Database!Keys
  BY DEF Database!InsertRows, Database!Cardinality, Cardinality, Database!outside
<1>2. /\ Database!Keys' = Database!Keys \cup DOMAIN new
      /\ \A k \in Database!Keys : rows'[k] = rows[k]
      /\ \A k \in DOMAIN new : rows'[k] = new[k]
  BY <1>1, WithIs
<1>3. DataOK /\ SchemaOK /\ RowsOK /\ ContentOK  BY DEF DatabaseInv, DataOK
<1>4. SchemaOK'  BY <1>1, <1>3 DEF SchemaOK
<1>5. \A k \in DOMAIN new : k \notin FileRows
  <2>1. \A k \in FileRows : k[1] \in Database!Business /\ k[2] \in Nat /\ k[2] < nextId
    BY <1>1, <1>3, SourceIs DEF RowsOK
  <2>2. nextId \in Nat  BY <1>3 DEF RowsOK
  <2>3. QED  BY <2>1, <2>2
<1>6. RowsOK'
  <2>1. Database!Keys' \subseteq AllKeys /\ \A k \in Database!Keys' : rows'[k] \in Column
    BY <1>2, <1>3 DEF RowsOK
  <2>2. nextId' \in Nat /\ \A k \in FileRows : k[2] < nextId'
    BY <1>1, <1>3, SourceIs DEF RowsOK
  <2>3. \A k \in Database!Keys' : rows'[k].made = "import" <=> k \in FileRows  BY <1>2, <1>3, <1>5 DEF RowsOK
  <2>4. \A k \in Database!Keys' : k[1] \in Database!Business => k[2] < nextId'
    <3>1. \A k \in Database!Keys : k[1] \in Database!Business => k[2] < nextId /\ k[2] \in Nat
      BY <1>1, <1>3 DEF RowsOK, Database!SequenceAhead, Database!Records, AllKeys
    <3>2. nextId \in Nat  BY <1>3 DEF RowsOK
    <3>3. QED  BY <1>2, <3>1, <3>2
  <2>5. Database!SequenceAhead'  BY <2>4 DEF Database!SequenceAhead, Database!Records
  <2>6. QED  BY <1>1, <2>1, <2>2, <2>3, <2>5 DEF RowsOK
<1>7. ASSUME NEW k \in Database!Keys  PROVE ParentOK(k)' /\ OriginOK(k)' /\ Accepted(k)' /\ Original(k)'
  <2>1. k[1] \in {"order_items", "order_item_refunds"} => rows[k].of \in Database!Keys
    BY <1>3 DEF ContentOK, ParentOK, Database!In
  <2>2. QED  BY <1>1, <1>2, <1>3, <2>1, RowStays
<1>8. \A k \in DOMAIN new : Original(k)'  BY <1>5 DEF Original
<1>9. ContentOK'  BY <1>2, <1>7, <1>8 DEF ContentOK
<1>10. (ImportOK /\ RunnersOK /\ EvidenceOK)'  BY <1>1, <1>2, OthersStay
<1>11. QED  BY <1>4, <1>6, <1>9, <1>10 DEF DatabaseInv, DataOK

\* Rows go that no row refers to which stays.
LEMMA Deleted ==
    ASSUME Given, DatabaseInv, NEW gone, gone \subseteq Database!Keys, gone \cap FileRows = {},
           rows' = [j \in Database!Keys \ gone |-> rows[j]],
           \A j \in Database!Keys \ gone : j[1] \in {"order_items", "order_item_refunds"} => rows[j].of \notin gone,
           schema.users, UNCHANGED <<schema, nextId, support, evidence, runner, importer>>
    PROVE  DatabaseInv'
<1>1. Database!Keys' = Database!Keys \ gone /\ \A k \in Database!Keys' : rows'[k] = rows[k]
  BY DEF Database!Keys
<1>2. DataOK /\ SchemaOK /\ RowsOK /\ ContentOK  BY DEF DatabaseInv, DataOK
<1>3. SchemaOK'  BY <1>2 DEF SchemaOK
<1>4. RowsOK'
  <2>1. Database!SequenceAhead'  BY <1>1, <1>2 DEF RowsOK, Database!SequenceAhead, Database!Records
  <2>2. QED  BY <1>1, <1>2, <2>1 DEF RowsOK
<1>5. ASSUME NEW k \in Database!Keys'  PROVE ParentOK(k)' /\ OriginOK(k)' /\ Accepted(k)' /\ Original(k)'
  <2>1. k[1] \in {"order_items", "order_item_refunds"} => rows[k].of \in Database!Keys
    BY <1>1, <1>2 DEF ContentOK, ParentOK, Database!In
  <2>2. k[1] \in {"order_items", "order_item_refunds"} => rows[k].of \in Database!Keys'  BY <1>1, <2>1
  <2>3. QED  BY <1>1, <1>2, <2>2, RowStays
<1>6. ContentOK'  BY <1>5 DEF ContentOK
<1>7. (ImportOK /\ RunnersOK /\ EvidenceOK)'  BY <1>1, OthersStay
<1>8. QED  BY <1>3, <1>4, <1>6, <1>7 DEF DatabaseInv, DataOK

\* A row with the next id that refers to one that is there.
LEMMA InsertedOne ==
    ASSUME Given, DatabaseInv, NEW table \in Database!Business, NEW of \in Database!Parents(table), NEW row0 \in Column,
           row0.made = "staff", row0.creator, row0.of = of, Database!Accepts(table, row0),
           IF schema.portal THEN row0.origin # None ELSE row0.origin = None /\ row0.status = None /\ ~row0.account,
           Database!InsertRows([k \in {<<table, nextId>>} |-> row0])
    PROVE  DatabaseInv'
<1> DEFINE new == [k \in {<<table, nextId>>} |-> row0]
<1>1. PICK key : key = <<table, nextId>>  OBVIOUS
<1>2. /\ schema.users /\ rows' = Database!With(new) /\ schema' = schema /\ key \notin Database!Keys
      /\ nextId' = nextId + Cardinality({k \in {key} : k[1] \in Database!Business})
  BY <1>1, SameSize DEF Database!InsertRows, Database!outside
<1>3. key[1] = table /\ key[2] = nextId /\ nextId \in Nat  BY <1>1 DEF DatabaseInv, DataOK, RowsOK
<1>4. {k \in {key} : k[1] \in Database!Business} = {key}  BY <1>3
<1>5. nextId' = nextId + 1  BY <1>2, <1>4, FS_Singleton
<1>6. Database!Keys' = Database!Keys \cup {key} /\ (\A k \in Database!Keys : rows'[k] = rows[k]) /\ rows'[key] = row0
  BY <1>1, <1>2, WithIs
<1>7. ParentOK(key)'
  <2>1. CASE table = "order_items"
    BY <1>3, <1>6, <2>1 DEF ParentOK, Database!Parents, Database!In, Database!Keys
  <2>2. CASE table = "order_item_refunds"
    BY <1>3, <1>6, <2>2 DEF ParentOK, Database!Parents, Database!In, Database!Keys
  <2>3. CASE table \in {"products", "orders"}  BY <1>3, <1>6, <2>3 DEF ParentOK, Database!Parents
  <2>4. QED  BY <2>1, <2>2, <2>3, BusinessIs
<1>8. OriginOK(key)'
  <2>1. schema.portal => row0.origin # "imported"  BY DEF Database!Accepts
  <2>2. QED  BY <1>2, <1>6, <2>1 DEF OriginOK
<1>9. Accepted(key)'
  <2>1. table = "order_items" => rows'[of].origin = rows[of].origin
    BY <1>6 DEF Database!Parents, Database!In, Database!Keys
  <2>2. QED  BY <1>2, <1>3, <1>6, <2>1 DEF Accepted, Database!Accepts
<1>10. key \in AllKeys  BY <1>1, <1>3 DEF AllKeys
<1>11. DOMAIN new = {key} /\ new[key] = row0  BY <1>1
<1>12. Database!InsertRows(new)  OBVIOUS
<1> HIDE DEF new
<1>13. nextId' \in Nat /\ nextId <= nextId' /\ key[2] >= nextId /\ key[2] < nextId'  BY <1>3, <1>5
<1>14. QED  BY <1>7, <1>8, <1>9, <1>10, <1>11, <1>12, <1>13, Inserted

\* A row of the staff application, before the trigger has seen it.
LEMMA DraftIs ==
    ASSUME NEW of \in (Database!Business \X Nat) \cup {None}
    PROVE  /\ Database!Draft("staff", of) \in Column
           /\ Database!Draft("staff", of) = [made |-> "staff", creator |-> TRUE, account |-> FALSE, of |-> of, origin |-> None,
                                    status |-> None]
           /\ Database!Draft("staff", of).made = "staff" /\ Database!Draft("staff", of).creator /\ ~Database!Draft("staff", of).account
           /\ Database!Draft("staff", of).of = of /\ Database!Draft("staff", of).origin = None /\ Database!Draft("staff", of).status = None
<1>1. PICK d : d = [made |-> "staff", creator |-> TRUE, account |-> FALSE, of |-> of, origin |-> None, status |-> None]
  OBVIOUS
<1>2. Database!Draft("staff", of) = d  BY <1>1 DEF Database!Draft
<1>3. d \in Column  BY <1>1 DEF Column, Names, StatusNames
<1>4. /\ d.made = "staff" /\ d.creator /\ ~d.account
      /\ d.of = of /\ d.origin = None /\ d.status = None
  BY <1>1
<1>5. QED  BY <1>1, <1>2, <1>3, <1>4, Zenon

\* The parents of new rows are keys.
LEMMA ParentsAre ==
    ASSUME DatabaseInv, NEW table \in Database!Business, NEW of \in Database!Parents(table)
    PROVE  of \in (Database!Business \X Nat) \cup {None}
<1>1. CASE table = "order_items"
  BY <1>1, BusinessIs DEF Database!Parents, Database!In, DatabaseInv, DataOK, RowsOK, AllKeys
<1>2. CASE table = "order_item_refunds"
  BY <1>2, BusinessIs DEF Database!Parents, Database!In, DatabaseInv, DataOK, RowsOK, AllKeys
<1>3. CASE table \in {"products", "orders"}  BY <1>3 DEF Database!Parents
<1>4. QED  BY <1>1, <1>2, <1>3, BusinessIs

LEMMA LegacyInserted ==
    ASSUME Given, DatabaseInv, NEW table \in Database!Business, NEW of \in Database!Parents(table), Database!LegacyInsert(table, of)
    PROVE  DatabaseInv'
<1>1. PICK draft : draft = Database!Draft("staff", of)  OBVIOUS
<1>2. PICK row1 : row1 = Database!Classified(table, draft)  OBVIOUS
<1>3. /\ draft \in Column /\ draft.made = "staff" /\ draft.creator /\ ~draft.account
      /\ draft.of = of /\ draft.origin = None /\ draft.status = None
  BY <1>1, ParentsAre, DraftIs
<1>4. PICK origin : origin = IF table = "order_items" /\ of \in Database!Keys THEN rows[of].origin ELSE "staff"  OBVIOUS
<1>5. origin \in Names \cup {None} /\ (schema.portal => origin # None)
  <2>1. \A k \in Database!Keys : rows[k].origin \in Names \cup {None} /\ (schema.portal => rows[k].origin # None)
    BY DEF DatabaseInv, DataOK, RowsOK, ContentOK, OriginOK, Column
  <2>2. QED  BY <1>4, <2>1, NoneIs DEF Names
<1>6. PICK status : status = IF origin = "imported" THEN None ELSE IF origin = "staff" THEN schema.trigger ELSE None
  OBVIOUS
<1>7. status \in StatusNames \cup {None}  BY <1>6 DEF DatabaseInv, DataOK, SchemaOK, StatusNames
<1>8. PICK status2 : status2 = IF table = "orders" THEN status ELSE None  OBVIOUS
<1>9. row1 = IF ~schema.portal THEN draft ELSE [draft EXCEPT !.origin = origin, !.status = status2]
  BY <1>2, <1>3, <1>4, <1>6, <1>8 DEF Database!Classified
<1>10. /\ row1 \in Column /\ row1.made = "staff" /\ row1.creator /\ row1.of = of
       /\ IF schema.portal THEN row1.origin # None ELSE row1.origin = None /\ row1.status = None /\ ~row1.account
  <2>1. CASE ~schema.portal  BY <1>3, <1>9, <2>1
  <2>2. CASE schema.portal
    <3>1. row1 = [draft EXCEPT !.origin = origin, !.status = status2]  BY <1>9, <2>2
    <3>2. status2 \in StatusNames \cup {None}  BY <1>7, <1>8
    <3>3. /\ row1 \in Column /\ row1.made = draft.made /\ row1.creator = draft.creator /\ row1.of = draft.of
          /\ row1.origin = origin
      BY <1>3, <1>5, <3>1, <3>2 DEF Column
    <3>4. QED  BY <1>3, <1>5, <2>2, <3>3
  <2>3. QED  BY <2>1, <2>2
<1>11. Database!Accepts(table, row1) /\ Database!InsertRows([k \in {<<table, nextId>>} |-> row1])
  BY <1>1, <1>2 DEF Database!LegacyInsert
<1>12. QED  BY <1>10, <1>11, InsertedOne

LEMMA StaffInserted ==
    ASSUME Given, DatabaseInv, NEW table \in Database!Business, NEW of \in Database!Parents(table), Database!StaffInsert(table, of)
    PROVE  DatabaseInv'
<1>1. PICK status : status = IF table = "orders" THEN "ready_shipped" ELSE None  OBVIOUS
<1>2. PICK draft : draft = Database!Draft("staff", of)  OBVIOUS
<1>3. /\ draft \in Column /\ draft.made = "staff" /\ draft.creator /\ draft.of = of
  BY <1>2, ParentsAre, DraftIs
<1>4. PICK row1 : row1 = [draft EXCEPT !.origin = "staff", !.status = status]  OBVIOUS
<1>5. status \in StatusNames \cup {None} /\ "staff" \in Names  BY <1>1 DEF StatusNames, Names
<1>6. /\ row1 \in Column /\ row1.made = draft.made /\ row1.creator = draft.creator /\ row1.of = draft.of
      /\ row1.origin = "staff"
  BY ONLY <1>3, <1>4, <1>5 DEF Column
<1>7. schema.portal /\ Database!Accepts(table, row1) /\ Database!InsertRows([k \in {<<table, nextId>>} |-> row1])
  BY <1>1, <1>2, <1>4 DEF Database!StaffInsert
<1>8. row1.origin # None  BY <1>6, NoneIs DEF Names
<1>9. QED  BY <1>3, <1>6, <1>7, <1>8, InsertedOne

LEMMA CheckedOut == ASSUME Given, DatabaseInv, Database!Checkout PROVE DatabaseInv'
<1>1. PICK ko, ki, kn : /\ ko = <<"orders", nextId>> /\ ki = <<"order_items", nextId + 1>>
                        /\ kn = <<"notification_outbox", nextId>>
  OBVIOUS
<1>2. nextId \in Nat  BY DEF DatabaseInv, DataOK, RowsOK
<1>3. /\ ko[1] = "orders" /\ ko[2] = nextId /\ ki[1] = "order_items" /\ ki[2] = nextId + 1
      /\ kn[1] = "notification_outbox" /\ kn[2] = nextId
  BY <1>1
<1>4. ko # ki /\ ko # kn /\ ki # kn  BY <1>3
<1> DEFINE base(of) == [Database!Draft("customer", of) EXCEPT !.origin = "customer"]
<1>5. PICK new : new = [k \in {ko, ki, kn} |->
               CASE k = ko -> [base(None) EXCEPT !.status = "pending"]
                 [] k = ki -> [base(ko) EXCEPT !.account = FALSE]
                 [] k = kn -> base(ko)]
  OBVIOUS
<1>6. schema.outbox # "none" /\ Database!InsertRows(new)  BY <1>1, <1>5 DEF Database!Checkout
<1>7. schema.portal  BY <1>6 DEF DatabaseInv, DataOK, SchemaOK
<1>8. ko \in Database!Business \X Nat /\ {ko, ki, kn} \subseteq AllKeys  BY <1>1, <1>2, BusinessIs DEF AllKeys
<1>9. ASSUME NEW of \in {None, ko}
      PROVE  \E d : /\ d = Database!Draft("customer", of) /\ d \in Column /\ d.made = "customer" /\ ~d.creator /\ d.account
                    /\ d.of = of /\ d.status = None
  <2>1. PICK d : d = [made |-> "customer", creator |-> FALSE, account |-> TRUE, of |-> of, origin |-> None, status |-> None]
    OBVIOUS
  <2>2. Database!Draft("customer", of) = d  BY <2>1 DEF Database!Draft
  <2>3. d \in Column  BY <1>8, <2>1 DEF Column, Names, StatusNames
  <2>4. d.made = "customer" /\ ~d.creator /\ d.account /\ d.of = of /\ d.status = None  BY <2>1
  <2>5. QED  BY <2>2, <2>3, <2>4
<1>10. /\ new[ko] \in Column /\ new[ko].made = "customer" /\ ~new[ko].creator /\ new[ko].account
       /\ new[ko].of = None /\ new[ko].origin = "customer" /\ new[ko].status = "pending"
  <2>1. PICK d : /\ d = Database!Draft("customer", None) /\ d \in Column /\ d.made = "customer" /\ ~d.creator /\ d.account
                 /\ d.of = None /\ d.status = None
    BY <1>9
  <2>2. PICK g : g = new[ko]  OBVIOUS
  <2>3. g = [[d EXCEPT !.origin = "customer"] EXCEPT !.status = "pending"]  BY <1>4, <1>5, <2>1, <2>2
  <2>4. "customer" \in Names /\ "pending" \in StatusNames  BY DEF Names, StatusNames
  <2>5. /\ g \in Column /\ g.made = d.made /\ g.creator = d.creator /\ g.of = d.of /\ g.origin = "customer"
        /\ g.account = d.account /\ g.status = "pending"
    BY ONLY <2>1, <2>3, <2>4 DEF Column
  <2>6. QED  BY <2>1, <2>2, <2>5
<1>11. /\ new[ki] \in Column /\ new[ki].made = "customer" /\ ~new[ki].creator /\ ~new[ki].account
       /\ new[ki].of = ko /\ new[ki].origin = "customer" /\ new[ki].status = None
  <2>1. PICK d : /\ d = Database!Draft("customer", ko) /\ d \in Column /\ d.made = "customer" /\ ~d.creator /\ d.account
                 /\ d.of = ko /\ d.status = None
    BY <1>9
  <2>2. PICK g : g = new[ki]  OBVIOUS
  <2>3. g = [[d EXCEPT !.origin = "customer"] EXCEPT !.account = FALSE]  BY <1>4, <1>5, <2>1, <2>2
  <2>4. "customer" \in Names /\ "pending" \in StatusNames  BY DEF Names, StatusNames
  <2>5. /\ g \in Column /\ g.made = d.made /\ g.creator = d.creator /\ g.of = d.of /\ g.origin = "customer"
        /\ g.account = FALSE /\ g.status = d.status
    BY ONLY <2>1, <2>3, <2>4 DEF Column
  <2>6. QED  BY <2>1, <2>2, <2>5
<1>12. /\ new[kn] \in Column /\ new[kn].made = "customer" /\ ~new[kn].creator /\ new[kn].account
       /\ new[kn].of = ko /\ new[kn].origin = "customer" /\ new[kn].status = None
  <2>1. PICK d : /\ d = Database!Draft("customer", ko) /\ d \in Column /\ d.made = "customer" /\ ~d.creator /\ d.account
                 /\ d.of = ko /\ d.status = None
    BY <1>9
  <2>2. PICK g : g = new[kn]  OBVIOUS
  <2>3. g = [d EXCEPT !.origin = "customer"]  BY <1>4, <1>5, <2>1, <2>2
  <2>4. "customer" \in Names /\ "pending" \in StatusNames  BY DEF Names, StatusNames
  <2>5. /\ g \in Column /\ g.made = d.made /\ g.creator = d.creator /\ g.of = d.of /\ g.origin = "customer"
        /\ g.account = d.account /\ g.status = d.status
    BY ONLY <2>1, <2>3, <2>4 DEF Column
  <2>6. QED  BY <2>1, <2>2, <2>5
<1> HIDE DEF base
<1>13. DOMAIN new = {ko, ki, kn}  BY <1>5
<1>14. /\ schema' = schema /\ rows' = Database!With(new) /\ (\A k \in DOMAIN new : k \notin Database!Keys)
       /\ nextId' = nextId + Cardinality({k \in DOMAIN new : k[1] \in Database!Business})
  BY <1>6, SameSize DEF Database!InsertRows, Database!outside
<1>15. /\ Database!Keys' = Database!Keys \cup {ko, ki, kn}
       /\ rows'[ko] = new[ko] /\ rows'[ki] = new[ki] /\ rows'[kn] = new[kn]
  BY <1>13, <1>14, WithIs
<1>16. nextId' = nextId + 2
  <2>1. {k \in DOMAIN new : k[1] \in Database!Business} = {ko} \cup {ki}  BY <1>3, <1>13, BusinessIs
  <2>2. IsFiniteSet({ko}) /\ Cardinality({ko}) = 1  BY FS_Singleton
  <2>3. Cardinality({ko} \cup {ki}) = 2  BY <1>4, <2>2, FS_AddElement
  <2>4. QED  BY <1>14, <2>1, <2>3
<1>17. ParentOK(ko)' /\ ParentOK(ki)' /\ ParentOK(kn)'
  <2>1. ParentOK(ko)'  BY <1>3, <1>10, <1>15 DEF ParentOK
  <2>2. ParentOK(ki)'  BY <1>3, <1>11, <1>15 DEF ParentOK, Database!In, Database!Keys
  <2>3. ParentOK(kn)'  BY <1>3 DEF ParentOK
  <2>4. QED  BY <2>1, <2>2, <2>3
<1>18. OriginOK(ko)' /\ OriginOK(ki)' /\ OriginOK(kn)'
  <2>1. "customer" # None  BY NoneIs DEF Names
  <2>2. QED  BY <1>7, <1>10, <1>11, <1>12, <1>14, <1>15, <2>1 DEF OriginOK
<1>19. Accepted(ko)' /\ Accepted(ki)' /\ Accepted(kn)'
  <2>1. schema.statuses \in {"old", "new"}  BY <1>7 DEF DatabaseInv, DataOK, SchemaOK
  <2>2. "pending" \in Database!Statuses(schema.statuses)  BY <2>1 DEF Database!Statuses
  <2>3. Accepted(ko)'  BY <1>3, <1>10, <1>14, <1>15, <2>2 DEF Accepted, Database!Accepts
  <2>4. Accepted(ki)'  BY <1>3, <1>10, <1>11, <1>14, <1>15 DEF Accepted, Database!Accepts
  <2>5. Accepted(kn)'  BY <1>3, BusinessIs DEF Accepted
  <2>6. QED  BY <2>3, <2>4, <2>5
<1>20. nextId' \in Nat /\ nextId <= nextId'  BY <1>2, <1>16
<1>21. \A k \in DOMAIN new : k[1] \in Database!Business => k[2] >= nextId /\ k[2] < nextId'
  BY <1>2, <1>3, <1>13, <1>16, BusinessIs
<1>22. \A k \in DOMAIN new : /\ k \in AllKeys /\ new[k] \in Column /\ new[k].made # "import"
                             /\ ParentOK(k)' /\ OriginOK(k)' /\ Accepted(k)'
  BY <1>8, <1>10, <1>11, <1>12, <1>13, <1>17, <1>18, <1>19
<1>23. QED  BY <1>6, <1>20, <1>21, <1>22, Inserted

\* What the applications delete has an origin of theirs; so have the items of a customer's order.
LEMMA NotImported ==
    ASSUME DatabaseInv, Given, NEW k \in Database!Keys, rows[k].origin \in {"staff", "customer"}
    PROVE  schema.portal /\ schema.users /\ k \notin FileRows
<1>1. schema.portal  BY NoneIs DEF DatabaseInv, DataOK, ContentOK, OriginOK, Names
<1>2. schema.users  BY <1>1 DEF DatabaseInv, DataOK, SchemaOK
<1>3. rows[k].made # "import"  BY <1>1 DEF DatabaseInv, DataOK, ContentOK, OriginOK
<1>4. QED  BY <1>1, <1>2, <1>3 DEF DatabaseInv, DataOK, RowsOK

LEMMA StaffDeleted ==
    ASSUME Given, DatabaseInv, NEW k \in Database!Keys, Database!StaffDelete(k)
    PROVE  DatabaseInv'
<1>1. k \notin FileRows /\ schema.users  BY NotImported DEF Database!StaffDelete
<1>2. \A j \in Database!Keys \ {k} : j[1] \in {"order_items", "order_item_refunds"} => rows[j].of \notin {k}
  BY DEF Database!StaffDelete
<1>3. rows' = [j \in Database!Keys \ {k} |-> rows[j]] /\ UNCHANGED <<schema, nextId, support, evidence, runner, importer>>
  BY DEF Database!StaffDelete, Database!outside
<1>4. {k} \subseteq Database!Keys /\ {k} \cap FileRows = {}  BY <1>1
<1>5. QED  BY <1>1, <1>2, <1>3, <1>4, Deleted

LEMMA ResetDone == ASSUME Given, DatabaseInv, NEW k \in Database!Keys, Database!ResetOrder(k) PROVE DatabaseInv'
<1>1. PICK items : items = {j \in Database!In("order_items") : rows[j].of = k}  OBVIOUS
<1>2. PICK its : its = items \cup {j \in Database!In("order_item_refunds") : rows[j].of \in items}  OBVIOUS
<1>2a. PICK gone : gone = {k} \cup {j \in its : rows[j].origin = "customer"}  OBVIOUS
<1>3. /\ k[1] = "orders" /\ rows[k].origin = "customer"
      /\ UNCHANGED <<schema, nextId, support, evidence, runner, importer>>
      /\ \/ UNCHANGED rows
         \/ rows' = [j \in Database!Keys \ gone |-> rows[j]] /\ \A j \in Database!Keys \ gone : rows[j].of \notin gone
  BY <1>1, <1>2, <1>2a DEF Database!ResetOrder
<1>4. CASE UNCHANGED rows
  <2>1. DataOK'  BY <1>3, <1>4, SameData DEF DatabaseInv
  <2>2. (ImportOK /\ RunnersOK /\ EvidenceOK)'  BY <1>3, <1>4, OthersStay DEF Database!Keys
  <2>3. QED  BY <2>1, <2>2 DEF DatabaseInv
<1>5. CASE rows' = [j \in Database!Keys \ gone |-> rows[j]] /\ \A j \in Database!Keys \ gone : rows[j].of \notin gone
  <2>1. k \notin FileRows /\ schema.portal /\ schema.users  BY <1>3, NotImported
  <2>2. ASSUME NEW j \in gone  PROVE j \in Database!Keys /\ j \notin FileRows
    <3>1. j \in Database!Keys /\ rows[j].origin = "customer"  BY <1>1, <1>2, <1>2a, <1>3, <2>2 DEF Database!In
    <3>2. QED  BY <2>1, <3>1, NotImported
  <2>4. gone \subseteq Database!Keys /\ gone \cap FileRows = {}  BY <2>2
  <2>5. QED  BY <1>3, <1>5, <2>1, <2>4, Deleted
<1>6. QED  BY <1>3, <1>4, <1>5

-----------------------------------------------------------------------------
(* The importer.                                                            *)

LEMMA ImportStarted == ASSUME DatabaseInv, Database!StartImport PROVE DatabaseInv'
<1>1. UNCHANGED <<schema, rows, nextId, support, evidence, runner>> /\ Database!NoScriptRuns
      /\ importer' = [step |-> "truncate", table |-> 1]
  BY DEF Database!StartImport, Database!data
<1>2. DataOK'  BY <1>1, SameData DEF DatabaseInv
<1>3. ImportOK'  BY <1>1 DEF ImportOK
<1>4. RunnersOK'
  <2>1. \A r \in Runners : Script0(runner[r])'
    BY <1>1 DEF DatabaseInv, RunnersOK, Script0, Database!NoScriptRuns
  <2>2. QED  BY <1>1, <2>1 DEF DatabaseInv, RunnersOK
<1>5. EvidenceOK'  BY <1>1 DEF DatabaseInv, EvidenceOK
<1>6. QED  BY <1>2, <1>3, <1>4, <1>5 DEF DatabaseInv

\* While the importer runs, no script does.
LEMMA NobodyRuns ==
    ASSUME DatabaseInv, importer.step # "idle", UNCHANGED <<schema, support, evidence, runner>>
    PROVE  RunnersOK' /\ EvidenceOK'
<1>1. \A r \in Runners : runner[r].step = "idle"  BY DEF DatabaseInv, RunnersOK, Script0
<1>2. \A r \in Runners : Script0(runner[r])'  BY <1>1 DEF DatabaseInv, RunnersOK, Script0
<1>3. RunnersOK'  BY <1>2 DEF DatabaseInv, RunnersOK
<1>4. EvidenceOK'  BY DEF DatabaseInv, EvidenceOK
<1>5. QED  BY <1>3, <1>4

LEMMA Truncated == ASSUME DatabaseInv, Database!Truncate PROVE DatabaseInv'
<1>1. /\ UNCHANGED <<schema, nextId, support, evidence, runner>> /\ importer.step = "truncate"
      /\ importer' = [importer EXCEPT !.step = "copy"] /\ rows' = <<>>
  BY DEF Database!Truncate, Database!outside
<1>2. Database!Keys' = {}  BY <1>1 DEF Database!Keys
<1>3. SchemaOK'  BY <1>1 DEF DatabaseInv, DataOK, SchemaOK
<1>4. RowsOK'  BY <1>1, <1>2 DEF DatabaseInv, DataOK, RowsOK, Database!SequenceAhead, Database!Records
<1>5. ContentOK'  BY <1>2 DEF ContentOK
<1>6. importer' \in [step : {"idle", "truncate", "copy"}, table : 1..4]
  BY <1>1 DEF DatabaseInv, ImportOK
<1>7. importer'.table = 1  BY <1>1 DEF DatabaseInv, ImportOK
<1>8. ImportOK'  BY <1>1, <1>6, <1>7 DEF ImportOK
<1>9. QED  BY <1>1, <1>3, <1>4, <1>5, <1>8, NobodyRuns DEF DatabaseInv, DataOK

LEMMA ImportStopped == ASSUME DatabaseInv, Database!StopImport PROVE DatabaseInv'
<1>1. UNCHANGED <<schema, rows, nextId, support, evidence, runner>> /\ importer.step # "idle" /\ importer' = Database!NotImporting
  BY DEF Database!StopImport, Database!outside, Database!data
<1>2. DataOK'  BY <1>1, SameData DEF DatabaseInv
<1>3. ImportOK'  BY <1>1 DEF ImportOK, Database!NotImporting
<1>4. QED  BY <1>1, <1>2, <1>3, NobodyRuns DEF DatabaseInv

\* Rows of a file, as the trigger of the schema leaves them.
LEMMA Imported ==
    ASSUME Given, DatabaseInv, NEW k \in FileRows, NEW given, given = Database!Classified(k[1], Database!Draft("import", Parent(k))),
           k[1] = "order_items" => Parent(k) \in Database!Keys
    PROVE  /\ given \in Column /\ given.made = "import" /\ ~given.creator /\ ~given.account
           /\ given.of = Parent(k) /\ given.status = None
           /\ given.origin = IF schema.portal THEN "imported" ELSE None
<1>1. PICK of : of = Parent(k)  OBVIOUS
<1>2. of \in (Database!Business \X Nat) \cup {None}  BY <1>1, SourceIs
<1>3. PICK d : d = [made |-> "import", creator |-> FALSE, account |-> FALSE, of |-> of, origin |-> None, status |-> None]
  OBVIOUS
<1>4. Database!Draft("import", of) = d  BY <1>3 DEF Database!Draft
<1>5. d \in Column  BY <1>2, <1>3 DEF Column, Names, StatusNames
<1>6. /\ d.made = "import" /\ ~d.creator /\ ~d.account /\ d.of = of /\ d.origin = None /\ d.status = None
  BY <1>3
<1>7. given = Database!Classified(k[1], d)  BY <1>1, <1>4
<1>8. CASE ~schema.portal  BY <1>1, <1>5, <1>6, <1>7, <1>8 DEF Database!Classified
<1>9. CASE schema.portal
  <2>1. k[1] = "order_items" => rows[of].origin = "imported" /\ of \in Database!Keys
    <3>1. ASSUME k[1] = "order_items"  PROVE of \in FileRows /\ of \in Database!Keys  BY <1>1, <3>1, SourceIs
    <3>2. QED  BY <1>9, <3>1 DEF DatabaseInv, DataOK, RowsOK, ContentOK, OriginOK
  <2>2. PICK status : status = IF k[1] = "orders" THEN None ELSE None  OBVIOUS
  <2>3. given = [d EXCEPT !.origin = "imported", !.status = None]
    BY <1>6, <1>7, <1>9, <2>1 DEF Database!Classified
  <2>4. "imported" \in Names  BY DEF Names
  <2>5. /\ given \in Column /\ given.made = d.made /\ given.creator = d.creator /\ given.account = d.account
        /\ given.of = d.of /\ given.origin = "imported" /\ given.status = None
    BY ONLY <1>5, <2>3, <2>4 DEF Column
  <2>6. QED  BY <1>1, <1>6, <1>9, <2>5
<1>10. QED  BY <1>8, <1>9

LEMMA Copied == ASSUME Given, DatabaseInv, Database!CopyCsv PROVE DatabaseInv'
<1>1. PICK n : n = importer.table  OBVIOUS
<1>2. n \in 1..4 /\ (n = 1 \/ n = 2 \/ n = 3 \/ n = 4)  BY <1>1 DEF DatabaseInv, ImportOK
<1>3. PICK table : table = Database!Tables[n]  OBVIOUS
<1>4. PICK keys : keys = {k \in FileRows : k[1] = table}  OBVIOUS
<1>5. PICK new : new = [k \in keys |-> Database!Classified(table, Database!Draft("import", Parent(k)))]  OBVIOUS
<1>6. /\ importer.step = "copy" /\ UNCHANGED <<schema, nextId, support, evidence, runner>>
      /\ \/ /\ keys \cap Database!Keys = {} /\ \A k \in keys : Database!Accepts(table, new[k])
            /\ rows' = Database!With(new)
            /\ importer' = IF n = Len(Database!Tables) THEN Database!NotImporting ELSE [importer EXCEPT !.table = @ + 1]
         \/ rows' = rows /\ importer' = Database!NotImporting
  BY <1>1, <1>3, <1>4, <1>5 DEF Database!CopyCsv, Database!outside
<1>7. CASE rows' = rows /\ importer' = Database!NotImporting
  <2>1. DataOK'  BY <1>6, <1>7, SameData DEF DatabaseInv
  <2>2. ImportOK'  BY <1>7 DEF ImportOK, Database!NotImporting
  <2>3. QED  BY <1>6, <2>1, <2>2, NobodyRuns DEF DatabaseInv
<1>8. CASE /\ keys \cap Database!Keys = {} /\ \A k \in keys : Database!Accepts(table, new[k])
           /\ rows' = Database!With(new)
           /\ importer' = IF n = Len(Database!Tables) THEN Database!NotImporting ELSE [importer EXCEPT !.table = @ + 1]
  <2>1. /\ Database!Keys' = Database!Keys \cup keys /\ \A k \in Database!Keys : rows'[k] = rows[k]
        /\ \A k \in keys : rows'[k] = new[k]
    <3>1. DOMAIN new = keys  BY <1>5
    <3>2. QED  BY <1>8, <3>1, WithIs
  <2>2. \A k \in FileRows : \A i \in 1..(n - 1) : k[1] = Database!Tables[i] => k \in Database!Keys
    BY <1>1, <1>6 DEF DatabaseInv, ImportOK
  <2>3. ASSUME NEW k \in keys
        PROVE  /\ k[1] = "order_items" => Parent(k) \in Database!Keys /\ Parent(k)[1] = "orders"
               /\ k[1] = "order_item_refunds" => Parent(k) \in Database!Keys /\ Parent(k)[1] = "order_items"
               /\ k[1] \in {"products", "orders"} => Parent(k) = None
    <3>1. k \in FileRows /\ k[1] = table  BY <1>4
    <3>2. CASE k[1] = "order_items"
      <4>1. n = 3  BY <1>2, <1>3, <3>1, <3>2, BusinessIs
      <4>2. Parent(k) \in FileRows /\ Parent(k)[1] = Database!Tables[2] /\ 2 \in 1..(n - 1)
        BY <3>1, <3>2, <4>1, SourceIs, BusinessIs
      <4>3. QED  BY <2>2, <3>2, <4>2, BusinessIs
    <3>3. CASE k[1] = "order_item_refunds"
      <4>1. n = 4  BY <1>2, <1>3, <3>1, <3>3, BusinessIs
      <4>2. Parent(k) \in FileRows /\ Parent(k)[1] = Database!Tables[3] /\ 3 \in 1..(n - 1)
        BY <3>1, <3>3, <4>1, SourceIs, BusinessIs
      <4>3. QED  BY <2>2, <3>3, <4>2, BusinessIs
    <3>4. CASE k[1] \in {"products", "orders"}  BY <3>1, <3>4, SourceIs
    <3>5. QED  BY <3>1, <3>2, <3>3, <3>4, SourceIs, BusinessIs
  <2>4. ASSUME NEW k \in keys
        PROVE  /\ k \in FileRows /\ k[1] = table /\ table \in Database!Business
               /\ new[k] \in Column /\ new[k].made = "import" /\ ~new[k].creator /\ ~new[k].account
               /\ new[k].of = Parent(k) /\ new[k].status = None
               /\ new[k].origin = IF schema.portal THEN "imported" ELSE None
    <3>1. k \in FileRows /\ k[1] = table  BY <1>4
    <3>2. table \in Database!Business  BY <3>1, SourceIs
    <3>3. new[k] = Database!Classified(k[1], Database!Draft("import", Parent(k)))  BY <1>5, <3>1
    <3>4. k[1] = "order_items" => Parent(k) \in Database!Keys  BY <2>3
    <3>5. PICK given : given = new[k]  OBVIOUS
    <3>6. /\ given \in Column /\ given.made = "import" /\ ~given.creator /\ ~given.account
          /\ given.of = Parent(k) /\ given.status = None
          /\ given.origin = IF schema.portal THEN "imported" ELSE None
      BY <3>1, <3>3, <3>4, <3>5, Imported
    <3>7. QED  BY <3>1, <3>2, <3>5, <3>6
  <2>5. SchemaOK /\ RowsOK /\ ContentOK /\ DataOK  BY DEF DatabaseInv, DataOK
  <2>6. SchemaOK'  BY <1>6, <2>5 DEF SchemaOK
  <2>7. RowsOK'
    <3>1. Database!Keys' \subseteq AllKeys /\ \A k \in Database!Keys' : rows'[k] \in Column
      BY <2>1, <2>4, <2>5, SourceIs DEF RowsOK
    <3>2. \A k \in Database!Keys' : rows'[k].made = "import" <=> k \in FileRows  BY <2>1, <2>4, <2>5 DEF RowsOK
    <3>3. ~schema.users => Database!Keys' \subseteq FileRows  BY <2>1, <2>4, <2>5 DEF RowsOK
    <3>4. schema.users => \A k \in Database!Keys' : k[1] \in Database!Business => k[2] < nextId
      BY <2>1, <2>4, <2>5 DEF RowsOK, Database!SequenceAhead, Database!Records
    <3>5. Database!SequenceAhead'  BY <1>6, <3>4 DEF Database!SequenceAhead, Database!Records
    <3>6. QED  BY <1>6, <2>5, <3>1, <3>2, <3>3, <3>5 DEF RowsOK
  <2>8. ASSUME NEW k \in Database!Keys  PROVE ParentOK(k)' /\ OriginOK(k)' /\ Accepted(k)' /\ Original(k)'
    <3>1. k[1] \in {"order_items", "order_item_refunds"} => rows[k].of \in Database!Keys
      BY <2>5 DEF ContentOK, ParentOK, Database!In
    <3>2. QED  BY <1>6, <2>1, <2>5, <3>1, RowStays
  <2>9. ASSUME NEW k \in keys  PROVE ParentOK(k)' /\ OriginOK(k)' /\ Accepted(k)' /\ Original(k)'
    <3>1. rows'[k] = new[k] /\ schema' = schema  BY <1>6, <2>1
    <3>2. ParentOK(k)'  BY <2>1, <2>3, <2>4, <3>1 DEF ParentOK, Database!In, Database!Keys
    <3>3. OriginOK(k)'  BY <2>4, <3>1, NoneIs DEF OriginOK, Names
    <3>4. Accepted(k)'
      <4>1. Database!Accepts(table, new[k])  BY <1>8
      <4>2. k[1] = "order_items" => rows'[new[k].of].origin = rows[new[k].of].origin  BY <2>1, <2>3, <2>4
      <4>3. QED  BY <2>4, <3>1, <4>1, <4>2 DEF Accepted, Database!Accepts
    <3>5. Original(k)'  BY <2>4, <3>1 DEF Original
    <3>6. QED  BY <3>2, <3>3, <3>4, <3>5
  <2>10. ContentOK'  BY <2>1, <2>8, <2>9 DEF ContentOK
  <2>11. ImportOK'
    <3>1. CASE n = 4  BY <1>8, <3>1, BusinessIs DEF ImportOK, Database!NotImporting
    <3>2. CASE n # 4
      <4>1. importer' = [importer EXCEPT !.table = n + 1]  BY <1>1, <1>8, <3>2, BusinessIs
      <4>2. /\ importer \in [step : {"idle", "truncate", "copy"}, table : 1..4] /\ importer.step = "copy"
            /\ n + 1 \in 1..4
        BY <1>2, <1>6, <3>2 DEF DatabaseInv, ImportOK
      <4>3. /\ importer' \in [step : {"idle", "truncate", "copy"}, table : 1..4]
            /\ importer'.step = "copy" /\ importer'.table = n + 1
        BY <4>1, <4>2
      <4>4. ASSUME NEW k \in FileRows, NEW i \in 1..n, k[1] = Database!Tables[i]  PROVE k \in Database!Keys'
        <5>1. CASE i = n  BY <1>3, <1>4, <2>1, <4>4, <5>1
        <5>2. CASE i # n
          <6>1. i \in 1..(n - 1)  BY <1>2, <5>2
          <6>2. QED  BY <2>1, <2>2, <4>4, <6>1
        <5>3. QED  BY <5>1, <5>2
      <4>5. importer'.table - 1 = n  BY <1>2, <4>3
      <4>6. \A k \in FileRows : \A i \in 1..(importer'.table - 1) : k[1] = Database!Tables[i] => k \in Database!Keys'
        BY <4>4, <4>5
      <4>7. QED  BY ONLY <4>3, <4>6 DEF ImportOK
    <3>3. QED  BY <3>1, <3>2
  <2>12. QED  BY <1>6, <2>6, <2>7, <2>10, <2>11, NobodyRuns DEF DatabaseInv, DataOK
<1>9. QED  BY <1>6, <1>7, <1>8

-----------------------------------------------------------------------------
(* The migrations.                                                          *)

\* Rows that keep what identifies them.
LEMMA SameRows ==
    ASSUME DatabaseInv, Database!Keys' = Database!Keys, schema.users => schema'.users, nextId' = nextId, schema.users \/ ~schema'.users,
           \A k \in Database!Keys : rows'[k] \in Column /\ rows'[k].made = rows[k].made
    PROVE  RowsOK'
<1>1. RowsOK /\ (schema'.users <=> schema.users)  BY DEF DatabaseInv, DataOK
<1>2. Database!SequenceAhead'  BY <1>1 DEF RowsOK, Database!SequenceAhead, Database!Records
<1>3. QED  BY <1>1, <1>2 DEF RowsOK

LEMMA HighestOfSource ==
    ASSUME Given
    PROVE  Database!Highest(FileRows) \in Nat /\ \A k \in FileRows : k[2] <= Database!Highest(FileRows)
<1>1. PICK h \in FileRows : \A j \in FileRows : j[2] <= h[2]  BY DEF Given, Database!SourceAssumption
<1>2. FileRows # {}  BY <1>1
<1>3. h[2] \in {k[2] : k \in FileRows}  BY <1>1
<1>4. /\ Database!Highest(FileRows) \in {k[2] : k \in FileRows}
      /\ \A k \in FileRows : k[2] <= Database!Highest(FileRows)
  BY <1>1, <1>2, <1>3 DEF Database!Highest
<1>5. QED  BY <1>4, SourceIs

LEMMA Migrated001 ==
    ASSUME Given, DatabaseInv, ~schema.users, FileRows \subseteq Database!Keys, Database!Migrate001
    PROVE  DataOK' /\ schema'.users /\ ~schema'.portal /\ Database!Keys' = Database!Keys
<1>1. DataOK /\ SchemaOK /\ RowsOK /\ ContentOK  BY DEF DatabaseInv, DataOK
<1>2. rows' = rows /\ nextId' = Database!Aligned
      /\ schema' = [schema EXCEPT !.users = TRUE, !.views = "creator",
                                  !.creatorFk = IF schema.creatorFk = "none" THEN "set_null" ELSE schema.creatorFk]
  BY DEF Database!Migrate001
<1>3. PICK fk : fk = IF schema.creatorFk = "none" THEN "set_null" ELSE schema.creatorFk  OBVIOUS
<1>4. fk \in {"none", "set_null", "restrict"}  BY <1>1, <1>3 DEF SchemaOK
<1>5. schema' = [schema EXCEPT !.users = TRUE, !.views = "creator", !.creatorFk = fk]  BY <1>2, <1>3
<1>6. /\ schema' \in [users : BOOLEAN, creatorFk : {"none", "set_null", "restrict"}, views : {"none", "creator", "origin"},
                      portal : BOOLEAN, trigger : {None, "completed", "ready_shipped"}, outbox : {"none", "v3", "v4"},
                      statuses : {"none", "old", "new"}, audit : BOOLEAN]
      /\ schema'.users /\ schema'.views = "creator" /\ schema'.portal = schema.portal
      /\ schema'.trigger = schema.trigger /\ schema'.outbox = schema.outbox /\ schema'.statuses = schema.statuses
  BY <1>1, <1>4, <1>5 DEF SchemaOK
<1>7. ~schema.portal  BY <1>1 DEF SchemaOK
<1>8. SchemaOK'  BY <1>1, <1>6, <1>7 DEF SchemaOK
<1>9. Database!Keys' = Database!Keys /\ Database!Keys = FileRows /\ Database!Records = FileRows
  BY <1>1, <1>2, SourceIs DEF RowsOK, Database!Keys, Database!Records
<1>10. nextId' \in Nat /\ \A k \in FileRows : k[2] < nextId'
  <2>1. Database!Highest(FileRows) \in Nat /\ \A k \in FileRows : k[2] <= Database!Highest(FileRows) /\ k[2] \in Nat
    BY HighestOfSource, SourceIs
  <2>2. nextId \in Nat  BY <1>1 DEF RowsOK
  <2>3. nextId' = IF nextId < Database!Highest(FileRows) + 1 THEN Database!Highest(FileRows) + 1 ELSE nextId
    BY <1>2, <1>9 DEF Database!Aligned
  <2>4. nextId' \in Nat /\ Database!Highest(FileRows) < nextId'  BY <2>1, <2>2, <2>3
  <2>5. QED  BY <2>1, <2>4
<1>11. RowsOK'  BY <1>1, <1>2, <1>6, <1>9, <1>10 DEF RowsOK, Database!SequenceAhead, Database!Records
<1>12. ASSUME NEW k \in Database!Keys  PROVE ParentOK(k)' /\ OriginOK(k)' /\ Accepted(k)' /\ Original(k)'
  <2>1. ParentOK(k) /\ OriginOK(k) /\ Original(k)  BY <1>1 DEF ContentOK
  <2>2. ParentOK(k)'  BY <1>2, <2>1 DEF ParentOK, Database!In, Database!Keys
  <2>3. OriginOK(k)'  BY <1>2, <1>6, <2>1 DEF OriginOK
  <2>4. Accepted(k)'  BY <1>6, <1>7 DEF Accepted, Database!Accepts
  <2>5. Original(k)'  BY <1>2, <2>1 DEF Original
  <2>6. QED  BY <2>2, <2>3, <2>4, <2>5
<1>13. ContentOK'  BY <1>9, <1>12 DEF ContentOK
<1>14. QED  BY <1>6, <1>7, <1>8, <1>9, <1>11, <1>13 DEF DataOK

LEMMA Migrated002 ==
    ASSUME Given, DatabaseInv, Database!Migrate002
    PROVE  DataOK' /\ schema.users /\ ~schema.portal /\ schema'.users /\ Database!Keys' = Database!Keys
<1>1. DataOK /\ SchemaOK /\ RowsOK /\ ContentOK  BY DEF DatabaseInv, DataOK
<1>2. /\ schema.users /\ ~schema.portal /\ nextId' = nextId /\ Database!Classifiable
      /\ rows' = [k \in Database!Keys |-> [rows[k] EXCEPT !.origin = IF rows[k].creator THEN "staff" ELSE "imported"]]
      /\ schema' = [schema EXCEPT !.portal = TRUE, !.views = "origin", !.creatorFk = "restrict",
                                  !.trigger = "completed", !.statuses = "old"]
  BY DEF Database!Migrate002, Database!Classifiable, Database!Portal
<1>3. /\ schema' \in [users : BOOLEAN, creatorFk : {"none", "set_null", "restrict"}, views : {"none", "creator", "origin"},
                      portal : BOOLEAN, trigger : {None, "completed", "ready_shipped"}, outbox : {"none", "v3", "v4"},
                      statuses : {"none", "old", "new"}, audit : BOOLEAN]
      /\ schema'.users = schema.users /\ schema'.views = "origin" /\ schema'.portal
      /\ schema'.trigger = "completed" /\ schema'.outbox = schema.outbox /\ schema'.statuses = "old"
  BY <1>1, <1>2 DEF SchemaOK
<1>4. SchemaOK'  BY <1>1, <1>2, <1>3 DEF SchemaOK
<1>5. Database!Keys' = Database!Keys  BY <1>2 DEF Database!Keys
<1>6. ASSUME NEW k \in Database!Keys
      PROVE  /\ rows'[k] \in Column /\ rows'[k].made = rows[k].made /\ rows'[k].creator = rows[k].creator
             /\ rows'[k].account = rows[k].account /\ rows'[k].of = rows[k].of /\ rows'[k].status = rows[k].status
             /\ rows'[k].origin = IF rows[k].creator THEN "staff" ELSE "imported"
  <2>1. PICK origin : origin = IF rows[k].creator THEN "staff" ELSE "imported"  OBVIOUS
  <2>2. origin \in Names  BY <2>1 DEF Names
  <2>3. rows'[k] = [rows[k] EXCEPT !.origin = origin]  BY <1>2, <2>1
  <2>4. rows[k] \in Column  BY <1>1 DEF RowsOK
  <2>5. /\ rows'[k] \in Column /\ rows'[k].made = rows[k].made /\ rows'[k].creator = rows[k].creator
        /\ rows'[k].account = rows[k].account /\ rows'[k].of = rows[k].of /\ rows'[k].status = rows[k].status
        /\ rows'[k].origin = origin
    BY ONLY <2>2, <2>3, <2>4 DEF Column
  <2>6. QED  BY <2>1, <2>5
<1>7. RowsOK'  BY <1>2, <1>3, <1>5, <1>6, SameRows
<1>8. ASSUME NEW k \in Database!Keys  PROVE ParentOK(k)' /\ OriginOK(k)' /\ Accepted(k)' /\ Original(k)'
  <2>1. /\ ParentOK(k) /\ Original(k) /\ ~rows[k].account /\ rows[k].status = None /\ rows[k].made # "customer"
        /\ rows[k].creator <=> rows[k].made = "staff"
    BY <1>1, <1>2 DEF ContentOK, OriginOK
  <2>2. ParentOK(k)'  BY <1>5, <1>6, <2>1 DEF ParentOK, Database!In
  <2>3. rows[k].made \in {"import", "staff", "customer"}  BY <1>1 DEF RowsOK, Column
  <2>4. OriginOK(k)'  BY <1>3, <1>6, <2>1, <2>3, NoneIs DEF OriginOK, Names
  <2>5. Original(k)'  BY <1>6, <2>1 DEF Original
  <2>6. k[1] = "orders" => ~rows[k].creator  BY <1>2 DEF Database!Classifiable, Database!In
  <2>7. k[1] = "order_items" => rows[k].of \in Database!Keys /\ rows[k].creator = rows[rows[k].of].creator
    BY <1>2, <2>1 DEF Database!Classifiable, Database!In, ParentOK
  <2>8. Database!Accepts(k[1], rows[k])'
    <3>1. k[1] = "order_items" => rows'[k].origin = rows'[rows'[k].of].origin  BY <1>6, <2>7
    <3>2. QED  BY <1>3, <1>6, <2>1, <2>6, <3>1 DEF Database!Accepts
  <2>9. Accepted(k)'  BY <2>8 DEF Accepted
  <2>10. QED  BY <2>2, <2>4, <2>5, <2>9
<1>9. ContentOK'  BY <1>5, <1>8 DEF ContentOK
<1>10. QED  BY <1>2, <1>3, <1>4, <1>5, <1>7, <1>9 DEF DataOK

\* 003 and 005 leave all of this as it is.
LEMMA MigratedOnly ==
    ASSUME DatabaseInv, Database!Migrate003 \/ Database!Migrate005
    PROVE  DataOK' /\ schema'.users = schema.users /\ schema'.portal = schema.portal /\ Database!Keys' = Database!Keys
<1>1. DataOK /\ SchemaOK /\ RowsOK /\ ContentOK  BY DEF DatabaseInv, DataOK
<1>2. rows' = rows /\ nextId' = nextId  BY DEF Database!Migrate003, Database!Migrate005, Database!data
<1>3. /\ schema' \in [users : BOOLEAN, creatorFk : {"none", "set_null", "restrict"}, views : {"none", "creator", "origin"},
                      portal : BOOLEAN, trigger : {None, "completed", "ready_shipped"}, outbox : {"none", "v3", "v4"},
                      statuses : {"none", "old", "new"}, audit : BOOLEAN]
      /\ schema'.users = schema.users /\ schema'.views = schema.views /\ schema'.portal = schema.portal
      /\ schema'.trigger = schema.trigger /\ schema'.statuses = schema.statuses
      /\ schema'.outbox = schema.outbox \/ (schema'.outbox = "v3" /\ schema.outbox = "none" /\ schema.portal)
  BY <1>1 DEF SchemaOK, Database!Migrate003, Database!Migrate005
<1>4. SchemaOK'  BY <1>1, <1>3 DEF SchemaOK
<1>5. Database!Keys' = Database!Keys  BY <1>2 DEF Database!Keys
<1>6. RowsOK'  BY <1>1, <1>2, <1>3, <1>5, SameRows DEF RowsOK
<1>7. ASSUME NEW k \in Database!Keys  PROVE ParentOK(k)' /\ OriginOK(k)' /\ Accepted(k)' /\ Original(k)'
  <2>1. ParentOK(k) /\ OriginOK(k) /\ Accepted(k) /\ Original(k)  BY <1>1 DEF ContentOK
  <2>2. ParentOK(k)'  BY <1>2, <2>1 DEF ParentOK, Database!In, Database!Keys
  <2>3. OriginOK(k)'  BY <1>2, <1>3, <2>1 DEF OriginOK
  <2>4. Accepted(k)'  BY <1>2, <1>3, <2>1 DEF Accepted, Database!Accepts
  <2>5. Original(k)'  BY <1>2, <2>1 DEF Original
  <2>6. QED  BY <2>2, <2>3, <2>4, <2>5
<1>8. ContentOK'  BY <1>5, <1>7 DEF ContentOK
<1>9. QED  BY <1>3, <1>4, <1>5, <1>6, <1>8 DEF DataOK

LEMMA Migrated004 ==
    ASSUME Given, DatabaseInv, Database!Migrate004
    PROVE  DataOK' /\ schema'.users = schema.users /\ schema'.portal = schema.portal /\ Database!Keys' = Database!Keys
<1>1. DataOK /\ SchemaOK /\ RowsOK /\ ContentOK  BY DEF DatabaseInv, DataOK
<1>2. /\ schema.outbox = "v3" /\ nextId' = nextId
      /\ rows' = [k \in Database!Keys |-> Database!Backfilled(rows[k])]
      /\ \A k \in Database!In("orders") : Database!Backfilled(rows[k]).status \in Database!Statuses("new") \cup {None}
      /\ schema' = [schema EXCEPT !.statuses = "new", !.trigger = "ready_shipped", !.outbox = "v4"]
  BY DEF Database!Migrate004, Database!In, Database!Keys
<1>3. /\ schema' \in [users : BOOLEAN, creatorFk : {"none", "set_null", "restrict"}, views : {"none", "creator", "origin"},
                      portal : BOOLEAN, trigger : {None, "completed", "ready_shipped"}, outbox : {"none", "v3", "v4"},
                      statuses : {"none", "old", "new"}, audit : BOOLEAN]
      /\ schema'.users = schema.users /\ schema'.views = schema.views /\ schema'.portal = schema.portal
      /\ schema'.trigger = "ready_shipped" /\ schema'.outbox = "v4" /\ schema'.statuses = "new"
  BY <1>1, <1>2 DEF SchemaOK
<1>4. schema.portal  BY <1>1, <1>2 DEF SchemaOK
<1>5. SchemaOK'  BY <1>1, <1>3, <1>4 DEF SchemaOK
<1>6. Database!Keys' = Database!Keys  BY <1>2 DEF Database!Keys
<1>7. ASSUME NEW k \in Database!Keys
      PROVE  /\ rows'[k] = Database!Backfilled(rows[k])
             /\ rows'[k] \in Column /\ rows'[k].made = rows[k].made /\ rows'[k].creator = rows[k].creator
             /\ rows'[k].account = rows[k].account /\ rows'[k].of = rows[k].of /\ rows'[k].origin = rows[k].origin
             /\ rows'[k].status = rows[k].status \/ (rows'[k].status = "ready_shipped" /\ rows[k].origin # "imported")
  <2>1. PICK c : c = rows[k]  OBVIOUS
  <2>2. c \in Column  BY <1>1, <2>1 DEF RowsOK
  <2>3. rows'[k] = Database!Backfilled(c)  BY <1>2, <2>1
  <2>4. "ready_shipped" \in StatusNames  BY DEF StatusNames
  <2>5. CASE c.origin \in {"staff", "customer"} /\ c.status = "completed"
    <3>1. rows'[k] = [c EXCEPT !.status = "ready_shipped"]  BY <2>3, <2>5 DEF Database!Backfilled
    <3>2. /\ rows'[k] \in Column /\ rows'[k].made = c.made /\ rows'[k].creator = c.creator
          /\ rows'[k].account = c.account /\ rows'[k].of = c.of /\ rows'[k].origin = c.origin
          /\ rows'[k].status = "ready_shipped"
      BY ONLY <2>2, <2>4, <3>1 DEF Column
    <3>3. QED  BY <2>1, <2>3, <2>5, <3>2
  <2>6. CASE ~(c.origin \in {"staff", "customer"} /\ c.status = "completed")
    <3>1. rows'[k] = c  BY <2>3, <2>6 DEF Database!Backfilled
    <3>2. QED  BY <2>1, <2>2, <2>3, <3>1
  <2>7. QED  BY <2>5, <2>6
<1>8. RowsOK'  BY <1>2, <1>3, <1>6, <1>7, SameRows, <1>1 DEF RowsOK
<1>9. ASSUME NEW k \in Database!Keys  PROVE ParentOK(k)' /\ OriginOK(k)' /\ Accepted(k)' /\ Original(k)'
  <2>1. ParentOK(k) /\ OriginOK(k) /\ Accepted(k) /\ Original(k)  BY <1>1 DEF ContentOK
  <2>2. ParentOK(k)'  BY <1>6, <1>7, <2>1 DEF ParentOK, Database!In
  <2>3. OriginOK(k)'  BY <1>3, <1>4, <1>7, <2>1 DEF OriginOK
  <2>4. Original(k)'  BY <1>7, <2>1 DEF Original
  <2>5. ASSUME k[1] \in Database!Business  PROVE Database!Accepts(k[1], rows[k])'
    <3>1. Database!Accepts(k[1], rows[k])  BY <2>1, <2>5 DEF Accepted
    <3>2. k[1] = "order_items" => rows[k].of \in Database!Keys  BY <2>1 DEF ParentOK, Database!In
    <3>3. k[1] = "order_items" => rows'[k].origin = rows'[rows'[k].of].origin
      BY <1>4, <1>7, <3>1, <3>2 DEF Database!Accepts
    <3>4. k[1] = "orders" => IF rows'[k].origin = "imported" THEN rows'[k].status = None
                             ELSE rows'[k].status \in Database!Statuses("new")
      <4>1. CASE k[1] = "orders" /\ rows[k].origin = "imported"  BY <1>4, <1>7, <3>1, <4>1 DEF Database!Accepts
      <4>2. CASE k[1] = "orders" /\ rows[k].origin # "imported"
        <5>1. rows'[k].status \in Database!Statuses("new") \cup {None}  BY <1>2, <1>7, <4>2 DEF Database!In
        <5>2. rows[k].status \in Database!Statuses(schema.statuses)  BY <1>4, <3>1, <4>2 DEF Database!Accepts
        <5>3. rows[k].status \in StatusNames  BY <5>2 DEF Database!Statuses, StatusNames
        <5>4. rows'[k].status # None
          <6>1. "ready_shipped" \in StatusNames  BY DEF StatusNames
          <6>2. QED  BY <1>7, <5>3, <6>1, NoneIs
        <5>5. QED  BY <1>7, <4>2, <5>1, <5>4
      <4>3. QED  BY <4>1, <4>2
    <3>5. QED  BY <1>3, <1>4, <1>7, <3>1, <3>3, <3>4 DEF Database!Accepts
  <2>6. Accepted(k)'  BY <2>5 DEF Accepted
  <2>7. QED  BY <2>2, <2>3, <2>4, <2>6
<1>10. ContentOK'  BY <1>6, <1>9 DEF ContentOK
<1>11. QED  BY <1>3, <1>5, <1>6, <1>8, <1>10 DEF DataOK

-----------------------------------------------------------------------------
(* The scripts.                                                             *)

\* A script moves; one of run_migration.py only where it is the only one.
LEMMA ScriptMoves ==
    ASSUME DatabaseInv, NEW r \in Runners, NEW s, runner' = [runner EXCEPT ![r] = s],
           UNCHANGED <<schema, rows, nextId, support, importer>>,
           EvidenceOK', \A n \in 1..2 : evidence[n] # None => evidence'[n] # None,
           Script0(s)', s.script = 1 => \A q \in Runners \ {r} : runner[q].script # 1
    PROVE  DatabaseInv'
<1>1. RunnersOK  BY DEF DatabaseInv
<1>2. runner'[r] = s /\ (\A q \in Runners \ {r} : runner'[q] = runner[q]) /\ runner' = [q \in Runners |-> runner'[q]]
  BY <1>1 DEF RunnersOK
<1>3. DataOK'  BY SameData DEF DatabaseInv
<1>4. ImportOK'  BY DEF DatabaseInv, ImportOK, Database!Keys
<1>5. ASSUME NEW q \in Runners \ {r}  PROVE Script0(runner[q])'
  <2>1. Script0(runner[q]) /\ runner'[q] = runner[q]  BY <1>1, <1>2 DEF RunnersOK
  <2>2. QED  BY <2>1 DEF Script0, Database!Keys
<1>6. \A q \in Runners : Script0(runner[q])'
  <2>1. Script0(runner[r])'  BY <1>2 DEF Script0
  <2>2. QED  BY <1>5, <2>1
<1>7. \A p, q \in Runners : runner'[p].script = 1 /\ runner'[q].script = 1 => p = q
  BY <1>1, <1>2 DEF RunnersOK
<1>8. RunnersOK'  BY <1>2, <1>6, <1>7 DEF RunnersOK
<1>9. QED  BY <1>3, <1>4, <1>8 DEF DatabaseInv

\* The same without a new snapshot.
LEMMA ScriptGoes ==
    ASSUME DatabaseInv, NEW r \in Runners, NEW s, runner' = [runner EXCEPT ![r] = s],
           UNCHANGED <<schema, rows, nextId, support, evidence, importer>>,
           Script0(s), s.script = 1 => \A q \in Runners \ {r} : runner[q].script # 1
    PROVE  DatabaseInv'
<1>1. EvidenceOK'  BY DEF DatabaseInv, EvidenceOK
<1>2. Script0(s)'  BY DEF Script0, Database!Keys
<1>3. \A n \in 1..2 : evidence[n] # None => evidence'[n] # None  OBVIOUS
<1>4. QED  BY <1>1, <1>2, <1>3, ScriptMoves

LEMMA Away == Script0(Database!NoScript)
BY DEF Script0, Database!NoScript

LEMMA Alone ==
    ASSUME DatabaseInv, NEW r \in Runners, runner[r].script = 1
    PROVE  \A q \in Runners \ {r} : runner[q].script # 1
BY DEF DatabaseInv, RunnersOK

LEMMA ScriptStarts ==
    ASSUME Given, DatabaseInv, NEW r \in Runners, NEW n \in 1..3, Database!StartScript(r, n)
    PROVE  DatabaseInv'
<1>1. PICK s : s = [script |-> n, step |-> "prompt", document |-> None]  OBVIOUS
<1>2. /\ Database!Populated /\ runner' = [runner EXCEPT ![r] = s]
      /\ UNCHANGED <<schema, rows, nextId, support, evidence, importer>>
      /\ n = 1 => (\A q \in Runners : runner[q].script # 1) /\ evidence[1] = None
  BY <1>1 DEF Database!StartScript, Database!Stay, Database!data, Given
<1>3. n = 1 => ~schema.users  BY <1>2 DEF DatabaseInv, EvidenceOK
<1>4. /\ s \in [script : 0..3, step : {"idle", "prompt", "save", "replace", "execute"}, document : Documents \cup {None}]
      /\ s.script = n /\ s.step = "prompt"
  BY <1>1
<1>5. Script0(s)  BY <1>2, <1>3, <1>4 DEF Script0, Database!Populated
<1>6. QED  BY <1>2, <1>4, <1>5, ScriptGoes

LEMMA Captures ==
    ASSUME Given, DatabaseInv, NEW r \in Runners, Database!Capture(r)
    PROVE  DatabaseInv'
<1>1. PICK n, s0 : n = runner[r].script /\ s0 = runner[r]  OBVIOUS
<1>2. PICK s : s = [s0 EXCEPT !.step = "save", !.document = Database!Fingerprint(n)]  OBVIOUS
<1>3. /\ s0.step = "prompt" /\ n \in 1..2 /\ UNCHANGED <<schema, rows, nextId, support, evidence, importer>>
      /\ \/ runner' = [runner EXCEPT ![r] = Database!NoScript]
         \/ runner' = [runner EXCEPT ![r] = s] /\ (n = 2 => Database!Preflight)
  BY <1>1, <1>2 DEF Database!Capture, Database!Stay, Database!data
<1>4. Script0(s0)  BY <1>1 DEF DatabaseInv, RunnersOK
<1>5. PICK d : d = Database!Fingerprint(n)  OBVIOUS
<1>6. d \in Documents /\ (n = 2 => d.migrated = schema.portal)
  BY <1>3, <1>5 DEF Database!Fingerprint, Documents, DatabaseInv, DataOK, SchemaOK, EvidenceOK
<1>7. CASE runner' = [runner EXCEPT ![r] = Database!NoScript]
  <2>1. Database!NoScript.script # 1  BY DEF Database!NoScript
  <2>2. QED  BY <1>3, <1>7, <2>1, Away, ScriptGoes
<1>8. CASE runner' = [runner EXCEPT ![r] = s] /\ (n = 2 => Database!Preflight)
  <2>1. n = 2 => ~schema.portal  BY <1>8 DEF Database!Preflight, Database!Classifiable
  <2>2. /\ s \in [script : 0..3, step : {"idle", "prompt", "save", "replace", "execute"}, document : Documents \cup {None}]
        /\ s.script = s0.script /\ s.step = "save" /\ s.document = d
    BY <1>2, <1>4, <1>5, <1>6 DEF Script0
  <2>3. d # None  BY <1>6, NoneIs
  <2>4. Script0(s)  BY <1>1, <1>3, <1>4, <1>6, <2>1, <2>2, <2>3 DEF Script0
  <2>5. s.script = 1 => \A q \in Runners \ {r} : runner[q].script # 1  BY <1>1, <2>2, Alone
  <2>6. QED  BY <1>3, <1>8, <2>4, <2>5, ScriptGoes
<1>9. QED  BY <1>3, <1>7, <1>8

LEMMA ChecksSnapshot ==
    ASSUME Given, DatabaseInv, NEW r \in Runners, Database!CheckSnapshot(r)
    PROVE  DatabaseInv'
<1>1. PICK s0 : s0 = runner[r]  OBVIOUS
<1>2. PICK s : s = [s0 EXCEPT !.step = "replace"]  OBVIOUS
<1>3. /\ s0.step = "save" /\ UNCHANGED <<schema, rows, nextId, support, evidence, importer>>
      /\ runner' = [runner EXCEPT ![r] = Database!NoScript] \/ runner' = [runner EXCEPT ![r] = s]
  BY <1>1, <1>2 DEF Database!CheckSnapshot, Database!Stay, Database!data
<1>4. Script0(s0)  BY <1>1 DEF DatabaseInv, RunnersOK
<1>5. CASE runner' = [runner EXCEPT ![r] = Database!NoScript]
  <2>1. Database!NoScript.script # 1  BY DEF Database!NoScript
  <2>2. QED  BY <1>3, <1>5, <2>1, Away, ScriptGoes
<1>6. CASE runner' = [runner EXCEPT ![r] = s]
  <2>1. /\ s \in [script : 0..3, step : {"idle", "prompt", "save", "replace", "execute"}, document : Documents \cup {None}]
        /\ s.script = s0.script /\ s.step = "replace" /\ s.document = s0.document
    BY <1>2, <1>4 DEF Script0
  <2>2. Script0(s)  BY <1>3, <1>4, <2>1 DEF Script0
  <2>3. s.script = 1 => \A q \in Runners \ {r} : runner[q].script # 1  BY <1>1, <2>1, Alone
  <2>4. QED  BY <1>3, <1>6, <2>2, <2>3, ScriptGoes
<1>7. QED  BY <1>3, <1>5, <1>6

LEMMA Replaces ==
    ASSUME Given, DatabaseInv, NEW r \in Runners, Database!Replace(r)
    PROVE  DatabaseInv'
<1>1. PICK s0, n : s0 = runner[r] /\ n = runner[r].script  OBVIOUS
<1>2. PICK s : s = [s0 EXCEPT !.step = "execute"]  OBVIOUS
<1>3. RunnersOK /\ EvidenceOK  BY DEF DatabaseInv
<1>4. /\ s0.step = "replace" /\ UNCHANGED <<schema, rows, nextId, support, importer>>
      /\ evidence' = [evidence EXCEPT ![n] = s0.document] /\ runner' = [runner EXCEPT ![r].step = "execute"]
  BY <1>1 DEF Database!Replace, Database!Goto, Database!Stay, Database!data
<1>5. runner' = [runner EXCEPT ![r] = s]  BY <1>1, <1>2, <1>3, <1>4 DEF RunnersOK
<1>6. Script0(s0)  BY <1>1, <1>3 DEF RunnersOK
<1>7. /\ s \in [script : 0..3, step : {"idle", "prompt", "save", "replace", "execute"}, document : Documents \cup {None}]
      /\ s.script = n /\ s.step = "execute"
  BY <1>1, <1>2, <1>6 DEF Script0
<1>8. n \in 1..2 /\ s0.document # None /\ s0.document \in Documents /\ (n = 2 => ~s0.document.migrated)
  BY <1>1, <1>4, <1>6 DEF Script0
<1>9. /\ evidence' \in [1..2 -> Documents \cup {None}] /\ evidence'[n] = s0.document
      /\ \A m \in 1..2 : m # n => evidence'[m] = evidence[m]
  BY <1>3, <1>4, <1>8 DEF EvidenceOK
<1>10. \A m \in 1..2 : evidence[m] # None => evidence'[m] # None  BY <1>8, <1>9
<1>11. EvidenceOK'  BY <1>3, <1>4, <1>8, <1>9, <1>10 DEF EvidenceOK
<1>12. Script0(s)'  BY <1>1, <1>4, <1>6, <1>7, <1>8, <1>9 DEF Script0, Database!Keys
<1>13. s.script = 1 => \A q \in Runners \ {r} : runner[q].script # 1  BY <1>1, <1>7, Alone
<1>14. QED  BY <1>4, <1>5, <1>10, <1>11, <1>12, <1>13, ScriptMoves

LEMMA ChecksDatabase ==
    ASSUME Given, DatabaseInv, NEW r \in Runners, Database!CheckDatabase(r)
    PROVE  DatabaseInv'
<1>1. PICK s0 : s0 = runner[r]  OBVIOUS
<1>2. PICK s : s = [s0 EXCEPT !.step = "execute"]  OBVIOUS
<1>3. /\ s0.step = "prompt" /\ s0.script = 3 /\ UNCHANGED <<schema, rows, nextId, support, evidence, importer>>
      /\ runner' = [runner EXCEPT ![r] = Database!NoScript] \/ runner' = [runner EXCEPT ![r] = s]
  BY <1>1, <1>2 DEF Database!CheckDatabase, Database!Stay, Database!data
<1>4. Script0(s0)  BY <1>1 DEF DatabaseInv, RunnersOK
<1>5. CASE runner' = [runner EXCEPT ![r] = Database!NoScript]
  <2>1. Database!NoScript.script # 1  BY DEF Database!NoScript
  <2>2. QED  BY <1>3, <1>5, <2>1, Away, ScriptGoes
<1>6. CASE runner' = [runner EXCEPT ![r] = s]
  <2>1. /\ s \in [script : 0..3, step : {"idle", "prompt", "save", "replace", "execute"}, document : Documents \cup {None}]
        /\ s.script = 3 /\ s.step = "execute"
    BY <1>2, <1>3, <1>4 DEF Script0
  <2>2. Script0(s)  BY <1>3, <1>4, <2>1 DEF Script0
  <2>3. s.script # 1  BY <2>1
  <2>4. QED  BY <1>3, <1>6, <2>2, <2>3, ScriptGoes
<1>7. QED  BY <1>3, <1>5, <1>6

LEMMA ScriptStops ==
    ASSUME Given, DatabaseInv, NEW r \in Runners, Database!StopScript(r)
    PROVE  DatabaseInv'
<1>1. runner' = [runner EXCEPT ![r] = Database!NoScript] /\ UNCHANGED <<schema, rows, nextId, support, evidence, importer>>
  BY DEF Database!StopScript, Database!Stay, Database!data
<1>2. Database!NoScript.script # 1  BY DEF Database!NoScript
<1>3. QED  BY <1>1, <1>2, Away, ScriptGoes

\* The schema moves under a runner that is through with its work.
LEMMA Executes ==
    ASSUME Given, DatabaseInv, NEW r \in Runners, Database!Execute(r)
    PROVE  DatabaseInv'
<1>1. PICK s0, n : s0 = runner[r] /\ n = runner[r].script  OBVIOUS
<1>2. RunnersOK /\ EvidenceOK /\ ImportOK  BY DEF DatabaseInv
<1>3. /\ s0.step = "execute" /\ UNCHANGED <<support, evidence, importer>> /\ runner' = [runner EXCEPT ![r] = Database!NoScript]
      /\ \/ n = 1 /\ Database!Migrate001
         \/ n = 2 /\ Database!Migrate002
         \/ n = 3 /\ Database!Migrate003
         \/ UNCHANGED <<schema, rows, nextId>>
  BY <1>1 DEF Database!Execute, Database!outside, Database!data
<1>4. Script0(s0)  BY <1>1, <1>2 DEF RunnersOK
<1>5. FileRows \subseteq Database!Keys /\ (n = 1 => ~schema.users /\ evidence[1] # None) /\ (n = 2 => evidence[2] # None)
  BY <1>1, <1>3, <1>4 DEF Script0
<1>6. /\ DataOK' /\ Database!Keys' = Database!Keys
      /\ (n # 1 => schema'.users = schema.users)
      /\ (schema'.users => evidence[1] # None) /\ (schema'.portal => evidence[2] # None)
  <2>1. (schema.users => evidence[1] # None) /\ (schema.portal => evidence[2] # None)  BY <1>2 DEF EvidenceOK
  <2>2. CASE n = 1 /\ Database!Migrate001  BY <1>5, <2>2, Migrated001
  <2>3. CASE n = 2 /\ Database!Migrate002  BY <1>5, <2>1, <2>3, Migrated002 DEF DatabaseInv, DataOK, SchemaOK
  <2>4. CASE n = 3 /\ Database!Migrate003  BY <2>1, <2>4, MigratedOnly
  <2>5. CASE UNCHANGED <<schema, rows, nextId>>  BY <2>1, <2>5, SameData DEF DatabaseInv, Database!Keys
  <2>6. QED  BY <1>3, <2>2, <2>3, <2>4, <2>5
<1>7. EvidenceOK'  BY <1>2, <1>3, <1>6 DEF EvidenceOK
<1>8. ImportOK'  BY <1>2, <1>3, <1>6 DEF ImportOK
<1>9. runner'[r] = Database!NoScript /\ (\A q \in Runners \ {r} : runner'[q] = runner[q]) /\ runner' = [q \in Runners |-> runner'[q]]
  BY <1>2, <1>3 DEF RunnersOK
<1>10. Script0(runner[r])'
  <2>1. runner'[r] = [script |-> 0, step |-> "idle", document |-> None]  BY <1>9 DEF Database!NoScript
  <2>2. QED  BY <2>1 DEF Script0
<1>11. ASSUME NEW q \in Runners \ {r}  PROVE Script0(runner[q])'
  <2>1. Script0(runner[q]) /\ runner'[q] = runner[q]  BY <1>2, <1>9 DEF RunnersOK
  <2>2. runner[q].script = 1 => n # 1  BY <1>1, <1>2 DEF RunnersOK
  <2>3. QED  BY <1>3, <1>6, <2>1, <2>2 DEF Script0
<1>12. Database!NoScript.script = 0  BY DEF Database!NoScript
<1>13. \A p, q \in Runners : runner'[p].script = 1 /\ runner'[q].script = 1 => p = q
  BY <1>2, <1>9, <1>12 DEF RunnersOK
<1>14. RunnersOK'  BY <1>9, <1>10, <1>11, <1>13 DEF RunnersOK
<1>15. QED  BY <1>6, <1>7, <1>8, <1>14 DEF DatabaseInv

LEMMA AppliedByHand == ASSUME Given, DatabaseInv, Database!ApplyByHand PROVE DatabaseInv'
<1>1. /\ UNCHANGED <<support, evidence, runner, importer>> /\ (Database!Migrate004 \/ Database!Migrate005)
      /\ \A r \in Runners : runner[r].step = "idle"
  BY DEF Database!ApplyByHand, Database!outside, Database!NoScriptRuns
<1>2. DataOK' /\ schema'.users = schema.users /\ schema'.portal = schema.portal /\ Database!Keys' = Database!Keys
  BY <1>1, Migrated004, MigratedOnly
<1>3. ImportOK'  BY <1>1, <1>2 DEF DatabaseInv, ImportOK
<1>4. \A r \in Runners : Script0(runner[r])'  BY <1>1, <1>2 DEF DatabaseInv, RunnersOK, Script0
<1>5. RunnersOK'  BY <1>1, <1>4 DEF DatabaseInv, RunnersOK
<1>6. EvidenceOK'  BY <1>1, <1>2 DEF DatabaseInv, EvidenceOK
<1>7. QED  BY <1>2, <1>3, <1>5, <1>6 DEF DatabaseInv

-----------------------------------------------------------------------------
(* The properties.                                                          *)

LEMMA CanonicalIs ==
    ASSUME DataOK
    PROVE  Database!CanonicalIsImported
<1>1. SUFFICES ASSUME schema.views # "none", NEW t \in Database!Business
               PROVE  Database!Canonical(t) = {k \in Database!In(t) : rows[k].made = "import"}
  BY DEF Database!CanonicalIsImported
<1>2. CASE schema.portal
  <2>1. schema.views = "origin"  BY <1>2 DEF DataOK, SchemaOK
  <2>2. Database!Canonical(t) = {k \in Database!In(t) : rows[k].origin = "imported"}
    BY <2>1 DEF Database!Canonical
  <2>3. \A k \in Database!In(t) : rows[k].origin = "imported" <=> rows[k].made = "import"
    BY <1>2 DEF DataOK, ContentOK, OriginOK, Database!In
  <2>4. QED  BY <2>2, <2>3
<1>3. CASE ~schema.portal
  <2>1. schema.views = "creator"  BY <1>1, <1>3 DEF DataOK, SchemaOK
  <2>2. Database!Canonical(t) = {k \in Database!In(t) : ~rows[k].creator}  BY <2>1 DEF Database!Canonical
  <2>3. \A k \in Database!In(t) : /\ rows[k].creator <=> rows[k].made = "staff"
                                  /\ rows[k].made # "customer" /\ rows[k].made \in {"import", "staff", "customer"}
    BY <1>3 DEF DataOK, RowsOK, ContentOK, OriginOK, Database!In, Column
  <2>4. QED  BY <2>2, <2>3
<1>4. QED  BY <1>2, <1>3

\* When the views count what the files had, they have all of it.
LEMMA CountsTell ==
    ASSUME Given, DataOK, schema.views # "none", Database!CountsAsExpected
    PROVE  FileRows \subseteq Database!Keys
<1>1. SUFFICES ASSUME NEW k \in FileRows  PROVE k \in Database!Keys  OBVIOUS
<1>2. PICK t \in Database!Business : t = k[1]  BY SourceIs
<1>3. PICK files, seen : files = {j \in FileRows : j[1] = t} /\ seen = Database!Canonical(t)  OBVIOUS
<1>4. seen = {j \in Database!In(t) : rows[j].made = "import"}
  BY <1>1, <1>3, CanonicalIs DEF Database!CanonicalIsImported
<1>5. seen \subseteq files  BY <1>3, <1>4 DEF DataOK, RowsOK, Database!In
<1>6. IsFiniteSet(files)  BY <1>3, SourceIs, FS_Subset
<1>7. Cardinality(seen) = Cardinality(files)
  BY <1>2, <1>3, SameSize DEF Database!CountsAsExpected, Database!ExpectedCount
<1>8. seen = files  BY <1>5, <1>6, <1>7, FS_Subset
<1>9. QED  BY <1>2, <1>3, <1>4, <1>8 DEF Database!In

LEMMA VerdictTrue == ASSUME Given, DatabaseInv, NEW n \in 1..3, Database!Verify(n) PROVE Database!VerdictHonest'
<1>1. verified' = [script |-> n, pass |-> Database!Verified(n)] /\ UNCHANGED <<schema, rows>>
  BY DEF Database!Verify, Database!data
<1>2. DataOK /\ SchemaOK  BY DEF DatabaseInv, DataOK
<1>3. ASSUME Database!Verified(n)
      PROVE  /\ FileRows \subseteq Database!Keys
             /\ n > 1 => schema.portal
  <2>1. Database!CountsAsExpected /\ schema.users /\ (n > 1 => schema.portal)
    <3>1. CASE n = 1  BY <1>3, <3>1 DEF Database!Verified, Database!Verified001, Database!UsersTable
    <3>2. CASE n = 2
      <4>1. Database!PortalTables /\ Database!CountsAsExpected
        BY <1>3, <3>2 DEF Database!Verified, Database!Verified002, Database!CanonicalBoundary
      <4>2. QED  BY <1>2, <4>1 DEF Database!PortalTables, SchemaOK
    <3>3. CASE n = 3
      BY <1>3, <3>3 DEF Database!Verified, Database!Verified003, Database!UsersTable, Database!PortalTables
    <3>4. QED  BY <3>1, <3>2, <3>3
  <2>2. schema.views # "none"  BY <1>2, <2>1 DEF SchemaOK
  <2>3. QED  BY <1>2, <2>1, <2>2, CountsTell
<1>4. ASSUME schema.portal, NEW k \in Database!Records
      PROVE  /\ rows[k].origin = "imported" <=> rows[k].made = "import"
             /\ k[1] = "order_items" => rows[k].origin = rows[rows[k].of].origin
  <2>1. OriginOK(k) /\ Database!Accepts(k[1], rows[k])
    BY <1>2 DEF Database!Records, DataOK, ContentOK, Accepted
  <2>2. QED  BY <1>4, <2>1 DEF OriginOK, Database!Accepts
<1>5. verified'.script = n /\ (verified'.pass <=> Database!Verified(n))  BY <1>1
<1>6. Database!Keys' = Database!Keys /\ Database!Records' = Database!Records
  BY <1>1 DEF Database!Keys, Database!Records
<1>7. QED  BY <1>1, <1>3, <1>4, <1>5, <1>6 DEF Database!VerdictHonest

LEMMA DatabaseStarts == ASSUME Given, Database!Init PROVE DatabaseInv /\ Database!VerdictHonest
<1>1. Database!Keys = {}  BY DEF Database!Init, Database!Keys
<1>2. SchemaOK  BY DEF Database!Init, SchemaOK, Database!Unmigrated
<1>3. schema.users = FALSE  BY DEF Database!Init, Database!Unmigrated
<1>4. RowsOK  BY <1>1, <1>3 DEF Database!Init, RowsOK, Database!SequenceAhead
<1>5. ContentOK  BY <1>1 DEF ContentOK
<1>6. ImportOK  BY DEF Database!Init, ImportOK, Database!NotImporting
<1>7. RunnersOK
  <2>1. Database!NoScript.script = 0  BY DEF Database!NoScript
  <2>2. QED  BY <2>1, Away DEF Database!Init, RunnersOK
<1>8. EvidenceOK  BY <1>2, <1>3 DEF Database!Init, EvidenceOK, SchemaOK
<1>9. Database!VerdictHonest  BY DEF Database!Init, Database!VerdictHonest
<1>10. QED  BY <1>2, <1>4, <1>5, <1>6, <1>7, <1>8, <1>9 DEF DatabaseInv, DataOK

LEMMA DatabaseStep == ASSUME Given, DatabaseInv, Database!Steps PROVE DatabaseInv'
<1>1. CASE Database!StartImport  BY <1>1, ImportStarted
<1>2. CASE Database!Truncate  BY <1>2, Truncated
<1>3. CASE Database!CopyCsv  BY <1>3, Copied
<1>4. CASE Database!StopImport  BY <1>4, ImportStopped
<1>5. ASSUME NEW r \in Runners, Database!Script(r)  PROVE DatabaseInv'
  <2>1. ASSUME NEW n \in 1..3, Database!StartScript(r, n)  PROVE DatabaseInv'  BY <2>1, ScriptStarts
  <2>2. CASE Database!Capture(r)  BY <2>2, Captures
  <2>3. CASE Database!CheckSnapshot(r)  BY <2>3, ChecksSnapshot
  <2>4. CASE Database!Replace(r)  BY <2>4, Replaces
  <2>5. CASE Database!CheckDatabase(r)  BY <2>5, ChecksDatabase
  <2>6. CASE Database!Execute(r)  BY <2>6, Executes
  <2>7. CASE Database!StopScript(r)  BY <2>7, ScriptStops
  <2>8. QED  BY <1>5, <2>1, <2>2, <2>3, <2>4, <2>5, <2>6, <2>7 DEF Database!Script
<1>6. CASE Database!ApplyByHand  BY <1>6, AppliedByHand
<1>7. CASE Database!Application
  <2>1. ASSUME NEW t \in Database!Business, NEW of \in Database!Parents(t), Database!LegacyInsert(t, of)
        PROVE  DatabaseInv'
    BY <2>1, LegacyInserted
  <2>2. ASSUME NEW t \in Database!Business, NEW of \in Database!Parents(t), Database!StaffInsert(t, of)
        PROVE  DatabaseInv'
    BY <2>2, StaffInserted
  <2>3. CASE Database!Checkout  BY <2>3, CheckedOut
  <2>4. ASSUME NEW k \in Database!Keys, Database!StaffDelete(k)  PROVE DatabaseInv'  BY <2>4, StaffDeleted
  <2>5. ASSUME NEW k \in Database!Keys, Database!ResetOrder(k)  PROVE DatabaseInv'  BY <2>5, ResetDone
  <2>6. QED  BY <1>7, <2>1, <2>2, <2>3, <2>4, <2>5 DEF Database!Application
<1>8. CASE Database!Session2Writes
  <2>1. UNCHANGED <<schema, rows, nextId, evidence, runner, importer>> /\ support' = support + 1
    BY <1>8 DEF Database!Session2Writes, Database!data
  <2>2. DataOK'  BY <2>1, SameData DEF DatabaseInv
  <2>3. ImportOK'  BY <2>1 DEF DatabaseInv, ImportOK, Database!Keys
  <2>4. \A r \in Runners : Script0(runner[r])'  BY <2>1 DEF DatabaseInv, RunnersOK, Script0, Database!Keys
  <2>5. RunnersOK'  BY <2>1, <2>4 DEF DatabaseInv, RunnersOK
  <2>6. EvidenceOK'  BY <2>1 DEF DatabaseInv, EvidenceOK
  <2>7. QED  BY <2>2, <2>3, <2>5, <2>6 DEF DatabaseInv
<1>9. QED  BY <1>1, <1>2, <1>3, <1>4, <1>5, <1>6, <1>7, <1>8 DEF Database!Steps

LEMMA DatabaseSame ==
    ASSUME DatabaseInv, UNCHANGED <<schema, Database!data, Database!outside, runner, importer, inserts>>
    PROVE  DatabaseInv'
<1>1. UNCHANGED <<schema, rows, nextId, support, evidence, runner, importer>>
  BY DEF Database!data, Database!outside
<1>2. DataOK'  BY <1>1, SameData DEF DatabaseInv
<1>3. (ImportOK /\ RunnersOK /\ EvidenceOK)'  BY <1>1, OthersStay DEF Database!Keys
<1>4. QED  BY <1>2, <1>3 DEF DatabaseInv

LEMMA DatabaseInvariance == ASSUME Given PROVE Database!Spec => [](DatabaseInv /\ Database!VerdictHonest)
<1>1. Database!Init => DatabaseInv /\ Database!VerdictHonest  BY DatabaseStarts
<1>2. DatabaseInv /\ Database!VerdictHonest /\ [Database!Next]_Database!vars => (DatabaseInv /\ Database!VerdictHonest)'
  <2> SUFFICES ASSUME DatabaseInv, Database!VerdictHonest, [Database!Next]_Database!vars
               PROVE  (DatabaseInv /\ Database!VerdictHonest)'
    OBVIOUS
  <2>1. CASE verified = None /\ Database!Steps /\ UNCHANGED verified
    BY <2>1, DatabaseStep DEF Database!VerdictHonest
  <2>2. ASSUME NEW n \in 1..3, Database!Verify(n)  PROVE (DatabaseInv /\ Database!VerdictHonest)'
    BY <2>2, VerdictTrue, DatabaseSame DEF Database!Verify
  <2>3. CASE verified' = None /\ UNCHANGED <<schema, Database!data, Database!outside, runner, importer, inserts>>
    BY <2>3, DatabaseSame DEF Database!VerdictHonest
  <2>4. CASE UNCHANGED Database!vars
    <3>1. UNCHANGED <<schema, Database!data, Database!outside, runner, importer, inserts>> /\ UNCHANGED <<verified, rows, schema>>
      BY <2>4 DEF Database!vars, Database!data
    <3>2. Database!VerdictHonest'  BY <3>1 DEF Database!VerdictHonest, Database!Keys, Database!Records
    <3>3. QED  BY <3>1, <3>2, DatabaseSame
  <2>5. QED  BY <2>1, <2>2, <2>3, <2>4 DEF Database!Next
<1>3. QED  BY <1>1, <1>2, PTL DEF Database!Spec

LEMMA RowsFit ==
    ASSUME Given, DatabaseInv
    PROVE  Database!TypeOK /\ Database!StatusesUpgrade /\ Database!SequenceAhead
<1>1. DataOK /\ SchemaOK /\ RowsOK /\ ContentOK /\ RunnersOK  BY DEF DatabaseInv, DataOK
<1>2. Database!TypeOK
  <2>1. ASSUME NEW k \in Database!Keys, k[1] \in Database!Business
        PROVE  Database!Accepts(k[1], rows[k]) /\ rows[k].of \in Database!Keys \cup {None}
    <3>1. Accepted(k) /\ ParentOK(k)  BY <1>1 DEF ContentOK
    <3>2. QED  BY <2>1, <3>1, BusinessIs DEF Accepted, ParentOK, Database!In
  <2>2. QED  BY <1>1, <2>1 DEF Database!TypeOK, SchemaOK, RunnersOK, Script0
<1>3. Database!StatusesUpgrade
  <2>1. SUFFICES ASSUME schema.statuses = "old", NEW k \in Database!In("orders")
                 PROVE  Database!Backfilled(rows[k]).status \in Database!Statuses("new") \cup {None}
    BY DEF Database!StatusesUpgrade
  <2>2. schema.portal  BY <1>1, <2>1 DEF SchemaOK
  <2>3. PICK c : c = rows[k]  OBVIOUS
  <2>4. k \in Database!Keys /\ k[1] = "orders" /\ "orders" \in Database!Business  BY BusinessIs DEF Database!In
  <2>5. c \in Column /\ OriginOK(k) /\ Database!Accepts("orders", c)
    BY <1>1, <2>3, <2>4 DEF RowsOK, ContentOK, Accepted
  <2>6. c.origin \in Names  BY <2>2, <2>3, <2>5 DEF OriginOK, Column
  <2>7. IF c.origin = "imported" THEN c.status = None ELSE c.status \in Database!Statuses("old")
    BY <2>1, <2>2, <2>5 DEF Database!Accepts
  <2>8. CASE c.origin \in {"staff", "customer"} /\ c.status = "completed"
    <3>1. Database!Backfilled(c) = [c EXCEPT !.status = "ready_shipped"]  BY <2>8 DEF Database!Backfilled
    <3>2. Database!Backfilled(c).status = "ready_shipped"  BY <2>5, <3>1 DEF Column
    <3>3. QED  BY <2>3, <3>2 DEF Database!Statuses
  <2>9. CASE ~(c.origin \in {"staff", "customer"} /\ c.status = "completed")
    <3>1. Database!Backfilled(c) = c  BY <2>9 DEF Database!Backfilled
    <3>2. QED  BY <2>3, <2>6, <2>7, <2>9, <3>1 DEF Database!Statuses, Names
  <2>10. QED  BY <2>8, <2>9
<1>4. QED  BY <1>1, <1>2, <1>3 DEF RowsOK

-----------------------------------------------------------------------------
(* The snapshot of session 3.  A job goes through the stages of Reading,    *)
(* and what it has read of each part stays until all are read; a part in    *)
(* which the refunds are is complete, since their file is copied last.      *)

Reading == <<"protected", "canonical">> \o Snapshot!Parts \o <<"core">>
PartNames == {"counts", "products", "orders", "items", "refunds", "sessions",
              "session_metrics", "sales_summary", "product_performance"}
StageNames == {"protected", "canonical", "core"} \cup PartNames
              \cup {"prepare", "payload", "start", "call", "reconcile", "safety", "safe", "stop"}

\* What is left of reading the snapshot, and of the jobs then.
From(k) == SubSeq(Reading, k, 12)
Measuring == <<"payload", "start", "call", "reconcile", "safety", "stop">>
Rests == {<<>>, <<"payload">>, <<"reconcile">>, <<"start">>, <<"start", "call">>, Measuring}

\* The importer has copied the files before its next one; the refunds' file is the last.
DatabaseOK ==
    /\ importing \in 0..6 /\ loaded \subseteq Snapshot!Tables
    /\ importing # 0 => loaded = {Snapshot!Files[i] : i \in 1..(importing - 1)}
    /\ "refunds" \in loaded => loaded = Snapshot!Tables

\* A part in which the refunds are is complete.
PartOK(p, v) == v \subseteq Snapshot!Reads(p) /\ ("refunds" \in v => v = Snapshot!Reads(p))

CoreType == [PartNames -> SUBSET Snapshot!Tables]
CoreOK(core) == core \in CoreType /\ \A p \in PartNames : PartOK(p, core[p])

\* The payloads have been measured on this snapshot.
Measured(core) ==
    core # None /\ \A p \in PartNames \ {"counts", "sales_summary"} : Snapshot!First(p) \in core[p]

\* What a job may have left to do: to measure what there is; to make a snapshot if there
\* is none; to read it.
Working(core, kind, t) ==
    \/ t \in {<<>>, <<"start">>, <<"start", "call">>, <<"call">>, <<"stop">>,
              <<"safety", "stop">>, <<"safe", "stop">>}
    \/ t = <<"payload">> /\ core # None
    \/ t = <<"reconcile">> /\ core # None /\ kind # "all"
    \/ t = Measuring /\ core # None
    \/ /\ t \in {<<"start", "call", "reconcile", "safety", "stop">>, <<"call", "reconcile", "safety", "stop">>,
                 <<"reconcile", "safety", "stop">>}
       /\ Measured(core)

Preparing(kind, t) ==
    \E r \in Rests : t = <<"prepare">> \o r /\ (r = <<"reconcile">> => kind # "all")

AtStage(core, kind, t, d, k) ==
    /\ core = None
    /\ \E r \in Rests : t = From(k) \o r /\ (r = <<"reconcile">> => kind # "all")
    /\ Len(d) = IF k < 3 THEN 0 ELSE k - 3
    /\ \A i \in DOMAIN d : PartOK(Snapshot!Parts[i], d[i])

JobOK ==
    /\ job = [kind |-> job.kind, todo |-> job.todo, draft |-> job.draft]
    /\ job.draft \in Seq(SUBSET Snapshot!Tables)
    /\ \/ Working(runtime.core, job.kind, job.todo) /\ job.draft = <<>>
       \/ Preparing(job.kind, job.todo) /\ job.draft = <<>>
       \/ \E k \in 1..12 : AtStage(runtime.core, job.kind, job.todo, job.draft, k)

RuntimeOK ==
    /\ runtime = [core |-> runtime.core, before |-> runtime.before, host |-> runtime.host]
    /\ runtime.core # None => CoreOK(runtime.core)
    /\ verdict # None => runtime.core # None

SnapshotInv == DatabaseOK /\ JobOK /\ RuntimeOK /\ Snapshot!VerdictCovers

-----------------------------------------------------------------------------

LEMMA PartsAre ==
    /\ Snapshot!Parts = <<"counts", "products", "orders", "items", "refunds", "sessions",
                          "session_metrics", "sales_summary", "product_performance">>
    /\ Snapshot!Range(Snapshot!Parts) = PartNames
    /\ DOMAIN Snapshot!Parts = 1..9 /\ \A i \in 1..9 : Snapshot!Parts[i] \in PartNames
    /\ Snapshot!Tables = {"sessions", "products", "pageviews", "orders", "items", "refunds"}
<1>1. Snapshot!Parts = <<"counts", "products", "orders", "items", "refunds", "sessions",
           "session_metrics", "sales_summary", "product_performance">>
  BY DEF Snapshot!Parts
<1>2. Snapshot!Files = <<"sessions", "products", "pageviews", "orders", "items", "refunds">>
  BY DEF Snapshot!Files
<1>3. DOMAIN Snapshot!Parts = 1..9 /\ 1..9 = {1, 2, 3, 4, 5, 6, 7, 8, 9}  BY <1>1
<1>4. Snapshot!Range(Snapshot!Parts) = {Snapshot!Parts[i] : i \in 1..9}
  BY <1>3 DEF Snapshot!Range
<1>5. DOMAIN Snapshot!Files = 1..6 /\ 1..6 = {1, 2, 3, 4, 5, 6}  BY <1>2
<1>6. Snapshot!Tables = {Snapshot!Files[i] : i \in 1..6}
  BY <1>5 DEF Snapshot!Tables, Snapshot!Range
<1>7. Snapshot!Range(Snapshot!Parts) = PartNames /\ \A i \in 1..9 : Snapshot!Parts[i] \in PartNames
  BY <1>1, <1>3, <1>4 DEF PartNames
<1>8. Snapshot!Tables = {"sessions", "products", "pageviews", "orders", "items", "refunds"}
  BY <1>2, <1>5, <1>6
<1>9. QED  BY <1>1, <1>3, <1>7, <1>8

\* A stage and what comes after it.
LEMMA OneAndRest ==
    ASSUME NEW S, NEW e \in S, NEW u \in Seq(S)
    PROVE  /\ <<e>> \o u \in Seq(S) /\ <<e>> \o u # <<>>
           /\ Head(<<e>> \o u) = e /\ Tail(<<e>> \o u) = u
<1>1. <<e>> \in Seq(S) /\ Len(<<e>>) = 1 /\ <<e>>[1] = e  OBVIOUS
<1>2. PICK s : s = <<e>> \o u  OBVIOUS
<1>3. /\ s \in Seq(S) /\ Len(s) = 1 + Len(u)
      /\ \A i \in 1..(1 + Len(u)) : s[i] = IF i <= 1 THEN <<e>>[i] ELSE u[i - 1]
  BY <1>1, <1>2, ConcatProperties
<1>4. Len(u) \in Nat  BY LenProperties
<1>5. s # <<>> /\ Head(s) = e  BY <1>1, <1>3, <1>4
<1>6. /\ Tail(s) \in Seq(S) /\ Len(Tail(s)) = Len(u)
      /\ \A i \in 1..Len(Tail(s)) : Tail(s)[i] = s[i + 1]
  BY <1>3, <1>4, <1>5, HeadTailProperties
<1>7. \A i \in 1..Len(Tail(s)) : Tail(s)[i] = u[i]  BY <1>3, <1>4, <1>6
<1>8. Tail(s) = u  BY <1>6, <1>7, SeqEqual
<1>9. QED  BY <1>2, <1>3, <1>5, <1>8

LEMMA ReadingIs ==
    /\ Reading \in Seq(StageNames) /\ Len(Reading) = 12
    /\ Reading[1] = "protected" /\ Reading[2] = "canonical" /\ Reading[12] = "core"
    /\ \A i \in 1..9 : Reading[i + 2] = Snapshot!Parts[i]
<1>1. PICK a, p, c : a = <<"protected", "canonical">> /\ p = Snapshot!Parts /\ c = <<"core">>  OBVIOUS
<1>2. a \in Seq(StageNames) /\ Len(a) = 2 /\ a[1] = "protected" /\ a[2] = "canonical"
  BY <1>1 DEF StageNames
<1>3. c \in Seq(StageNames) /\ Len(c) = 1 /\ c[1] = "core"  BY <1>1 DEF StageNames
<1>4. p \in Seq(StageNames) /\ Len(p) = 9  BY <1>1, PartsAre DEF StageNames, PartNames
<1>5. PICK b : b = a \o p  OBVIOUS
<1>6. /\ b \in Seq(StageNames) /\ Len(b) = 11
      /\ \A i \in 1..11 : b[i] = IF i <= 2 THEN a[i] ELSE p[i - 2]
  <2>1. /\ a \o p \in Seq(StageNames) /\ Len(a \o p) = Len(a) + Len(p)
        /\ \A i \in 1..Len(a) + Len(p) : (a \o p)[i] = IF i <= Len(a) THEN a[i] ELSE p[i - Len(a)]
    BY <1>2, <1>4, ConcatProperties
  <2>2. Len(a) + Len(p) = 11  BY <1>2, <1>4
  <2>3. \A i \in 1..11 : b[i] = IF i <= 2 THEN a[i] ELSE p[i - 2]
    BY ONLY <1>2, <1>5, <2>1, <2>2
  <2>4. QED  BY ONLY <1>5, <2>1, <2>2, <2>3
<1>7. /\ Reading \in Seq(StageNames) /\ Len(Reading) = 12
      /\ \A i \in 1..12 : Reading[i] = IF i <= 11 THEN b[i] ELSE c[i - 11]
  <2>1. /\ b \o c \in Seq(StageNames) /\ Len(b \o c) = Len(b) + Len(c)
        /\ \A i \in 1..Len(b) + Len(c) : (b \o c)[i] = IF i <= Len(b) THEN b[i] ELSE c[i - Len(b)]
    BY <1>3, <1>6, ConcatProperties
  <2>2. Reading = b \o c  BY <1>1, <1>5 DEF Reading
  <2>3. Len(b) + Len(c) = 12  BY <1>3, <1>6
  <2>4. \A i \in 1..12 : Reading[i] = IF i <= 11 THEN b[i] ELSE c[i - 11]
    BY ONLY <1>6, <2>1, <2>2, <2>3
  <2>5. QED  BY ONLY <2>1, <2>2, <2>3, <2>4
<1>8. \A i \in 1..9 : Reading[i + 2] = p[i]
  <2>1. \A i \in 1..9 : Reading[i + 2] = b[i + 2]  BY <1>7
  <2>2. \A i \in 1..9 : b[i + 2] = p[i]  BY <1>6
  <2>3. QED  BY <2>1, <2>2
<1>9. QED  BY <1>1, <1>2, <1>3, <1>6, <1>7, <1>8

LEMMA RestsAre ==
    /\ Rests \subseteq Seq(StageNames)
    /\ \A r \in Rests : r = <<>> \/ Head(r) \in {"payload", "reconcile", "start"}
BY DEF Rests, Measuring, StageNames

\* The stage of k is the first of what is left to read.
LEMMA AtReading ==
    ASSUME NEW k \in 1..12, NEW r \in Rests
    PROVE  /\ From(k) \o r # <<>> /\ Head(From(k) \o r) = Reading[k]
           /\ Tail(From(k) \o r) = From(k + 1) \o r
<1>1. From(k) \in Seq(StageNames) /\ From(k + 1) \in Seq(StageNames) /\ Reading[k] \in StageNames
  <2>1. \A i \in 1..12 : Reading[i] \in StageNames  BY ReadingIs, ElementOfSeq
  <2>2. ASSUME NEW j \in 1..13  PROVE From(j) \in Seq(StageNames)
    <3>1. \A i \in j..12 : Reading[i] \in StageNames  BY <2>1
    <3>2. j \in Int /\ 12 \in Int  OBVIOUS
    <3>3. QED  BY <3>1, <3>2, SubSeqProperties DEF From
  <2>3. k \in 1..13 /\ k + 1 \in 1..13 /\ k \in 1..12  OBVIOUS
  <2>4. QED  BY <2>1, <2>2, <2>3
<1>2. From(k) = <<Reading[k]>> \o From(k + 1)
  BY ReadingIs, SubSeqRecursiveFirst DEF From
<1>3. r \in Seq(StageNames)  BY RestsAre
<1>4. From(k) \o r = <<Reading[k]>> \o (From(k + 1) \o r)
  BY <1>1, <1>2, <1>3, ConcatAssociative
<1>5. From(k + 1) \o r \in Seq(StageNames)  BY <1>1, <1>3, ConcatProperties
<1>6. QED  BY <1>1, <1>4, <1>5, OneAndRest

LEMMA AfterReading ==
    ASSUME NEW r \in Rests
    PROVE  From(1) \o r = Reading \o r /\ From(13) \o r = r
<1>1. From(1) = Reading  BY ReadingIs, SubSeqFull DEF From
<1>2. From(13) = <<>>  BY SubSeqEmpty DEF From
<1>3. QED  BY <1>1, <1>2, RestsAre, ConcatEmptySeq

LEMMA StagesOfReading ==
    ASSUME NEW k \in 1..12
    PROVE  /\ Reading[k] \in {"protected", "canonical", "core"} \cup PartNames
           /\ k = 1 <=> Reading[k] = "protected"
           /\ k = 2 <=> Reading[k] = "canonical"
           /\ k = 12 <=> Reading[k] = "core"
           /\ k \in 3..11 <=> Reading[k] \in PartNames
           /\ k \in 3..11 => Reading[k] = Snapshot!Parts[k - 2]
<1>1. CASE k \in {1, 2, 12}  BY <1>1, ReadingIs DEF PartNames
<1>2. CASE k \in 3..11
  <2>1. k - 2 \in 1..9 /\ (k - 2) + 2 = k  BY <1>2
  <2>2. Reading[k] = Snapshot!Parts[k - 2]  BY <2>1, ReadingIs
  <2>3. Reading[k] \in PartNames  BY <2>1, <2>2, PartsAre
  <2>4. k # 1 /\ k # 2 /\ k # 12  BY <1>2
  <2>5. QED  BY <1>2, <2>2, <2>3, <2>4 DEF PartNames
<1>3. QED  BY <1>1, <1>2

\* What a job does first.
LEMMA WorksOn ==
    ASSUME NEW core, NEW kind, NEW t, Working(core, kind, t), t # <<>>
    PROVE  /\ Head(t) \in {"payload", "start", "call", "reconcile", "safety", "safe", "stop"}
           /\ Head(t) # "payload" => Working(core, kind, Tail(t))
           /\ Head(t) = "payload" => core # None /\ (Measured(core) => Working(core, kind, Tail(t)))
           /\ Head(t) = "reconcile" => core # None /\ (kind = "all" => Measured(core))
           /\ Head(t) = "start" /\ core = None => t \in Rests
           /\ Head(t) = "safety" => Tail(t) = <<"stop">>
<1> DEFINE A == <<"start", "call", "reconcile", "safety", "stop">>
           B == <<"call", "reconcile", "safety", "stop">>
           C == <<"reconcile", "safety", "stop">>
<1>1. Measuring # <<>> /\ Head(Measuring) = "payload" /\ Tail(Measuring) = A  BY DEF Measuring
<1>2. A # <<>> /\ Head(A) = "start" /\ Tail(A) = B  OBVIOUS
<1>3. B # <<>> /\ Head(B) = "call" /\ Tail(B) = C  OBVIOUS
<1>4. C # <<>> /\ Head(C) = "reconcile" /\ Tail(C) = <<"safety", "stop">>  OBVIOUS
<1>5. CASE t = Measuring /\ core # None  BY <1>1, <1>5 DEF Working
<1>6. CASE t \in {A, B, C} /\ Measured(core)
  <2>1. core # None  BY <1>6 DEF Measured
  <2>2. QED  BY <1>2, <1>3, <1>4, <1>6, <2>1 DEF Working
<1>7. CASE t = <<"payload">> /\ core # None
  <2>1. Head(<<"payload">>) = "payload" /\ Tail(<<"payload">>) = <<>>  OBVIOUS
  <2>2. QED  BY <1>7, <2>1 DEF Working
<1>8. CASE t = <<"reconcile">> /\ core # None /\ kind # "all"
  <2>1. Head(<<"reconcile">>) = "reconcile" /\ Tail(<<"reconcile">>) = <<>>  OBVIOUS
  <2>2. QED  BY <1>8, <2>1 DEF Working
<1>9. CASE t \in {<<"start">>, <<"start", "call">>, <<"call">>, <<"stop">>, <<"safety", "stop">>, <<"safe", "stop">>}
  <2>1. /\ Head(<<"start">>) = "start" /\ Tail(<<"start">>) = <<>>
        /\ Head(<<"start", "call">>) = "start" /\ Tail(<<"start", "call">>) = <<"call">>
        /\ Head(<<"call">>) = "call" /\ Tail(<<"call">>) = <<>>
        /\ Head(<<"stop">>) = "stop" /\ Tail(<<"stop">>) = <<>>
        /\ Head(<<"safety", "stop">>) = "safety" /\ Tail(<<"safety", "stop">>) = <<"stop">>
        /\ Head(<<"safe", "stop">>) = "safe" /\ Tail(<<"safe", "stop">>) = <<"stop">>
    OBVIOUS
  <2>2. QED  BY <1>9, <2>1 DEF Working, Rests
<1>10. QED  BY <1>5, <1>6, <1>7, <1>8, <1>9 DEF Working

LEMMA PreparesFirst ==
    ASSUME NEW kind, NEW t, Preparing(kind, t)
    PROVE  /\ t # <<>> /\ Head(t) = "prepare"
           /\ Tail(t) \in Rests /\ (Tail(t) = <<"reconcile">> => kind # "all")
<1>1. PICK r \in Rests : t = <<"prepare">> \o r /\ (r = <<"reconcile">> => kind # "all")
  BY DEF Preparing
<1>2. "prepare" \in StageNames /\ r \in Seq(StageNames)  BY RestsAre DEF StageNames
<1>3. /\ <<"prepare">> \o r # <<>>
      /\ Head(<<"prepare">> \o r) = "prepare" /\ Tail(<<"prepare">> \o r) = r
  BY <1>2, OneAndRest
<1>4. QED  BY <1>1, <1>3

LEMMA ReadsFirst ==
    ASSUME NEW core, NEW kind, NEW t, NEW d, NEW k \in 1..12, AtStage(core, kind, t, d, k)
    PROVE  t # <<>> /\ Head(t) = Reading[k]
BY AtReading DEF AtStage

\* A rest of a job can be worked on once there is a snapshot.
LEMMA RestWorks ==
    ASSUME NEW core, core # None, NEW kind, NEW r \in Rests, r = <<"reconcile">> => kind # "all"
    PROVE  Working(core, kind, r)
BY DEF Rests, Working

LEMMA JobMoves ==
    ASSUME JobOK, NEW t
    PROVE  [job EXCEPT !.todo = t] = [kind |-> job.kind, todo |-> t, draft |-> job.draft]
<1>1. PICK kind, todo, draft : job = [kind |-> kind, todo |-> todo, draft |-> draft]  BY DEF JobOK
<1>2. QED  BY <1>1

\* Which of the three it is, by the stage that is next.
LEMMA StageTells ==
    ASSUME JobOK, NEW first, Snapshot!At(first)
    PROVE  /\ first \in {"payload", "start", "call", "reconcile", "safety", "safe", "stop"} =>
                 Working(runtime.core, job.kind, job.todo) /\ job.draft = <<>>
           /\ first = "prepare" => Preparing(job.kind, job.todo) /\ job.draft = <<>>
           /\ \A k \in 1..12 : first = Reading[k] =>
                 AtStage(runtime.core, job.kind, job.todo, job.draft, k)
<1>1. job.todo # <<>> /\ Head(job.todo) = first  BY DEF Snapshot!At
<1>2. CASE Working(runtime.core, job.kind, job.todo) /\ job.draft = <<>>
  <2>1. first \in {"payload", "start", "call", "reconcile", "safety", "safe", "stop"}
    BY <1>1, <1>2, WorksOn
  <2>2. \A k \in 1..12 : first # Reading[k]  BY <2>1, StagesOfReading DEF PartNames
  <2>3. QED  BY <1>2, <2>1, <2>2
<1>3. CASE Preparing(job.kind, job.todo) /\ job.draft = <<>>
  <2>1. first = "prepare"  BY <1>1, <1>3, PreparesFirst
  <2>2. \A k \in 1..12 : first # Reading[k]  BY <2>1, StagesOfReading DEF PartNames
  <2>3. QED  BY <1>3, <2>1, <2>2
<1>4. ASSUME NEW j \in 1..12, AtStage(runtime.core, job.kind, job.todo, job.draft, j)
      PROVE  /\ first \notin {"payload", "start", "call", "reconcile", "safety", "safe", "stop", "prepare"}
             /\ \A k \in 1..12 : first = Reading[k] => k = j
  <2>1. first = Reading[j]  BY <1>1, <1>4, ReadsFirst
  <2>2. ASSUME NEW k \in 1..12, Reading[k] = Reading[j]  PROVE k = j
    <3>1. CASE j \in {1, 2, 12}  BY <2>2, <3>1, StagesOfReading
    <3>2. CASE j \in 3..11
      <4>1. k \in 3..11 /\ Snapshot!Parts[k - 2] = Snapshot!Parts[j - 2]  BY <2>2, <3>2, StagesOfReading
      <4>2. j - 2 \in {1, 2, 3, 4, 5, 6, 7, 8, 9} /\ k - 2 \in {1, 2, 3, 4, 5, 6, 7, 8, 9}  BY <3>2, <4>1
      <4>3. \A a, b \in {1, 2, 3, 4, 5, 6, 7, 8, 9} : Snapshot!Parts[a] = Snapshot!Parts[b] => a = b
        BY PartsAre
      <4>4. j - 2 = k - 2  BY <4>1, <4>2, <4>3
      <4>5. QED  BY <3>2, <4>1, <4>4
    <3>3. QED  BY <3>1, <3>2
  <2>3. QED  BY <2>1, <2>2, StagesOfReading DEF PartNames
<1>5. QED  BY <1>2, <1>3, <1>4 DEF JobOK

LEMMA SnapshotReads ==
    ASSUME DatabaseOK, NEW p \in PartNames
    PROVE  Snapshot!Reads(p) \subseteq Snapshot!Tables /\ PartOK(p, loaded \cap Snapshot!Reads(p))
<1>1. Snapshot!Reads(p) \subseteq Snapshot!Tables  BY PartsAre DEF Snapshot!Reads, PartNames
<1>2. QED  BY <1>1 DEF PartOK, DatabaseOK

\* Steps that leave the process alone.
LEMMA ProcessSame ==
    ASSUME SnapshotInv, UNCHANGED <<runtime, job, verdict>>
    PROVE  JobOK' /\ RuntimeOK' /\ Snapshot!VerdictCovers'
BY DEF SnapshotInv, JobOK, RuntimeOK, Snapshot!VerdictCovers, Snapshot!Whole

LEMMA DatabaseSteps ==
    ASSUME SnapshotInv, \/ Snapshot!StartImport \/ Snapshot!CopyFile \/ Snapshot!StopImport \/ Snapshot!AddRow
    PROVE  SnapshotInv'
<1> DEFINE F == Snapshot!Files
<1>1. F = <<"sessions", "products", "pageviews", "orders", "items", "refunds">> /\ Len(F) = 6
  BY DEF Snapshot!Files
<1>2. /\ importing \in 0..6 /\ loaded \subseteq Snapshot!Tables
      /\ importing # 0 => loaded = {F[i] : i \in 1..(importing - 1)}
      /\ "refunds" \in loaded => loaded = Snapshot!Tables
  BY DEF SnapshotInv, DatabaseOK
<1>3. UNCHANGED <<runtime, job, verdict>>
  BY DEF Snapshot!StartImport, Snapshot!CopyFile, Snapshot!StopImport, Snapshot!AddRow, Snapshot!Process
<1>4. DatabaseOK'
  <2>1. CASE Snapshot!StartImport
    <3>1. importing' = 1 /\ loaded' = {}  BY <2>1 DEF Snapshot!StartImport
    <3>2. 1..(1 - 1) = {}  OBVIOUS
    <3>3. QED  BY <3>1, <3>2 DEF DatabaseOK
  <2>2. CASE Snapshot!CopyFile
    <3>1. /\ importing \in {1, 2, 3, 4, 5, 6} /\ loaded' = loaded \cup {F[importing]}
          /\ importing' = (importing + 1) % 7
      BY <1>1, <1>2, <2>2 DEF Snapshot!CopyFile
    <3>2. importing' = IF importing = 6 THEN 0 ELSE importing + 1  BY <3>1
    <3>3. loaded' = {F[i] : i \in 1..importing}
      <4>1. 1..importing = 1..(importing - 1) \cup {importing}  BY <3>1
      <4>2. QED  BY <1>2, <3>1, <4>1
    <3>4. F[importing] \in Snapshot!Tables  BY <1>1, <3>1, PartsAre
    <3>5. CASE importing = 6
      <4>1. 1..importing = {1, 2, 3, 4, 5, 6}  BY <3>5
      <4>2. loaded' = Snapshot!Tables  BY <1>1, <3>3, <4>1, PartsAre
      <4>3. QED  BY <3>2, <3>5, <4>2 DEF DatabaseOK
    <3>6. CASE importing # 6
      <4>1. importing' = importing + 1 /\ importing' - 1 = importing /\ importing' \in 0..6  BY <3>1, <3>2, <3>6
      <4>2. \A i \in 1..importing : i \in {1, 2, 3, 4, 5}  BY <3>1, <3>6
      <4>3. "refunds" \notin loaded'  BY <1>1, <3>3, <4>2
      <4>4. QED  BY <1>2, <3>1, <3>3, <3>4, <4>1, <4>3 DEF DatabaseOK
    <3>7. QED  BY <3>5, <3>6
  <2>3. CASE Snapshot!StopImport
    <3>1. importing' = 0 /\ loaded' = loaded  BY <2>3 DEF Snapshot!StopImport
    <3>2. QED  BY <1>2, <3>1 DEF DatabaseOK
  <2>4. CASE Snapshot!AddRow
    <3>1. importing' = importing /\ loaded' = loaded  BY <2>4 DEF Snapshot!AddRow
    <3>2. QED  BY <1>2, <3>1 DEF DatabaseOK
  <2>5. QED  BY <2>1, <2>2, <2>3, <2>4
<1>5. QED  BY <1>3, <1>4, ProcessSame DEF SnapshotInv

\* Steps of the process that leave what the snapshot and the last verdict say.
LEMMA RuntimeKept ==
    ASSUME SnapshotInv, UNCHANGED <<loaded, importing, verdict>>, runtime'.core = runtime.core,
           runtime' = [core |-> runtime'.core, before |-> runtime'.before, host |-> runtime'.host]
    PROVE  DatabaseOK' /\ RuntimeOK' /\ Snapshot!VerdictCovers'
<1>1. DatabaseOK'  BY DEF SnapshotInv, DatabaseOK
<1>2. RuntimeOK'  BY DEF SnapshotInv, RuntimeOK
<1>3. Snapshot!VerdictCovers'
  BY DEF SnapshotInv, Snapshot!VerdictCovers, Snapshot!Whole
<1>4. QED  BY <1>1, <1>2, <1>3

LEMMA RuntimeSame ==
    ASSUME SnapshotInv, UNCHANGED <<loaded, importing, verdict, runtime>>
    PROVE  DatabaseOK' /\ RuntimeOK' /\ Snapshot!VerdictCovers'
BY RuntimeKept DEF SnapshotInv, RuntimeOK

LEMMA JobWorks ==
    ASSUME NEW kind, NEW t, job' = [kind |-> kind, todo |-> t, draft |-> <<>>],
           Working(runtime'.core, kind, t) \/ Preparing(kind, t)
    PROVE  JobOK'
<1>1. job'.kind = kind /\ job'.todo = t /\ job'.draft = <<>>  OBVIOUS
<1>2. <<>> \in Seq(SUBSET Snapshot!Tables)  OBVIOUS
<1>3. QED  BY <1>1, <1>2 DEF JobOK

LEMMA JobReads ==
    ASSUME NEW kind, NEW t, NEW d \in Seq(SUBSET Snapshot!Tables),
           job' = [kind |-> kind, todo |-> t, draft |-> d],
           NEW k \in 1..12, AtStage(runtime'.core, kind, t, d, k)
    PROVE  JobOK'
<1>1. job'.kind = kind /\ job'.todo = t /\ job'.draft = d  OBVIOUS
<1>2. Snapshot!Tables' = Snapshot!Tables  BY DEF Snapshot!Tables, Snapshot!Files
<1>3. QED  BY <1>1, <1>2 DEF JobOK

LEMMA RaiseJob ==
    ASSUME SnapshotInv, Snapshot!Raise
    PROVE  JobOK'
<1>1. PICK kind, todo, draft : job = [kind |-> kind, todo |-> todo, draft |-> draft]  BY DEF SnapshotInv, JobOK
<1>2. \/ job' = [kind |-> kind, todo |-> <<"stop">>, draft |-> <<>>]
      \/ job' = [kind |-> None, todo |-> <<>>, draft |-> <<>>]
  BY <1>1 DEF Snapshot!Raise, Snapshot!NoJob
<1>3. \A c, w : Working(c, w, <<"stop">>) /\ Working(c, w, <<>>)  BY DEF Working
<1>4. QED  BY <1>2, <1>3, JobWorks

LEMMA NoJobWorks ==
    ASSUME job' = Snapshot!NoJob
    PROVE  JobOK'
<1>1. \A c, w : Working(c, w, <<>>)  BY DEF Working
<1>2. QED  BY <1>1, JobWorks DEF Snapshot!NoJob

LEMMA BeginStep == ASSUME SnapshotInv, NEW kind \in DOMAIN Snapshot!Stages, Snapshot!Begin(kind) PROVE SnapshotInv'
<1>1. UNCHANGED <<loaded, importing, verdict, runtime>>
  BY DEF Snapshot!Begin, Snapshot!database
<1>2. job' = [kind |-> kind, todo |-> Snapshot!Stages[kind], draft |-> <<>>]
  BY DEF Snapshot!Begin, Snapshot!NoJob
<1>3. PICK t : t = Snapshot!Stages[kind]  OBVIOUS
<1>4. \/ t \in {<<"start">>, <<"start", "call">>}
      \/ \E r \in Rests : t = <<"prepare">> \o r /\ (r = <<"reconcile">> => kind # "all")
  <2>1. /\ kind \in {"serve", "measure", "payload", "compose", "reconcile", "all"}
        /\ kind = "serve" => t = <<"start">>
        /\ kind = "measure" => t = <<"start", "call">>
        /\ kind = "payload" => t = <<"prepare", "payload">>
        /\ kind = "compose" => t = <<"prepare">>
        /\ kind = "reconcile" => t = <<"prepare", "reconcile">>
        /\ kind = "all" => t = <<"prepare", "payload", "start", "call", "reconcile", "safety", "stop">>
    BY <1>3 DEF Snapshot!Stages
  <2>2. /\ <<"prepare", "payload">> = <<"prepare">> \o <<"payload">>
        /\ <<"prepare">> = <<"prepare">> \o <<>>
        /\ <<"prepare", "reconcile">> = <<"prepare">> \o <<"reconcile">>
        /\ <<"prepare", "payload", "start", "call", "reconcile", "safety", "stop">> = <<"prepare">> \o Measuring
    BY DEF Measuring
  <2>3. Measuring # <<"reconcile">> /\ <<"payload">> # <<"reconcile">> /\ <<>> # <<"reconcile">>
    BY DEF Measuring
  <2>4. QED  BY <2>1, <2>2, <2>3 DEF Rests
<1>5. Working(runtime'.core, kind, t) \/ Preparing(kind, t)
  BY <1>4 DEF Working, Preparing
<1>6. QED  BY <1>1, <1>2, <1>3, <1>5, JobWorks, RuntimeSame DEF SnapshotInv

LEMMA PrepareStep == ASSUME SnapshotInv, Snapshot!Prepare PROVE SnapshotInv'
<1>1. UNCHANGED <<loaded, importing, verdict, runtime>>
  BY DEF Snapshot!Prepare, Snapshot!Kept, Snapshot!database
<1>2. PICK r : r = Tail(job.todo)  OBVIOUS
<1>3. /\ r \in Rests /\ (r = <<"reconcile">> => job.kind # "all")
      /\ job.draft = <<>>
  BY <1>2, StageTells, PreparesFirst DEF SnapshotInv, Snapshot!Prepare
<1>4. job' = [kind |-> job.kind, todo |-> IF runtime.core # None THEN r ELSE Reading \o r, draft |-> job.draft]
  BY <1>2, JobMoves DEF SnapshotInv, Snapshot!Prepare, Snapshot!Goto, Reading
<1>5. CASE runtime.core # None
  <2>1. Working(runtime'.core, job.kind, r)  BY <1>1, <1>3, <1>5, RestWorks
  <2>2. JobOK'  BY <1>3, <1>4, <1>5, <2>1, JobWorks
  <2>3. QED  BY <1>1, <2>2, RuntimeSame DEF SnapshotInv
<1>6. CASE runtime.core = None
  <2>1. AtStage(runtime'.core, job.kind, From(1) \o r, <<>>, 1)
    BY <1>1, <1>3, <1>6 DEF AtStage
  <2>2. job' = [kind |-> job.kind, todo |-> From(1) \o r, draft |-> <<>>]
    BY <1>3, <1>4, <1>6, AfterReading
  <2>3. <<>> \in Seq(SUBSET Snapshot!Tables) /\ 1 \in 1..12  OBVIOUS
  <2>4. JobOK'  BY <2>1, <2>2, <2>3, JobReads
  <2>5. QED  BY <1>1, <2>4, RuntimeSame DEF SnapshotInv
<1>7. QED  BY <1>5, <1>6

LEMMA DraftHolds ==
    ASSUME SnapshotInv, NEW k \in 1..12, AtStage(runtime.core, job.kind, job.todo, job.draft, k)
    PROVE  /\ runtime.core = None
           /\ job.draft \in Seq(SUBSET Snapshot!Tables)
           /\ Len(job.draft) = IF k < 3 THEN 0 ELSE k - 3
           /\ \A i \in DOMAIN job.draft : PartOK(Snapshot!Parts[i], job.draft[i])
<1>1. JobOK  BY DEF SnapshotInv
<1>2. job.draft \in Seq(SUBSET Snapshot!Tables)  BY ONLY <1>1 DEF JobOK
<1>3. QED  BY <1>2 DEF AtStage

\* A step while the snapshot is read: on to the next part, with what was read.
LEMMA NextStage ==
    ASSUME SnapshotInv, NEW k \in 1..11, Snapshot!At(Reading[k]), NEW d \in Seq(SUBSET Snapshot!Tables),
           job' = [kind |-> job.kind, todo |-> Tail(job.todo), draft |-> d],
           Len(d) = IF k < 2 THEN 0 ELSE k - 2,
           \A i \in DOMAIN d : PartOK(Snapshot!Parts[i], d[i]),
           runtime'.core = runtime.core
    PROVE  JobOK'
<1>1. k \in 1..12 /\ k + 1 \in 1..12  OBVIOUS
<1>2. AtStage(runtime.core, job.kind, job.todo, job.draft, k)  BY <1>1, StageTells DEF SnapshotInv
<1>3. PICK n : n = k + 1  OBVIOUS
<1>4. PICK r \in Rests : Tail(job.todo) = From(n) \o r /\ (r = <<"reconcile">> => job.kind # "all")
  BY <1>1, <1>2, <1>3, AtReading DEF AtStage
<1>5. PICK t : t = Tail(job.todo)  OBVIOUS
<1>6. n \in 1..12 /\ Len(d) = IF n < 3 THEN 0 ELSE n - 3  BY <1>3
<1>7. AtStage(runtime'.core, job.kind, t, d, n)
  BY <1>2, <1>4, <1>5, <1>6 DEF AtStage
<1>8. QED  BY <1>5, <1>6, <1>7, JobReads

LEMMA FingerprintSteps ==
    ASSUME SnapshotInv, Snapshot!FingerprintProtected \/ Snapshot!FingerprintCanonical
    PROVE  SnapshotInv'
<1>1. PICK core, before, host : runtime = [core |-> core, before |-> before, host |-> host]
  BY DEF SnapshotInv, RuntimeOK
<1>2. UNCHANGED <<loaded, importing, verdict>>
  BY DEF Snapshot!FingerprintProtected, Snapshot!FingerprintCanonical, Snapshot!Kept, Snapshot!database
<1>3. \E b : runtime' = [core |-> core, before |-> b, host |-> host]
  <2>1. CASE Snapshot!FingerprintProtected
    BY <1>1, <2>1 DEF Snapshot!FingerprintProtected
  <2>2. CASE Snapshot!FingerprintCanonical
    BY <1>1, <2>2 DEF Snapshot!FingerprintCanonical
  <2>3. QED  BY <2>1, <2>2
<1>4. runtime'.core = runtime.core /\ runtime' = [core |-> runtime'.core, before |-> runtime'.before, host |-> runtime'.host]
  BY <1>1, <1>3
<1>5. job' = [kind |-> job.kind, todo |-> Tail(job.todo), draft |-> job.draft]
  BY JobMoves DEF SnapshotInv, Snapshot!FingerprintProtected, Snapshot!FingerprintCanonical, Snapshot!Done, Snapshot!Goto
<1>6. PICK k \in 1..2 : Snapshot!At(Reading[k])
  BY ReadingIs DEF Snapshot!FingerprintProtected, Snapshot!FingerprintCanonical
<1>7. k \in 1..12 /\ k \in 1..11  BY <1>6
<1>8. AtStage(runtime.core, job.kind, job.todo, job.draft, k)  BY <1>6, <1>7, StageTells DEF SnapshotInv
<1>9. /\ job.draft \in Seq(SUBSET Snapshot!Tables) /\ Len(job.draft) = 0
      /\ \A i \in DOMAIN job.draft : PartOK(Snapshot!Parts[i], job.draft[i])
  BY <1>6, <1>8, DraftHolds
<1>10. Len(job.draft) = IF k < 2 THEN 0 ELSE k - 2  BY <1>6, <1>9
<1>11. JobOK'  BY <1>4, <1>5, <1>6, <1>7, <1>9, <1>10, NextStage
<1>12. QED  BY <1>2, <1>4, <1>11, RuntimeKept DEF SnapshotInv

LEMMA ReadPartStep ==
    ASSUME SnapshotInv, NEW part0 \in PartNames, Snapshot!ReadPart(part0)
    PROVE  SnapshotInv'
<1>1. UNCHANGED <<loaded, importing, verdict, runtime>>
  BY DEF Snapshot!ReadPart, Snapshot!Kept, Snapshot!database
<1>2. PICK n \in 1..9 : Snapshot!Parts[n] = part0
  <2>1. \A p \in PartNames : \E n \in {1, 2, 3, 4, 5, 6, 7, 8, 9} : Snapshot!Parts[n] = p
    BY PartsAre DEF PartNames
  <2>2. QED  BY <2>1
<1>3. PICK k : k = n + 2  OBVIOUS
<1>4. k \in 1..12 /\ k \in 1..11 /\ k \in 3..11 /\ Reading[k] = part0  BY <1>2, <1>3, ReadingIs
<1>5. Snapshot!At(Reading[k])  BY <1>4 DEF Snapshot!ReadPart
<1>6. AtStage(runtime.core, job.kind, job.todo, job.draft, k)  BY <1>4, <1>5, StageTells DEF SnapshotInv
<1>7. PICK d : d = job.draft  OBVIOUS
<1>8. /\ d \in Seq(SUBSET Snapshot!Tables) /\ Len(d) = k - 3
      /\ \A i \in DOMAIN d : PartOK(Snapshot!Parts[i], d[i])
  <2>1. /\ d \in Seq(SUBSET Snapshot!Tables)
        /\ Len(d) = IF k < 3 THEN 0 ELSE k - 3
        /\ \A i \in DOMAIN d : PartOK(Snapshot!Parts[i], d[i])
    BY <1>4, <1>6, <1>7, DraftHolds
  <2>2. Len(d) = k - 3  BY ONLY <1>4, <2>1
  <2>3. QED  BY ONLY <2>1, <2>2
<1>9. PICK v : v = loaded \cap Snapshot!Reads(part0)  OBVIOUS
<1>10. v \subseteq Snapshot!Tables /\ PartOK(part0, v)  BY <1>9, SnapshotReads DEF SnapshotInv
<1>11. PICK e : e = Append(d, v)  OBVIOUS
<1>12. /\ e \in Seq(SUBSET Snapshot!Tables) /\ Len(e) = Len(d) + 1
       /\ \A i \in 1..Len(d) : e[i] = d[i]
       /\ e[Len(d) + 1] = v
  BY <1>8, <1>10, <1>11, AppendProperties
<1>13. Len(e) = IF k < 2 THEN 0 ELSE k - 2  BY <1>4, <1>8, <1>12
<1>14. \A i \in DOMAIN e : PartOK(Snapshot!Parts[i], e[i])
  <2>1. ASSUME NEW i \in DOMAIN e  PROVE PartOK(Snapshot!Parts[i], e[i])
    <3>1. i \in 1..(Len(d) + 1) /\ Len(d) + 1 = n  BY <1>3, <1>4, <1>8, <1>12, <2>1
    <3>2. CASE i = n  BY <1>2, <1>10, <1>12, <3>1, <3>2
    <3>3. CASE i # n
      <4>1. i \in 1..Len(d) /\ i \in DOMAIN d  BY <1>8, <3>1, <3>3
      <4>2. QED  BY <1>8, <1>12, <4>1
    <3>4. QED  BY <3>2, <3>3
  <2>2. QED  BY <2>1
<1>15. job' = [kind |-> job.kind, todo |-> Tail(job.todo), draft |-> e]
  <2>1. PICK kind, todo, draft : job = [kind |-> kind, todo |-> todo, draft |-> draft]
    BY DEF SnapshotInv, JobOK
  <2>2. QED  BY <1>7, <1>9, <1>11, <2>1 DEF Snapshot!ReadPart
<1>16. JobOK'  BY <1>1, <1>4, <1>5, <1>12, <1>13, <1>14, <1>15, NextStage
<1>17. QED  BY <1>1, <1>16, RuntimeSame DEF SnapshotInv

LEMMA CoreStep == ASSUME SnapshotInv, Snapshot!Core PROVE SnapshotInv'
<1>1. UNCHANGED <<loaded, importing, verdict>>  BY DEF Snapshot!Core, Snapshot!Kept, Snapshot!database
<1>2. Snapshot!At(Reading[12]) /\ 12 \in 1..12  BY ReadingIs DEF Snapshot!Core
<1>3. AtStage(runtime.core, job.kind, job.todo, job.draft, 12)  BY <1>2, StageTells DEF SnapshotInv
<1>4. PICK d : d = job.draft  OBVIOUS
<1>5. /\ d \in Seq(SUBSET Snapshot!Tables) /\ Len(d) = 9 /\ runtime.core = None
      /\ \A i \in DOMAIN d : PartOK(Snapshot!Parts[i], d[i])
  BY <1>2, <1>3, <1>4, DraftHolds
<1>6. PICK r \in Rests : Tail(job.todo) = r /\ (r = <<"reconcile">> => job.kind # "all")
  <2>1. 13 = 12 + 1  OBVIOUS
  <2>2. PICK r \in Rests : Tail(job.todo) = From(13) \o r /\ (r = <<"reconcile">> => job.kind # "all")
    <3>1. PICK r \in Rests : job.todo = From(12) \o r /\ (r = <<"reconcile">> => job.kind # "all")
      BY <1>3 DEF AtStage
    <3>2. Tail(From(12) \o r) = From(12 + 1) \o r  BY <1>2, AtReading
    <3>3. QED  BY <2>1, <3>1, <3>2
  <2>3. QED  BY <2>2, AfterReading
<1>7. PICK c : c = [p \in PartNames |-> d[CHOOSE i \in DOMAIN Snapshot!Parts : Snapshot!Parts[i] = p]]  OBVIOUS
<1>8. CoreOK(c)
  <2>1. ASSUME NEW p \in PartNames  PROVE c[p] \in SUBSET Snapshot!Tables /\ PartOK(p, c[p])
    <3>1. \E n \in DOMAIN Snapshot!Parts : Snapshot!Parts[n] = p
      <4>1. \E n \in {1, 2, 3, 4, 5, 6, 7, 8, 9} : Snapshot!Parts[n] = p  BY PartsAre DEF PartNames
      <4>2. QED  BY <4>1, PartsAre
    <3>2. PICK j : j = CHOOSE i \in DOMAIN Snapshot!Parts : Snapshot!Parts[i] = p  OBVIOUS
    <3>3. j \in DOMAIN Snapshot!Parts /\ Snapshot!Parts[j] = p  BY <3>1, <3>2
    <3>4. j \in 1..9 /\ j \in DOMAIN d  BY <1>5, <3>3, PartsAre
    <3>5. c[p] = d[j]  BY <1>7, <3>2
    <3>6. d[j] \in SUBSET Snapshot!Tables  BY <1>5, <3>4, ElementOfSeq
    <3>7. QED  BY <1>5, <3>3, <3>4, <3>5, <3>6
  <2>2. QED  BY <1>7, <2>1 DEF CoreOK, CoreType
<1>9. c # None  BY <1>8, SnapshotAssumption, PartsAre DEF CoreOK, CoreType, Snapshot!NoneAssumption
<1>10. PICK before, host : runtime = [core |-> None, before |-> before, host |-> host]
  BY <1>5 DEF SnapshotInv, RuntimeOK
<1>11. runtime' = [core |-> c, before |-> before, host |-> host]
  BY <1>4, <1>7, <1>10, PartsAre DEF Snapshot!Core
<1>12. job' = [kind |-> job.kind, todo |-> r, draft |-> <<>>]
  <2>1. PICK kind, todo, draft : job = [kind |-> kind, todo |-> todo, draft |-> draft]
    BY DEF SnapshotInv, JobOK
  <2>2. QED  BY <1>6, <2>1 DEF Snapshot!Core
<1>13. runtime'.core = c  BY <1>11
<1>14. JobOK'  BY <1>6, <1>9, <1>12, <1>13, RestWorks, JobWorks
<1>15. verdict = None  BY <1>5 DEF SnapshotInv, RuntimeOK
<1>16. DatabaseOK'  BY <1>1 DEF SnapshotInv, DatabaseOK
<1>17. RuntimeOK'
  <2>1. CoreOK(runtime'.core)  BY <1>8, <1>13
  <2>2. runtime' = [core |-> runtime'.core, before |-> runtime'.before, host |-> runtime'.host]  BY <1>11
  <2>3. CoreOK(runtime.core)'  BY <2>1 DEF CoreOK, CoreType, PartOK, Snapshot!Tables, Snapshot!Files, Snapshot!Reads
  <2>4. QED  BY <1>1, <1>9, <1>13, <1>15, <2>2, <2>3 DEF RuntimeOK
<1>18. Snapshot!VerdictCovers'  BY <1>1, <1>15 DEF Snapshot!VerdictCovers
<1>19. QED  BY <1>14, <1>16, <1>17, <1>18 DEF SnapshotInv

LEMMA DatabaseFailsStep == ASSUME SnapshotInv, Snapshot!DatabaseFails PROVE SnapshotInv'
<1>1. UNCHANGED <<loaded, importing, verdict, runtime>> /\ Snapshot!Raise
  BY DEF Snapshot!DatabaseFails, Snapshot!Kept, Snapshot!database
<1>2. QED  BY <1>1, RaiseJob, RuntimeSame DEF SnapshotInv

\* A job goes on with what it has to do.
LEMMA WorkDone ==
    ASSUME SnapshotInv, Working(runtime.core, job.kind, job.todo), job.draft = <<>>, job.todo # <<>>,
           job' = [job EXCEPT !.todo = Tail(job.todo)], runtime'.core = runtime.core,
           Head(job.todo) = "payload" => Measured(runtime.core)
    PROVE  JobOK'
<1>1. PICK t : t = Tail(job.todo)  OBVIOUS
<1>2. job' = [kind |-> job.kind, todo |-> t, draft |-> <<>>]  BY <1>1, JobMoves DEF SnapshotInv
<1>3. Working(runtime'.core, job.kind, t)  BY <1>1, WorksOn
<1>4. QED  BY <1>2, <1>3, JobWorks

LEMMA StartStep == ASSUME SnapshotInv, Snapshot!Start PROVE SnapshotInv'
<1>1. UNCHANGED <<loaded, importing, verdict>> /\ job.todo # <<>> /\ Head(job.todo) = "start"
  BY DEF Snapshot!Start, Snapshot!Kept, Snapshot!database, Snapshot!At
<1>2. Working(runtime.core, job.kind, job.todo) /\ job.draft = <<>>
  BY StageTells DEF SnapshotInv, Snapshot!Start
<1>3. PICK core, before, host : runtime = [core |-> core, before |-> before, host |-> host]
  BY DEF SnapshotInv, RuntimeOK
<1>4. \E h : runtime' = [core |-> core, before |-> before, host |-> h]
  BY <1>3 DEF Snapshot!Start
<1>5. runtime'.core = runtime.core /\ runtime' = [core |-> runtime'.core, before |-> runtime'.before, host |-> runtime'.host]
  BY <1>3, <1>4
<1>6. CASE Snapshot!Done
  BY <1>1, <1>2, <1>5, <1>6, WorkDone, RuntimeKept DEF Snapshot!Done, Snapshot!Goto, SnapshotInv
<1>7. CASE Snapshot!Raise
  BY <1>1, <1>5, <1>7, RaiseJob, RuntimeKept DEF SnapshotInv
<1>8. CASE runtime.core = None /\ Snapshot!Goto(<<"prepare">> \o job.todo)
  <2>1. PICK t : t = job.todo  OBVIOUS
  <2>2. t \in Rests /\ Head(t) = "start"  BY <1>1, <1>2, <1>8, <2>1, WorksOn
  <2>3. t # <<"reconcile">>  BY <2>2
  <2>4. PICK u : u = <<"prepare">> \o t  OBVIOUS
  <2>5. Preparing(job.kind, u)  BY <2>2, <2>3, <2>4 DEF Preparing
  <2>6. job' = [kind |-> job.kind, todo |-> u, draft |-> <<>>]
    BY <1>2, <1>8, <2>1, <2>4, JobMoves DEF SnapshotInv, Snapshot!Goto
  <2>7. JobOK'  BY <2>5, <2>6, JobWorks
  <2>8. QED  BY <1>1, <1>5, <2>7, RuntimeKept DEF SnapshotInv
<1>9. QED  BY <1>6, <1>7, <1>8 DEF Snapshot!Start

LEMMA CallStep == ASSUME SnapshotInv, Snapshot!Call PROVE SnapshotInv'
<1>1. UNCHANGED <<loaded, importing, verdict, runtime>> /\ job.todo # <<>> /\ Head(job.todo) = "call"
  BY DEF Snapshot!Call, Snapshot!Kept, Snapshot!database, Snapshot!At
<1>2. Working(runtime.core, job.kind, job.todo) /\ job.draft = <<>>
  BY StageTells DEF SnapshotInv, Snapshot!Call
<1>3. CASE Snapshot!Done
  BY <1>1, <1>2, <1>3, WorkDone, RuntimeSame DEF Snapshot!Done, Snapshot!Goto, SnapshotInv
<1>4. CASE Snapshot!Raise  BY <1>1, <1>4, RaiseJob, RuntimeSame DEF SnapshotInv
<1>5. QED  BY <1>3, <1>4 DEF Snapshot!Call

LEMMA StopStep == ASSUME SnapshotInv, Snapshot!Stop PROVE SnapshotInv'
<1>1. UNCHANGED <<loaded, importing, verdict>> /\ job' = Snapshot!NoJob
  BY DEF Snapshot!Stop, Snapshot!Kept, Snapshot!database
<1>2. PICK core, before, host : runtime = [core |-> core, before |-> before, host |-> host]
  BY DEF SnapshotInv, RuntimeOK
<1>3. runtime' = [core |-> core, before |-> before, host |-> "none"]  BY <1>2 DEF Snapshot!Stop
<1>4. runtime'.core = runtime.core /\ runtime' = [core |-> runtime'.core, before |-> runtime'.before, host |-> runtime'.host]
  BY <1>2, <1>3
<1>5. QED  BY <1>1, <1>4, NoJobWorks, RuntimeKept DEF SnapshotInv

LEMMA PayloadStep == ASSUME SnapshotInv, Snapshot!Payload PROVE SnapshotInv'
<1>1. UNCHANGED <<loaded, importing, verdict, runtime>> /\ job.todo # <<>> /\ Head(job.todo) = "payload"
  BY DEF Snapshot!Payload, Snapshot!Kept, Snapshot!database, Snapshot!At
<1>2. Working(runtime.core, job.kind, job.todo) /\ job.draft = <<>>
  BY StageTells DEF SnapshotInv, Snapshot!Payload
<1>3. CASE Snapshot!Raise  BY <1>1, <1>3, RaiseJob, RuntimeSame DEF SnapshotInv
<1>4. CASE ~Snapshot!Raise
  <2>1. /\ Snapshot!Done
        /\ \A p \in PartNames \ {"counts", "sales_summary"} : Snapshot!First(p) \in runtime.core[p]
    BY <1>4, PartsAre DEF Snapshot!Payload
  <2>2. runtime.core # None  BY <1>1, <1>2, WorksOn
  <2>3. Measured(runtime.core)  BY <2>1, <2>2 DEF Measured
  <2>4. QED  BY <1>1, <1>2, <2>1, <2>3, WorkDone, RuntimeSame DEF Snapshot!Done, Snapshot!Goto, SnapshotInv
<1>5. QED  BY <1>3, <1>4

\* A reconciliation that passes: the refunds carry the counts and the summary; a list that
\* has a row is complete, since a file is copied whole.
LEMMA PassingCovers ==
    ASSUME CoreOK(runtime.core), Snapshot!Passes
    PROVE  /\ \A p \in {"counts", "session_metrics", "sales_summary"} : Snapshot!Whole(p)
           /\ Measured(runtime.core) => \A p \in PartNames \ {"product_performance"} : Snapshot!Whole(p)
<1>1. \A p \in PartNames : PartOK(p, runtime.core[p])  BY DEF CoreOK
<1>2. /\ Snapshot!Whole("session_metrics")
      /\ "refunds" \in runtime.core["counts"] /\ "refunds" \in runtime.core["sales_summary"]
  BY DEF Snapshot!Passes
<1>3. {"counts", "session_metrics", "sales_summary"} \subseteq PartNames  BY DEF PartNames
<1>4. Snapshot!Whole("counts") /\ Snapshot!Whole("sales_summary")
  BY <1>1, <1>2, <1>3 DEF PartOK, Snapshot!Whole
<1>5. ASSUME Measured(runtime.core), NEW p \in {"products", "orders", "items", "refunds", "sessions"}
      PROVE  Snapshot!Whole(p)
  <2>1. Snapshot!Reads(p) = {p} /\ Snapshot!First(p) = p
    BY <1>5 DEF Snapshot!Reads, Snapshot!First
  <2>2. p \in PartNames \ {"counts", "sales_summary"}  BY <1>5 DEF PartNames
  <2>3. p \in runtime.core[p] /\ runtime.core[p] \subseteq {p}
    BY <1>1, <1>5, <2>1, <2>2 DEF Measured, PartOK
  <2>4. QED  BY <2>1, <2>3 DEF Snapshot!Whole
<1>6. QED  BY <1>2, <1>4, <1>5 DEF PartNames

LEMMA ReconcileStep == ASSUME SnapshotInv, Snapshot!Reconcile PROVE SnapshotInv'
<1>1. UNCHANGED <<loaded, importing, runtime>> /\ job.todo # <<>> /\ Head(job.todo) = "reconcile"
  BY DEF Snapshot!Reconcile, Snapshot!Kept, Snapshot!database, Snapshot!At
<1>2. Working(runtime.core, job.kind, job.todo) /\ job.draft = <<>>
  BY StageTells DEF SnapshotInv, Snapshot!Reconcile
<1>3. CASE Snapshot!Raise /\ UNCHANGED verdict  BY <1>1, <1>3, RaiseJob, RuntimeSame DEF SnapshotInv
<1>4. CASE Snapshot!Done /\ verdict' = [passed |-> Snapshot!Passes, kind |-> job.kind]
  <2>1. JobOK'  BY <1>1, <1>2, <1>4, WorkDone DEF Snapshot!Done, Snapshot!Goto
  <2>2. runtime.core # None /\ (job.kind = "all" => Measured(runtime.core))  BY <1>1, <1>2, WorksOn
  <2>3. CoreOK(runtime.core)  BY <2>2 DEF SnapshotInv, RuntimeOK
  <2>4. DatabaseOK'  BY <1>1 DEF SnapshotInv, DatabaseOK
  <2>5. RuntimeOK'  BY <1>1, <2>2 DEF SnapshotInv, RuntimeOK
  <2>6. verdict'.kind = job.kind /\ (verdict'.passed <=> Snapshot!Passes)  BY <1>4
  <2>7. Snapshot!VerdictCovers'
    <3>1. SUFFICES ASSUME verdict'.passed
                   PROVE  /\ \A p \in {"counts", "session_metrics", "sales_summary"} : Snapshot!Whole(p)'
                          /\ verdict'.kind = "all" => \A p \in PartNames \ {"product_performance"} : Snapshot!Whole(p)'
      BY PartsAre DEF Snapshot!VerdictCovers
    <3>2. \A p : Snapshot!Whole(p)' <=> Snapshot!Whole(p)  BY <1>1 DEF Snapshot!Whole
    <3>3. QED  BY <2>2, <2>3, <2>6, <3>1, <3>2, PassingCovers
  <2>8. QED  BY <2>1, <2>4, <2>5, <2>7 DEF SnapshotInv
<1>5. QED  BY <1>3, <1>4 DEF Snapshot!Reconcile

LEMMA SafetySteps == ASSUME SnapshotInv, Snapshot!Safety \/ Snapshot!Safe PROVE SnapshotInv'
<1>1. UNCHANGED <<loaded, importing, verdict, runtime>>
  BY DEF Snapshot!Safety, Snapshot!Safe, Snapshot!Kept, Snapshot!database
<1>2. CASE Snapshot!Raise  BY <1>1, <1>2, RaiseJob, RuntimeSame DEF SnapshotInv
<1>3. CASE Snapshot!Safe /\ Snapshot!Done
  <2>1. Working(runtime.core, job.kind, job.todo) /\ job.draft = <<>> /\ job.todo # <<>> /\ Head(job.todo) = "safe"
    BY <1>3, StageTells DEF SnapshotInv, Snapshot!Safe, Snapshot!At
  <2>2. QED  BY <1>1, <1>3, <2>1, WorkDone, RuntimeSame DEF Snapshot!Done, Snapshot!Goto, SnapshotInv
<1>4. CASE Snapshot!Safety /\ Snapshot!Goto(<<"safe">> \o Tail(job.todo))
  <2>1. Working(runtime.core, job.kind, job.todo) /\ job.draft = <<>> /\ job.todo # <<>> /\ Head(job.todo) = "safety"
    BY <1>4, StageTells DEF SnapshotInv, Snapshot!Safety, Snapshot!At
  <2>2. Tail(job.todo) = <<"stop">>  BY <2>1, WorksOn
  <2>3. <<"safe", "stop">> = <<"safe">> \o <<"stop">>  OBVIOUS
  <2>4. job' = [kind |-> job.kind, todo |-> <<"safe", "stop">>, draft |-> <<>>]
    BY <1>4, <2>1, <2>2, <2>3, JobMoves DEF SnapshotInv, Snapshot!Goto
  <2>5. \A c, w : Working(c, w, <<"safe", "stop">>)  BY DEF Working
  <2>6. JobOK'  BY <2>4, <2>5, JobWorks
  <2>7. QED  BY <1>1, <2>6, RuntimeSame DEF SnapshotInv
<1>5. QED  BY <1>2, <1>3, <1>4 DEF Snapshot!Safety, Snapshot!Safe

\* A process without a snapshot and without a verdict.
LEMMA NewProcess ==
    ASSUME DatabaseOK', runtime' = Snapshot!NewRuntime, job' = Snapshot!NoJob, verdict' = None
    PROVE  SnapshotInv'
<1>1. runtime' = [core |-> None, before |-> None, host |-> "none"]  BY DEF Snapshot!NewRuntime
<1>2. RuntimeOK'  BY <1>1 DEF RuntimeOK
<1>3. Snapshot!VerdictCovers'  BY DEF Snapshot!VerdictCovers
<1>4. QED  BY <1>2, <1>3, NoJobWorks DEF SnapshotInv

LEMMA ExitStep == ASSUME SnapshotInv, Snapshot!Exit PROVE SnapshotInv'
<1>1. DatabaseOK'  BY DEF SnapshotInv, DatabaseOK, Snapshot!Exit, Snapshot!Kept, Snapshot!database
<1>2. QED  BY <1>1, NewProcess DEF Snapshot!Exit

LEMMA SnapshotStarts == Snapshot!Init => SnapshotInv
<1> SUFFICES ASSUME Snapshot!Init PROVE SnapshotInv  OBVIOUS
<1>1. DatabaseOK
  <2>1. importing = 0 /\ loaded \in {{}, Snapshot!Tables}  BY DEF Snapshot!Init
  <2>2. QED  BY <2>1 DEF DatabaseOK
<1>2. runtime = [core |-> None, before |-> None, host |-> "none"]
      /\ job = [kind |-> None, todo |-> <<>>, draft |-> <<>>] /\ verdict = None
  BY DEF Snapshot!Init, Snapshot!NewRuntime, Snapshot!NoJob
<1>3. RuntimeOK  BY <1>2 DEF RuntimeOK
<1>4. Snapshot!VerdictCovers  BY <1>2 DEF Snapshot!VerdictCovers
<1>5. JobOK
  <2>1. <<>> \in Seq(SUBSET Snapshot!Tables)  OBVIOUS
  <2>2. Working(runtime.core, job.kind, job.todo)  BY <1>2 DEF Working
  <2>3. QED  BY <1>2, <2>1, <2>2 DEF JobOK
<1>6. QED  BY <1>1, <1>3, <1>4, <1>5 DEF SnapshotInv

LEMMA SnapshotInvariance == Snapshot!Spec => []SnapshotInv
<1>1. SnapshotInv /\ [Snapshot!Next]_Snapshot!vars => SnapshotInv'
  <2> SUFFICES ASSUME SnapshotInv, [Snapshot!Next]_Snapshot!vars PROVE SnapshotInv'  OBVIOUS
  <2>1. CASE UNCHANGED Snapshot!vars
    <3>1. UNCHANGED <<loaded, importing, runtime, job, verdict>>
      BY <2>1 DEF Snapshot!vars, Snapshot!database
    <3>2. QED  BY <3>1, ProcessSame, RuntimeSame DEF SnapshotInv
  <2>2. ASSUME NEW p \in Snapshot!Range(Snapshot!Parts), Snapshot!ReadPart(p)  PROVE SnapshotInv'
    BY <2>2, ReadPartStep, PartsAre
  <2>3. CASE Snapshot!Next
    BY <2>2, <2>3, DatabaseSteps, BeginStep, PrepareStep, FingerprintSteps, CoreStep, DatabaseFailsStep,
       StartStep, CallStep, StopStep, PayloadStep, ReconcileStep, SafetySteps, ExitStep DEF Snapshot!Next
  <2>4. QED  BY <2>1, <2>3
<1>2. QED  BY <1>1, SnapshotStarts, PTL DEF Snapshot!Spec

-----------------------------------------------------------------------------
(* The window of session 1.                                                 *)

PStage == Console!Stage

Message == [kind : {"stage_running", "all_result", "done", "all_done"}, key : PStage, code : {0, 1}]
PThread == [todo : Seq(PStage), all : BOOLEAN]

\* What the row of a stage says of its last script.
Truth(s) == IF exited[s] = None THEN "not run" ELSE Console!RowAfter(exited[s])

Reports(i, s) == messages[i].key = s /\ messages[i].kind # "all_done"

\* Once the messages in the queue are handled, the row of the stage is true.
Settled(s) ==
    \/ \E i \in 1..Len(messages) :
          /\ Reports(i, s) /\ messages[i].kind # "stage_running" /\ messages[i].code = exited[s]
          /\ \A j \in 1..Len(messages) : j > i => ~Reports(j, s)
    \/ window.row[s] = Truth(s) /\ \A i \in 1..Len(messages) : ~Reports(i, s)

Current(s) == thread # None /\ s = Head(thread.todo)

PWindow ==
    /\ window = [running |-> window.running, stage |-> window.stage, row |-> window.row]
    /\ window.row = [s \in PStage |-> window.row[s]]

PExits == exited = [s \in PStage |-> exited[s]] /\ \A s \in PStage : exited[s] \in {None, 0, 1}

PipelineTypes ==
    /\ messages \in Seq(Message) /\ PWindow
    /\ (thread = None \/ (thread \in PThread /\ thread.todo # <<>>))
    /\ PExits

\* The window is busy until the thread's last message is handled, and rows are true
\* or about to be.
PipelineInv ==
    /\ PipelineTypes
    /\ thread # None \/ messages # <<>> => window.running
    /\ \A i \in 1..Len(messages) :
          messages[i].kind \in {"done", "all_done"} => i = Len(messages) /\ thread = None
    /\ \A s \in PStage : Current(s) \/ Settled(s)

LEMMA StagesAre ==
    /\ PipelineStages \in Seq(PStage) /\ PipelineStages # <<>>
    /\ None \notin {0, 1} /\ None \notin PThread
  BY ConsoleAssumption DEF Console!StagesAssumption, Console!NoneAssumption, Console!Stage, PStage, PThread

LEMMA PipelineStarts == Console!Init => PipelineInv
<1> SUFFICES ASSUME Console!Init PROVE PipelineInv  OBVIOUS
<1>1. window = [running |-> FALSE, stage |-> None, row |-> [s \in PStage |-> "not run"]]
  BY DEF Console!Init, PStage
<1>2. window = [running |-> window.running, stage |-> window.stage, row |-> window.row]  BY <1>1
<1>3. ~window.running /\ window.row = [s \in PStage |-> window.row[s]]  BY <1>1
<1>4. \A s \in PStage : window.row[s] = "not run"  BY <1>1
<1>5. messages = <<>> /\ thread = None /\ exited = [s \in PStage |-> exited[s]]
      /\ \A s \in PStage : exited[s] = None
  BY DEF Console!Init, PStage
<1>6. PipelineTypes
  <2>1. PWindow  BY <1>2, <1>3 DEF PWindow
  <2>2. messages \in Seq(Message)  BY <1>5
  <2>3. PExits  BY <1>5 DEF PExits
  <2>4. QED  BY ONLY <1>5, <2>1, <2>2, <2>3 DEF PipelineTypes
<1>7. ASSUME NEW s \in PStage PROVE Settled(s)
  <2>1. window.row[s] = Truth(s)  BY <1>4, <1>5 DEF Truth
  <2>2. \A i \in 1..Len(messages) : ~Reports(i, s)  BY <1>5
  <2>3. QED  BY <2>1, <2>2 DEF Settled
<1>8. \A i \in 1..Len(messages) : FALSE  BY <1>5
<1>9. QED  BY <1>5, <1>6, <1>7, <1>8 DEF PipelineInv

\* Messages that are added and are not about the stage leave it settled.
LEMMA SettledStays ==
    ASSUME NEW q, NEW n \in Nat, Len(messages) = n, Len(messages') \in Nat, Len(messages') >= n,
           \A i \in 1..n : messages'[i] = messages[i],
           \A i \in 1..Len(messages') : i > n => ~Reports(i, q)',
           window' = window, exited'[q] = exited[q], Settled(q)
    PROVE  Settled(q)'
<1>1. Truth(q)' = Truth(q)  BY DEF Truth
<1>2. \A i \in 1..n : i \in 1..Len(messages') /\ (Reports(i, q)' <=> Reports(i, q))  BY DEF Reports
<1>3. \A i \in 1..Len(messages') : i \in 1..n \/ i > n  OBVIOUS
<1>4. CASE window.row[q] = Truth(q) /\ \A i \in 1..n : ~Reports(i, q)
  <2>1. \A i \in 1..Len(messages') : ~Reports(i, q)'  BY <1>2, <1>3, <1>4
  <2>2. QED  BY <1>1, <1>4, <2>1 DEF Settled
<1>5. ASSUME NEW i \in 1..n, Reports(i, q), messages[i].kind # "stage_running", messages[i].code = exited[q],
             \A j \in 1..n : j > i => ~Reports(j, q)
      PROVE  Settled(q)'
  <2>1. /\ i \in 1..Len(messages') /\ Reports(i, q)'
        /\ messages'[i].kind # "stage_running" /\ messages'[i].code = exited'[q]
    BY <1>2, <1>5
  <2>2. \A j \in 1..Len(messages') : j > i => ~Reports(j, q)'  BY <1>2, <1>3, <1>5
  <2>3. QED  BY <2>1, <2>2 DEF Settled
<1>6. QED  BY <1>4, <1>5 DEF Settled

LEMMA RunStageStep ==
    ASSUME PipelineInv, NEW s \in PStage, Console!RunStage(s) PROVE PipelineInv'
<1>1. /\ ~window.running /\ UNCHANGED <<messages, exited>>
      /\ window' = [window EXCEPT !.running = TRUE, !.stage = s, !.row[s] = "running"]
      /\ thread' = [todo |-> <<s>>, all |-> FALSE]
  BY DEF Console!RunStage
<1>2. messages = <<>> /\ thread = None  BY <1>1 DEF PipelineInv
<1>3. thread' \in PThread /\ thread'.todo # <<>> /\ Head(thread'.todo) = s
  BY <1>1 DEF PThread
<1>4. /\ window' = [running |-> TRUE, stage |-> s, row |-> [window.row EXCEPT ![s] = "running"]]
      /\ window'.row = [q \in PStage |-> window'.row[q]]
      /\ \A q \in PStage : q # s => window'.row[q] = window.row[q]
  BY <1>1 DEF PipelineInv, PipelineTypes, PWindow, PExits
<1>5. PipelineTypes'  BY <1>1, <1>3, <1>4 DEF PipelineInv, PipelineTypes, PWindow, PExits
<1>6. ASSUME NEW q \in PStage PROVE Current(q)' \/ Settled(q)'
  <2>1. CASE q = s  BY <2>1, <1>3, StagesAre DEF Current
  <2>2. CASE q # s
    <3>1. Settled(q)  BY <1>2 DEF PipelineInv, Current
    <3>2. window.row[q] = Truth(q)  BY <1>2, <3>1 DEF Settled
    <3>3. Truth(q)' = Truth(q)  BY <1>1 DEF Truth
    <3>4. QED  BY <1>1, <1>2, <1>4, <2>2, <3>2, <3>3 DEF Settled
  <2>3. QED  BY <2>1, <2>2
<1>7. QED  BY <1>1, <1>2, <1>4, <1>5, <1>6 DEF PipelineInv

LEMMA RunAllStep == ASSUME PipelineInv, Console!RunAll PROVE PipelineInv'
<1> DEFINE m == [kind |-> "stage_running", key |-> Head(PipelineStages), code |-> 0]
<1>1. /\ ~window.running /\ UNCHANGED exited
      /\ window' = [window EXCEPT !.running = TRUE, !.stage = "everything"]
      /\ messages' = Append(messages, m)
      /\ thread' = [todo |-> PipelineStages, all |-> TRUE]
  BY DEF Console!RunAll
<1>2. messages = <<>> /\ thread = None  BY <1>1 DEF PipelineInv
<1>3. Head(PipelineStages) \in PStage  BY StagesAre
<1>4. messages' = <<m>> /\ m \in Message  BY <1>1, <1>2, <1>3 DEF Message
<1>5. thread' \in PThread /\ thread'.todo = PipelineStages  BY <1>1, StagesAre DEF PThread
<1>6. window' = [running |-> TRUE, stage |-> "everything", row |-> window.row]
  BY <1>1 DEF PipelineInv, PipelineTypes, PWindow, PExits
<1>7. PipelineTypes'
  <2>1. window'.row = window.row /\ window'.running /\ window'.stage = "everything"  BY <1>6
  <2>2. messages' \in Seq(Message)  BY <1>4
  <2>3. QED  BY <1>1, <1>5, <1>6, <2>1, <2>2, StagesAre DEF PipelineInv, PipelineTypes, PWindow, PExits
<1>8. ASSUME NEW q \in PStage PROVE Current(q)' \/ Settled(q)'
  <2>1. CASE q = Head(PipelineStages)  BY <2>1, <1>5, StagesAre DEF Current
  <2>2. CASE q # Head(PipelineStages)
    <3>1. Settled(q)  BY <1>2 DEF PipelineInv, Current
    <3>2. window.row[q] = Truth(q)  BY <1>2, <3>1 DEF Settled
    <3>3. Truth(q)' = Truth(q)  BY <1>1 DEF Truth
    <3>4. QED  BY <1>4, <1>6, <2>2, <3>2, <3>3 DEF Settled, Reports
  <2>3. QED  BY <2>1, <2>2
<1>9. \A i \in 1..Len(messages') : messages'[i].kind = "stage_running"  BY <1>4
<1>10. QED  BY <1>6, <1>7, <1>8, <1>9 DEF PipelineInv

LEMMA TwoMessages ==
    ASSUME NEW ms \in Seq(Message), NEW a \in Message, NEW b \in Message, NEW n \in Nat, Len(ms) = n
    PROVE  /\ ms \o <<a, b>> \in Seq(Message) /\ Len(ms \o <<a, b>>) = n + 2
           /\ (ms \o <<a, b>>)[n + 1] = a /\ (ms \o <<a, b>>)[n + 2] = b
           /\ \A i \in 1..n : (ms \o <<a, b>>)[i] = ms[i]
<1>1. <<a, b>> \in Seq(Message) /\ Len(<<a, b>>) = 2 /\ <<a, b>>[1] = a /\ <<a, b>>[2] = b  OBVIOUS
<1>2. PICK two : two = <<a, b>>  OBVIOUS
<1>3. two \in Seq(Message) /\ Len(two) = 2 /\ two[1] = a /\ two[2] = b  BY <1>1, <1>2
<1>4. /\ ms \o two \in Seq(Message) /\ Len(ms \o two) = n + 2
      /\ \A i \in 1..(n + 2) : (ms \o two)[i] = IF i <= n THEN ms[i] ELSE two[i - n]
  <2>1. /\ ms \o two \in Seq(Message) /\ Len(ms \o two) = Len(ms) + Len(two)
        /\ \A i \in 1 .. Len(ms) + Len(two) : (ms \o two)[i] = IF i <= Len(ms) THEN ms[i] ELSE two[i - Len(ms)]
    BY <1>3, ConcatProperties
  <2>2. Len(ms) + Len(two) = n + 2  BY <1>3
  <2>3. QED  BY <2>1, <2>2
<1>5. (ms \o two)[n + 1] = two[1] /\ (ms \o two)[n + 2] = two[2] /\ \A i \in 1..n : (ms \o two)[i] = ms[i]
  <2>1. n + 1 \in 1..(n + 2) /\ n + 2 \in 1..(n + 2) /\ (n + 1) - n = 1 /\ (n + 2) - n = 2
        /\ ~(n + 1 <= n) /\ ~(n + 2 <= n) /\ \A i \in 1..n : i \in 1..(n + 2) /\ i <= n
    BY <1>4
  <2>2. QED  BY <1>4, <2>1
<1>6. QED  BY <1>2, <1>3, <1>4, <1>5

\* A script's end: its result is the last report of its stage, and what follows is not one of it
\* but the beginning of the next, or the end of all.
LEMMA ScriptEndsStep ==
    ASSUME PipelineInv, NEW code \in {0, 1}, Console!ScriptEnds(code) PROVE PipelineInv'
<1> DEFINE s == Head(thread.todo)
           rest == IF code = 0 THEN Tail(thread.todo) ELSE <<>>
           report == [kind |-> "all_result", key |-> s, code |-> code]
           single == [kind |-> "done", key |-> s, code |-> code]
           next == IF rest = <<>> THEN [kind |-> "all_done", key |-> s, code |-> code]
                   ELSE [kind |-> "stage_running", key |-> Head(rest), code |-> 0]
<1>0. PICK n \in Nat : n = Len(messages)  BY DEF PipelineInv, PipelineTypes, PWindow, PExits
<1>1. /\ thread # None /\ thread.todo # <<>> /\ UNCHANGED window
      /\ exited' = [exited EXCEPT ![s] = code]
      /\ \/ /\ thread.all
            /\ thread' = IF rest = <<>> THEN None ELSE [thread EXCEPT !.todo = rest]
            /\ messages' = messages \o <<report, next>>
         \/ thread' = None /\ messages' = Append(messages, single)
  BY DEF Console!ScriptEnds
<1>2. thread \in PThread /\ s \in PStage /\ rest \in Seq(PStage)
  BY <1>1 DEF PipelineInv, PipelineTypes, PThread
<1>3. /\ exited' = [q \in PStage |-> exited'[q]] /\ exited'[s] = code
      /\ \A q \in PStage : q # s => exited'[q] = exited[q]
  BY <1>1, <1>2 DEF PipelineInv, PipelineTypes, PWindow, PExits
<1>4. report \in Message /\ single \in Message /\ next \in Message /\ Len(messages) = n /\ messages \in Seq(Message)
  <2>1. rest # <<>> => Head(rest) \in PStage  BY <1>2
  <2>2. QED  BY <1>0, <1>2, <2>1 DEF Message, PipelineInv, PipelineTypes
<1>10. PExits'
  BY <1>3 DEF PipelineInv, PipelineTypes, PWindow, PExits
<1>5. window.running  BY <1>1 DEF PipelineInv
<1>6. \A i \in 1..n : messages[i].kind \notin {"done", "all_done"}  BY <1>1, <1>4 DEF PipelineInv
<1>7. CASE thread' = None /\ messages' = Append(messages, single)
  <2>1. /\ messages' \in Seq(Message) /\ Len(messages') = n + 1 /\ messages'[n + 1] = single
        /\ \A i \in 1..n : messages'[i] = messages[i]
    BY <1>4, <1>7
  <2>2. PipelineTypes'
    <3>1. PWindow'  BY <1>1 DEF PipelineInv, PipelineTypes, PWindow, PExits
    <3>2. messages' \in Seq(Message) /\ thread' = None  BY <1>7, <2>1
    <3>3. QED  BY ONLY <1>10, <3>1, <3>2 DEF PipelineTypes
  <2>3. \A i \in 1..Len(messages') : messages'[i].kind \in {"done", "all_done"} => i = Len(messages') /\ thread' = None
    BY <1>4, <1>6, <1>7, <2>1
  <2>4. ASSUME NEW q \in PStage PROVE Settled(q)'
    <3>1. CASE q = s
      <4>1. Reports(n + 1, q)' /\ messages'[n + 1].kind # "stage_running" /\ messages'[n + 1].code = exited'[q]
        BY <1>3, <2>1, <3>1 DEF Reports
      <4>2. QED  BY <1>4, <2>1, <4>1 DEF Settled
    <3>2. CASE q # s
      <4>1. Settled(q)  BY <1>1, <3>2 DEF PipelineInv, Current
      <4>2. ~Reports(n + 1, q)'  BY <2>1, <3>2 DEF Reports
      <4>3. exited'[q] = exited[q]  BY <1>3, <3>2
      <4>4. \A i \in 1..Len(messages') : i > n => i = n + 1  BY <1>4, <2>1
      <4>5. Len(messages') \in Nat /\ Len(messages') >= n  BY <2>1
      <4>6. QED  BY <1>1, <1>4, <2>1, <4>1, <4>2, <4>3, <4>4, <4>5, SettledStays
    <3>3. QED  BY <3>1, <3>2
  <2>5. QED  BY <1>1, <1>5, <2>2, <2>3, <2>4 DEF PipelineInv
<1>8. CASE /\ thread' = IF rest = <<>> THEN None ELSE [thread EXCEPT !.todo = rest]
           /\ messages' = messages \o <<report, next>>
  <2>1. /\ messages' \in Seq(Message) /\ Len(messages') = n + 2
        /\ messages'[n + 1] = report /\ messages'[n + 2] = next
        /\ \A i \in 1..n : messages'[i] = messages[i]
    <3>1. PICK a \in Message : a = report  BY <1>4
    <3>2. PICK b \in Message : b = next  BY <1>4
    <3>3. messages' = messages \o <<a, b>>  BY <1>8, <3>1, <3>2
    <3>4. /\ messages \o <<a, b>> \in Seq(Message) /\ Len(messages \o <<a, b>>) = n + 2
          /\ (messages \o <<a, b>>)[n + 1] = a /\ (messages \o <<a, b>>)[n + 2] = b
          /\ \A i \in 1..n : (messages \o <<a, b>>)[i] = messages[i]
      BY ONLY <1>4, n \in Nat, a \in Message, b \in Message, TwoMessages
    <3>5. QED  BY <3>1, <3>2, <3>3, <3>4
  <2>2. /\ rest = <<>> => thread' = None
        /\ rest # <<>> => thread' \in PThread /\ thread'.todo = rest /\ thread' # None
    BY <1>2, <1>8, StagesAre DEF PThread
  <2>3. PipelineTypes'
    <3>1. PWindow'  BY <1>1 DEF PipelineInv, PipelineTypes, PWindow, PExits
    <3>2. thread' = None \/ (thread' \in PThread /\ thread'.todo # <<>>)
      <4>1. CASE rest = <<>>  BY <2>2, <4>1
      <4>2. CASE rest # <<>>  BY <2>2, <4>2
      <4>3. QED  BY <4>1, <4>2
    <3>3. QED  BY ONLY <1>10, <2>1, <3>1, <3>2 DEF PipelineTypes
  <2>4. \A i \in 1..Len(messages') : i \in 1..n \/ i = n + 1 \/ i = n + 2  BY <1>4, <2>1
  <2>5. \A i \in 1..Len(messages') : messages'[i].kind \in {"done", "all_done"} => i = Len(messages') /\ thread' = None
    <3>1. next.kind \in {"done", "all_done"} => rest = <<>>  OBVIOUS
    <3>2. report.kind \notin {"done", "all_done"} /\ n + 1 # n + 2  OBVIOUS
    <3>3. ASSUME NEW i \in 1..Len(messages'), messages'[i].kind \in {"done", "all_done"}
          PROVE  i = Len(messages') /\ thread' = None
      <4>1. i \notin 1..n  BY <1>6, <2>1, <3>3
      <4>2. i # n + 1  BY <2>1, <3>2, <3>3
      <4>3. i = n + 2  BY <2>4, <4>1, <4>2
      <4>4. QED  BY <2>1, <2>2, <3>1, <3>3, <4>3
    <3>4. QED  BY <3>3
  <2>6. ASSUME NEW q \in PStage PROVE Current(q)' \/ Settled(q)'
    <3>1. CASE rest # <<>> /\ q = Head(rest)  BY <2>2, <3>1 DEF Current
    <3>2. CASE ~(rest # <<>> /\ q = Head(rest))
      <4>1. ~Reports(n + 2, q)'
        <5>1. next.kind = "all_done" \/ next.key # q  BY <3>2
        <5>2. QED  BY <2>1, <5>1 DEF Reports
      <4>2. CASE q = s
        <5>1. Reports(n + 1, q)' /\ messages'[n + 1].kind # "stage_running" /\ messages'[n + 1].code = exited'[q]
          BY <1>3, <2>1, <4>2 DEF Reports
        <5>2. n + 1 \in 1..Len(messages') /\ \A j \in 1..Len(messages') : j > n + 1 => j = n + 2
          BY <2>1, <2>4
        <5>3. QED  BY <4>1, <5>1, <5>2 DEF Settled
      <4>3. CASE q # s
        <5>1. Settled(q)  BY <1>1, <4>3 DEF PipelineInv, Current
        <5>2. ~Reports(n + 1, q)'  BY <2>1, <4>3 DEF Reports
        <5>3. exited'[q] = exited[q]  BY <1>3, <4>3
        <5>4. \A i \in 1..Len(messages') : i > n => i = n + 1 \/ i = n + 2  BY <1>4, <2>1
        <5>5. Len(messages') \in Nat /\ Len(messages') >= n  BY <2>1
        <5>6. QED  BY <1>1, <1>4, <2>1, <4>1, <5>1, <5>2, <5>3, <5>4, <5>5, SettledStays
      <4>4. QED  BY <4>2, <4>3
    <3>3. QED  BY <3>1, <3>2
  <2>7. QED  BY <1>1, <1>5, <2>3, <2>5, <2>6 DEF PipelineInv
<1>9. QED  BY <1>1, <1>7, <1>8

\* A message that is handled: the row of its stage is what it says, until the next of that stage.
LEMMA DrainStep == ASSUME PipelineInv, Console!Drain PROVE PipelineInv'
<1> DEFINE m == Head(messages)
           n == Len(messages)
<1>1. /\ messages # <<>> /\ messages' = Tail(messages) /\ UNCHANGED <<thread, exited>>
      /\ window' = Console!Handle(window, m)
  BY DEF Console!Drain
<1>2. /\ messages \in Seq(Message) /\ n \in Nat \ {0} /\ m = messages[1] /\ m \in Message
      /\ messages' \in Seq(Message) /\ Len(messages') = n - 1
      /\ \A i \in 1..(n - 1) : messages'[i] = messages[i + 1]
  BY <1>1 DEF PipelineInv, PipelineTypes, PWindow, PExits
<1>3. /\ m.kind \in {"stage_running", "all_result", "done", "all_done"} /\ m.key \in PStage /\ m.code \in {0, 1}
  BY <1>2 DEF Message
<1>4. /\ window' = [running |-> window'.running, stage |-> window'.stage, row |-> window'.row]
      /\ window'.row = [q \in PStage |-> window'.row[q]]
      /\ m.kind \notin {"done", "all_done"} => window'.running = window.running
      /\ m.kind \notin {"stage_running", "all_done"} => window'.row[m.key] = Console!RowAfter(m.code)
      /\ \A q \in PStage : q # m.key \/ m.kind = "all_done" => window'.row[q] = window.row[q]
  <2>1. CASE m.kind = "stage_running"
    <3>1. window' = [window EXCEPT !.row[m.key] = "running"]  BY <1>1, <2>1 DEF Console!Handle
    <3>2. QED  BY <1>3, <2>1, <3>1 DEF PipelineInv, PipelineTypes, PWindow, PExits
  <2>2. CASE m.kind = "all_result"
    <3>1. window' = [window EXCEPT !.row[m.key] = Console!RowAfter(m.code)]  BY <1>1, <2>2 DEF Console!Handle
    <3>2. QED  BY <1>3, <2>2, <3>1 DEF PipelineInv, PipelineTypes, PWindow, PExits
  <2>3. CASE m.kind = "done"
    <3>1. window' = [window EXCEPT !.running = FALSE, !.stage = None, !.row[m.key] = Console!RowAfter(m.code)]
      BY <1>1, <2>3 DEF Console!Handle
    <3>2. window' = [running |-> FALSE, stage |-> None, row |-> [window.row EXCEPT ![m.key] = Console!RowAfter(m.code)]]
      BY <3>1 DEF PipelineInv, PipelineTypes, PWindow, PExits
    <3>3. QED  BY <1>3, <2>3, <3>2 DEF PipelineInv, PipelineTypes, PWindow, PExits
  <2>4. CASE m.kind = "all_done"
    <3>1. window' = [window EXCEPT !.running = FALSE, !.stage = None]
      BY <1>1, <2>4 DEF Console!Handle
    <3>2. QED  BY <2>4, <3>1 DEF PipelineInv, PipelineTypes, PWindow, PExits
  <2>5. QED  BY <1>3, <2>1, <2>2, <2>3, <2>4
<1>5. PipelineTypes'  BY <1>1, <1>2, <1>4 DEF PipelineInv, PipelineTypes, PWindow, PExits
<1>6. thread' # None \/ messages' # <<>> => window'.running
  <2>1. messages' # <<>> => n > 1  BY <1>2
  <2>2. m.kind \in {"done", "all_done"} => n = 1 /\ thread = None  BY <1>2 DEF PipelineInv
  <2>3. QED  BY <1>1, <1>2, <1>4, <2>1, <2>2 DEF PipelineInv
<1>7. ASSUME NEW i \in 1..Len(messages'), messages'[i].kind \in {"done", "all_done"}
      PROVE  i = Len(messages') /\ thread' = None
  <2>1. i \in 1..(n - 1) /\ i + 1 \in 1..n /\ messages[i + 1].kind \in {"done", "all_done"}  BY <1>2, <1>7
  <2>2. i + 1 = n /\ thread = None  BY <2>1 DEF PipelineInv
  <2>3. i = Len(messages')
    <3>1. i \in Int /\ n \in Int /\ Len(messages') = n - 1  BY <1>2, <2>1
    <3>2. QED  BY ONLY <2>2, <3>1
  <2>4. QED  BY <1>1, <2>2, <2>3
<1>8. ASSUME NEW q \in PStage PROVE Current(q)' \/ Settled(q)'
  <2>1. CASE Current(q)  BY <1>1, <2>1 DEF Current
  <2>2. CASE Settled(q)
    <3>1. \A i \in 1..(n - 1) : i + 1 \in 1..n /\ (Reports(i, q)' <=> Reports(i + 1, q))  BY <1>2 DEF Reports
    <3>2. Truth(q)' = Truth(q)  BY <1>1 DEF Truth
    <3>3. CASE window.row[q] = Truth(q) /\ \A i \in 1..n : ~Reports(i, q)
      <4>1. ~Reports(1, q)  BY <1>2, <3>3
      <4>2. window'.row[q] = Truth(q)'  BY <1>2, <1>4, <3>2, <3>3, <4>1 DEF Reports
      <4>3. \A i \in 1..Len(messages') : ~Reports(i, q)'  BY <1>2, <3>1, <3>3
      <4>4. QED  BY <4>2, <4>3 DEF Settled
    <3>4. ASSUME NEW i \in 1..n, Reports(i, q), messages[i].kind # "stage_running", messages[i].code = exited[q],
                 \A j \in 1..n : j > i => ~Reports(j, q)
          PROVE  Settled(q)'
      <4>1. CASE i = 1
        <5>1. Reports(1, q) /\ m.key = q /\ m.kind \notin {"stage_running", "all_done"}  BY <1>2, <3>4, <4>1 DEF Reports
        <5>2. window'.row[q] = Truth(q)'
          BY <1>2, <1>3, <1>4, <3>2, <3>4, <4>1, <5>1, StagesAre DEF Truth
        <5>3. \A j \in 1..Len(messages') : ~Reports(j, q)'  BY <1>2, <3>1, <3>4, <4>1
        <5>4. QED  BY <5>2, <5>3 DEF Settled
      <4>2. CASE i # 1
        <5>1. i - 1 \in 1..Len(messages') /\ (i - 1) + 1 = i /\ i - 1 \in 1..(n - 1)  BY <1>2, <4>2
        <5>2. Reports(i - 1, q)' /\ messages'[i - 1] = messages[i]  BY <1>2, <3>1, <3>4, <5>1
        <5>3. \A j \in 1..Len(messages') : j > i - 1 => ~Reports(j, q)'  BY <1>2, <3>1, <3>4, <5>1
        <5>4. exited'[q] = exited[q]  BY <1>1
        <5>5. QED  BY <3>4, <5>1, <5>2, <5>3, <5>4 DEF Settled
      <4>3. QED  BY <4>1, <4>2
    <3>5. QED  BY <2>2, <3>3, <3>4 DEF Settled
  <2>3. QED  BY <2>1, <2>2 DEF PipelineInv
<1>9. QED  BY <1>5, <1>6, <1>7, <1>8 DEF PipelineInv

LEMMA PipelineInvariance == Console!Spec => []PipelineInv
<1>1. PipelineInv /\ [Console!Next]_<<Console!pipelineVars, Console!migrationVars>> => PipelineInv'
  <2> SUFFICES ASSUME PipelineInv, [Console!Next]_<<Console!pipelineVars, Console!migrationVars>>
               PROVE PipelineInv'
    OBVIOUS
  <2>1. CASE UNCHANGED Console!pipelineVars
    <3>1. UNCHANGED <<window, messages, thread, exited>>  BY <2>1 DEF Console!pipelineVars
    <3>2. PipelineTypes'  BY <3>1 DEF PipelineInv, PipelineTypes, PWindow, PExits
    <3>3. \A q \in PStage : (Current(q)' <=> Current(q)) /\ (Settled(q)' <=> Settled(q))
      BY <3>1 DEF Current, Settled, Reports, Truth
    <3>4. QED  BY <3>1, <3>2, <3>3 DEF PipelineInv
  <2>2. CASE Console!Pipeline
    BY <2>2, RunStageStep, RunAllStep, ScriptEndsStep, DrainStep DEF Console!Pipeline, PStage
  <2>3. CASE Console!Migration  BY <2>1, <2>3 DEF Console!Migration
  <2>4. QED  BY <2>1, <2>2, <2>3 DEF Console!Next
<1>2. QED  BY <1>1, PipelineStarts, PTL DEF Console!Spec

LEMMA IdleIsTrue == PipelineInv => Console!IdleTellsTheTruth
<1> SUFFICES ASSUME PipelineInv PROVE Console!IdleTellsTheTruth  OBVIOUS
<1>1. ASSUME ~window.running, NEW s \in PStage PROVE window.row[s] = Truth(s)
  <2>1. messages = <<>> /\ thread = None  BY <1>1 DEF PipelineInv
  <2>2. Settled(s)  BY <2>1 DEF PipelineInv, Current
  <2>3. QED  BY <2>1, <2>2 DEF Settled
<1>2. QED  BY <1>1 DEF Console!IdleTellsTheTruth, PipelineInv, Truth, PStage

-----------------------------------------------------------------------------
(* Its migration tab.                                                       *)

PTable == Console!Table
Counter == {"verify", "refresh"}

\* A thread of the tab, over the tables s: what a count that goes on has found
\* complete still is, and a count that found all complete ended when all were.
CommandOK(c, s) ==
    /\ c.what \in Counter /\ c.ended = None =>
          /\ c.next \in 1..Len(CountedTables)
          /\ \A t \in PTable : c.found[t] => s[t] /\ c.next > 1
    /\ c.what \in Counter /\ c.ended = "ok" => ((\A t \in PTable : c.found[t]) => c.whole)

ShownOK == tab = [overall |-> tab.overall, row |-> tab.row, whole |-> tab.whole] /\ Console!PassWasTrue

CommandsOK ==
    /\ stored \in [PTable -> BOOLEAN]
    /\ command \in [Clicks -> Console!Command \cup {None}]
    /\ \A n \in Clicks : command[n] # None => CommandOK(command[n], stored)
    /\ due \in Seq(Clicks)
    /\ \A i \in 1..Len(due) : command[due[i]] # None /\ command[due[i]].ended # None
    /\ \A i, k \in 1..Len(due) : due[i] = due[k] => i = k

TabInv == ShownOK /\ CommandsOK

LEMMA CommandsAre ==
    /\ CountedTables \in Seq(PTable) /\ Len(CountedTables) \in Nat /\ 1 \in 1..Len(CountedTables)
    /\ \A i \in 1..Len(CountedTables) : CountedTables[i] \in PTable
    /\ Console!Command = [what : {"migrate", "verify", "refresh", "test"}, next : Nat, found : [PTable -> BOOLEAN],
                          ended : {None, "ok", "failed"}, whole : BOOLEAN]
    /\ None \notin {"ok", "failed"} /\ None \notin Console!Command
<1>1. CountedTables \in Seq(PTable) /\ CountedTables # <<>>
  BY ConsoleAssumption DEF Console!CountsAssumption, PTable, Console!Table
<1>2. QED
  BY <1>1, ConsoleAssumption DEF Console!NoneAssumption, Console!Command, PTable, Console!Table

\* One thread moves: it may end, and then waits for its callback.
LEMMA CommandMoves ==
    ASSUME CommandsOK, NEW n \in Clicks, NEW c \in Console!Command,
           command[n] = None \/ command[n].ended = None,
           command' = [command EXCEPT ![n] = c],
           stored' \in [PTable -> BOOLEAN], CommandOK(c, stored'),
           \A m \in Clicks : m # n /\ command[m] # None => CommandOK(command[m], stored'),
           IF c.ended = None THEN due' = due ELSE due' = Append(due, n)
    PROVE  CommandsOK'
<1>1. c # None /\ \A i \in 1..Len(due) : due[i] # n /\ due[i] \in Clicks  BY CommandsAre DEF CommandsOK
<1>2. /\ command' \in [Clicks -> Console!Command \cup {None}] /\ command'[n] = c
      /\ \A m \in Clicks : m # n => command'[m] = command[m]
  BY DEF CommandsOK
<1>3. \A m \in Clicks : command'[m] # None => CommandOK(command'[m], stored')  BY <1>2
<1>4. /\ due' \in Seq(Clicks)
      /\ \A i \in 1..Len(due') : command'[due'[i]] # None /\ command'[due'[i]].ended # None
      /\ \A i, k \in 1..Len(due') : due'[i] = due'[k] => i = k
  <2>1. CASE c.ended = None  BY <1>1, <1>2, <2>1 DEF CommandsOK
  <2>2. CASE c.ended # None
    <3>1. due' = Append(due, n)  BY <2>2
    <3>2. /\ due' \in Seq(Clicks) /\ Len(due) \in Nat /\ Len(due') = Len(due) + 1 /\ due'[Len(due) + 1] = n
          /\ \A i \in 1..Len(due) : due'[i] = due[i]
      BY <3>1 DEF CommandsOK
    <3>3. \A i \in 1..Len(due') : i \in 1..Len(due) \/ i = Len(due) + 1  BY <3>2
    <3>4. \A i \in 1..Len(due') : command'[due'[i]] # None /\ command'[due'[i]].ended # None
      BY <1>1, <1>2, <2>2, <3>2, <3>3 DEF CommandsOK
    <3>5. \A i, k \in 1..Len(due') : due'[i] = due'[k] => i = k  BY <1>1, <3>2, <3>3 DEF CommandsOK
    <3>6. QED  BY <3>2, <3>4, <3>5
  <2>3. QED  BY <2>1, <2>2
<1>5. QED  BY <1>2, <1>3, <1>4 DEF CommandsOK

LEMMA StartsCommand ==
    ASSUME TabInv, NEW n \in Clicks, NEW what \in {"migrate", "verify", "refresh", "test"}, Console!Start(n, what)
    PROVE  TabInv'
<1>1. /\ command[n] = None /\ command' = [command EXCEPT ![n] = Console!Job(what)] /\ UNCHANGED <<stored, due>>
      /\ tab' = tab \/ tab' = [tab EXCEPT !.overall = "VERIFYING"]
  BY DEF Console!Start
<1>2. PICK c \in Console!Command : c = Console!Job(what)  BY CommandsAre DEF Console!Job, PTable
<1>3. c.ended = None /\ CommandOK(c, stored)
  BY <1>2, CommandsAre DEF CommandOK, Console!Job, PTable
<1>4. CommandsOK'  BY <1>1, <1>2, <1>3, CommandMoves DEF TabInv, CommandsOK
<1>5. ShownOK'  BY <1>1 DEF TabInv, ShownOK, Console!PassWasTrue
<1>6. QED  BY <1>4, <1>5 DEF TabInv

\* The tables are emptied when no count holds a lock: none has found anything yet.
LEMMA EmptyStep ==
    ASSUME TabInv, NEW n \in Clicks, Console!Working(n), command[n].what = "migrate",
           \A m \in Clicks : ~Console!Locking(m), Console!EmptyAll(n), UNCHANGED tab
    PROVE  TabInv'
<1>1. PICK c \in Console!Command : c = [command[n] EXCEPT !.next = 2]
  BY CommandsAre DEF TabInv, CommandsOK, Console!Working
<1>2. c.what = "migrate" /\ c.ended = None
  BY <1>1, CommandsAre DEF TabInv, CommandsOK, Console!Working
<1>3. stored' = [t \in PTable |-> FALSE] /\ command' = [command EXCEPT ![n] = c] /\ due' = due
  BY <1>1 DEF Console!EmptyAll, PTable
<1>4. ASSUME NEW m \in Clicks, command[m] # None PROVE CommandOK(command[m], stored')
  <2>1. command[m].what \in Counter /\ command[m].ended = None => ~(command[m].next > 1)
    BY <1>4 DEF Console!Locking, Console!Working, Counter
  <2>2. CommandOK(command[m], stored)  BY <1>4 DEF TabInv, CommandsOK
  <2>3. QED  BY <2>1, <2>2 DEF CommandOK
<1>5. CommandOK(c, stored')  BY <1>2 DEF CommandOK, Counter
<1>6. CommandsOK'  BY <1>2, <1>3, <1>4, <1>5, CommandMoves DEF TabInv, Console!Working
<1>7. QED  BY <1>6 DEF TabInv, ShownOK, Console!PassWasTrue

\* A table becomes complete, or the COPY fails.
LEMMA CopyStep ==
    ASSUME TabInv, NEW n \in Clicks, Console!Working(n), command[n].what = "migrate",
           Console!CopyTable(n), UNCHANGED tab
    PROVE  TabInv'
<1> DEFINE j == command[n]
<1>1. j \in Console!Command /\ j # None /\ j.ended = None
  BY CommandsAre DEF TabInv, CommandsOK, Console!Working
<1>2. PICK c \in Console!Command :
        /\ c.what = "migrate" /\ command' = [command EXCEPT ![n] = c]
        /\ IF c.ended = None THEN due' = due ELSE due' = Append(due, n)
  <2>1. [j EXCEPT !.ended = "failed"] \in Console!Command /\ [j EXCEPT !.ended = "ok"] \in Console!Command
    BY <1>1, CommandsAre
  <2>2. [j EXCEPT !.next = (j.next - 1) + 2] \in Console!Command  BY <1>1, CommandsAre
  <2>3. CASE Console!Ended(n, j, "failed")  BY <1>1, <2>1, <2>3, CommandsAre DEF Console!Ended
  <2>4. CASE Console!Ended(n, j, "ok")  BY <1>1, <2>1, <2>4, CommandsAre DEF Console!Ended
  <2>5. CASE command' = [command EXCEPT ![n].next = (j.next - 1) + 2] /\ UNCHANGED due
    <3>1. command' = [command EXCEPT ![n] = [j EXCEPT !.next = (j.next - 1) + 2]]  BY <2>5
    <3>2. QED  BY <1>1, <2>2, <2>5, <3>1, CommandsAre
  <2>6. QED  BY <2>3, <2>4, <2>5 DEF Console!CopyTable
<1>3. stored' \in [PTable -> BOOLEAN] /\ \A t \in PTable : stored[t] => stored'[t]
  BY DEF Console!CopyTable, TabInv, CommandsOK
<1>4. ASSUME NEW m \in Clicks, command[m] # None PROVE CommandOK(command[m], stored')
  BY <1>3, <1>4 DEF TabInv, CommandsOK, CommandOK
<1>5. CommandOK(c, stored')  BY <1>2 DEF CommandOK, Counter
<1>6. CommandsOK'  BY <1>1, <1>2, <1>3, <1>4, <1>5, CommandMoves DEF TabInv
<1>7. QED  BY <1>6 DEF TabInv, ShownOK, Console!PassWasTrue

\* A table is counted; after the last one, all that were complete still are.
LEMMA CountedStep == ASSUME TabInv, NEW n \in Clicks, Console!CountStep(n) PROVE TabInv'
<1>1. PICK j \in Console!Command : j = command[n] /\ j.ended = None /\ j.what \in Counter /\ CommandOK(j, stored)
  BY DEF Console!CountStep, Console!Working, Counter, TabInv, CommandsOK
<1>2. PICK t \in PTable : t = CountedTables[j.next]  BY <1>1, CommandsAre DEF CommandOK
<1>3. stored \in [PTable -> BOOLEAN] /\ j.next \in 1..Len(CountedTables) /\ \A q \in PTable : j.found[q] => stored[q]
  BY <1>1 DEF CommandOK, TabInv, CommandsOK
<1>4. PICK found \in [PTable -> BOOLEAN] : found = [j.found EXCEPT ![t] = stored[t]] /\ \A q \in PTable : found[q] => stored[q]
  <2>1. j.found \in [PTable -> BOOLEAN]  BY CommandsAre
  <2>2. [j.found EXCEPT ![t] = stored[t]] \in [PTable -> BOOLEAN]  BY <1>3, <2>1
  <2>3. ASSUME NEW q \in PTable, [j.found EXCEPT ![t] = stored[t]][q]  PROVE stored[q]
    <3>1. CASE q = t  BY <2>1, <2>3, <3>1
    <3>2. CASE q # t  BY <1>3, <2>1, <2>3, <3>2
    <3>3. QED  BY <3>1, <3>2
  <2>4. QED  BY <2>2, <2>3
<1>5. PICK whole \in BOOLEAN : whole = \A q \in PTable : stored[q]  OBVIOUS
<1>6. PICK next \in Nat : next = j.next + 1  BY <1>3, CommandsAre
<1>7. PICK r \in Console!Command :
        /\ r = [what |-> j.what, next |-> next, found |-> found, ended |-> j.ended, whole |-> j.whole]
        /\ r = [j EXCEPT !.found[t] = stored[t], !.next = @ + 1]
  <2>1. j = [what |-> j.what, next |-> j.next, found |-> j.found, ended |-> j.ended, whole |-> j.whole]  BY CommandsAre
  <2>2. PICK d : d = [j EXCEPT !.found = found]  OBVIOUS
  <2>3. d = [what |-> j.what, next |-> j.next, found |-> found, ended |-> j.ended, whole |-> j.whole]  BY <2>1, <2>2
  <2>4. [d EXCEPT !.next = next] = [what |-> j.what, next |-> next, found |-> found, ended |-> j.ended, whole |-> j.whole]
    BY <2>3
  <2>5. [j EXCEPT !.found[t] = stored[t], !.next = @ + 1] = [j EXCEPT !.found = found, !.next = next]
    <3>1. [j EXCEPT !.found[t] = stored[t], !.next = @ + 1]
            = [j EXCEPT !.found = [j.found EXCEPT ![t] = stored[t]], !.next = j.next + 1]
      OBVIOUS
    <3>2. QED  BY <1>4, <1>6, <3>1
  <2>6. [j EXCEPT !.found = found, !.next = next] = [d EXCEPT !.next = next]  BY <2>2
  <2>7. [what |-> j.what, next |-> next, found |-> found, ended |-> j.ended, whole |-> j.whole] \in Console!Command
    BY <1>1, <1>4, <1>6, CommandsAre
  <2>8. QED  BY <2>4, <2>5, <2>6, <2>7
<1>8. PICK e \in Console!Command :
        /\ e = [what |-> j.what, next |-> next, found |-> found, ended |-> "ok", whole |-> whole]
        /\ e = [[r EXCEPT !.whole = \A q \in PTable : stored[q]] EXCEPT !.ended = "ok"]
  <2>1. PICK d : d = [r EXCEPT !.whole = whole]  OBVIOUS
  <2>2. d = [what |-> j.what, next |-> next, found |-> found, ended |-> j.ended, whole |-> whole]
    <3>1. r = [what |-> j.what, next |-> next, found |-> found, ended |-> j.ended, whole |-> j.whole]  BY <1>7
    <3>2. \A w : [r EXCEPT !.whole = w] = [what |-> j.what, next |-> next, found |-> found, ended |-> j.ended, whole |-> w]
      BY <3>1
    <3>3. QED  BY <2>1, <3>2
  <2>3. [d EXCEPT !.ended = "ok"] = [what |-> j.what, next |-> next, found |-> found, ended |-> "ok", whole |-> whole]
    BY <2>2
  <2>4. [what |-> j.what, next |-> next, found |-> found, ended |-> "ok", whole |-> whole] \in Console!Command
    BY <1>1, <1>4, <1>5, <1>6, CommandsAre
  <2>5. QED  BY <1>5, <2>1, <2>3, <2>4
<1>9. r.ended = None /\ e.ended # None  BY <1>1, <1>7, <1>8, CommandsAre
<1>10. /\ UNCHANGED <<tab, stored>>
       /\ \/ command' = [command EXCEPT ![n] = e] /\ due' = Append(due, n)
          \/ j.next # Len(CountedTables) /\ command' = [command EXCEPT ![n] = r] /\ due' = due
  BY <1>1, <1>2, <1>7, <1>8 DEF Console!CountStep, Console!Ended, PTable
<1>11. j.next # Len(CountedTables) => CommandOK(r, stored)  BY <1>1, <1>3, <1>4, <1>6, <1>7, CommandsAre DEF CommandOK
<1>12. CommandOK(e, stored)
  <2>1. e.found = found /\ e.ended = "ok" /\ e.whole = whole  BY <1>8
  <2>2. e.ended # None  BY <2>1, CommandsAre
  <2>3. (\A q \in PTable : found[q]) => whole  BY <1>4, <1>5
  <2>4. (\A q \in PTable : e.found[q]) => e.whole  BY <2>1, <2>3
  <2>5. QED  BY <2>2, <2>4 DEF CommandOK
<1>13. \A m \in Clicks : command[m] # None => CommandOK(command[m], stored)  BY DEF TabInv, CommandsOK
<1>14. CommandsOK'
  <2>1. CASE command' = [command EXCEPT ![n] = e] /\ due' = Append(due, n)
    BY <1>1, <1>3, <1>9, <1>10, <1>12, <1>13, <2>1, CommandMoves DEF TabInv
  <2>2. CASE j.next # Len(CountedTables) /\ command' = [command EXCEPT ![n] = r] /\ due' = due
    BY <1>1, <1>3, <1>9, <1>10, <1>11, <1>13, <2>2, CommandMoves DEF TabInv
  <2>3. QED  BY <1>10, <2>1, <2>2
<1>15. QED  BY <1>10, <1>14 DEF TabInv, ShownOK, Console!PassWasTrue

\* A thread ends without having found all tables: it fails, or it was a test.
LEMMA EndsStep ==
    ASSUME TabInv, NEW n \in Clicks, NEW how \in {"ok", "failed"}, Console!Working(n),
           how = "failed" \/ command[n].what = "test", Console!Ended(n, command[n], how), UNCHANGED <<tab, stored>>
    PROVE  TabInv'
<1>1. command[n] \in Console!Command /\ command[n].ended = None
  BY DEF TabInv, CommandsOK, Console!Working
<1>2. PICK c \in Console!Command : c = [command[n] EXCEPT !.ended = how]  BY <1>1, CommandsAre
<1>3. c.ended = how /\ c.what = command[n].what /\ how # None  BY <1>1, <1>2, CommandsAre
<1>4. CommandOK(c, stored)  BY <1>3, CommandsAre DEF CommandOK, Counter
<1>5. CommandsOK'  BY <1>1, <1>2, <1>3, <1>4, CommandMoves DEF TabInv, CommandsOK, Console!Ended
<1>6. QED  BY <1>5 DEF TabInv, ShownOK, Console!PassWasTrue

LEMMA UnstartedStep == ASSUME TabInv, NEW n \in Clicks, Console!Unstarted(n) PROVE TabInv'
<1>1. command[n] # None /\ command[n].ended = None /\ command' = [command EXCEPT ![n] = None] /\ UNCHANGED <<tab, stored, due>>
  BY DEF Console!Unstarted, Console!Working
<1>2. /\ command' \in [Clicks -> Console!Command \cup {None}] /\ command'[n] = None
      /\ \A m \in Clicks : m # n => command'[m] = command[m]
  BY <1>1 DEF TabInv, CommandsOK
<1>3. \A i \in 1..Len(due) : due[i] # n /\ due[i] \in Clicks  BY <1>1 DEF TabInv, CommandsOK
<1>4. CommandsOK'  BY <1>1, <1>2, <1>3 DEF TabInv, CommandsOK
<1>5. QED  BY <1>1, <1>4 DEF TabInv, ShownOK, Console!PassWasTrue

LEMMA CallbackStep == ASSUME TabInv, Console!Callback PROVE TabInv'
<1>1. PICK n \in Clicks : n = Head(due) /\ due # <<>>  BY DEF Console!Callback, TabInv, CommandsOK
<1>2. /\ due \in Seq(Clicks) /\ Len(due) \in Nat /\ 1 \in 1..Len(due) /\ due[1] = n
      /\ Tail(due) \in Seq(Clicks) /\ Len(Tail(due)) = Len(due) - 1
      /\ \A i \in 1..Len(Tail(due)) : i + 1 \in 1..Len(due) /\ Tail(due)[i] = due[i + 1]
  BY <1>1 DEF TabInv, CommandsOK
<1> DEFINE j == command[n]
<1>3. j # None /\ j \in Console!Command /\ CommandOK(j, stored)  BY <1>2 DEF TabInv, CommandsOK
<1>4. /\ due' = Tail(due) /\ stored' = stored
      /\ \/ j.what \in Counter /\ j.ended = "ok" /\ tab' = Console!Shown(j)
         \/ tab' = [tab EXCEPT !.overall = "FAILED"] \/ tab' = tab
  BY <1>1 DEF Console!Callback, Counter
<1>5. PICK c \in Console!Command \cup {None} :
        command' = [command EXCEPT ![n] = c] /\ (c # None => CommandOK(c, stored))
  <2>1. Console!Job("refresh") \in Console!Command /\ CommandOK(Console!Job("refresh"), stored)
    BY CommandsAre DEF Console!Job, CommandOK, PTable
  <2>2. command' = [command EXCEPT ![n] = Console!Job("refresh")] \/ command' = [command EXCEPT ![n] = None]
    BY <1>1 DEF Console!Callback
  <2>3. QED  BY <2>1, <2>2
<1>6. /\ command' \in [Clicks -> Console!Command \cup {None}] /\ command'[n] = c
      /\ \A m \in Clicks : m # n => command'[m] = command[m]
  BY <1>5 DEF TabInv, CommandsOK
<1>7. \A i \in 1..Len(due') : due'[i] # n /\ due'[i] \in Clicks /\ i + 1 \in 1..Len(due) /\ due'[i] = due[i + 1]
  <2>1. ASSUME NEW i \in 1..Len(due') PROVE due[i + 1] # n
    <3>1. i \in Nat /\ i >= 1 /\ i + 1 \in 1..Len(due)  BY <1>2, <1>4
    <3>2. due[i + 1] = due[1] => i + 1 = 1  BY <1>2, <3>1 DEF TabInv, CommandsOK
    <3>3. QED  BY <1>2, <3>1, <3>2
  <2>2. QED  BY <1>2, <1>4, <2>1
<1>8. CommandsOK'
  <2>1. \A m \in Clicks : command'[m] # None => CommandOK(command'[m], stored')
    BY <1>4, <1>5, <1>6 DEF TabInv, CommandsOK
  <2>2. \A i \in 1..Len(due') : command'[due'[i]] # None /\ command'[due'[i]].ended # None
    BY <1>6, <1>7 DEF TabInv, CommandsOK
  <2>3. \A i, k \in 1..Len(due') : due'[i] = due'[k] => i = k
    <3>1. SUFFICES ASSUME NEW i \in 1..Len(due'), NEW k \in 1..Len(due'), due'[i] = due'[k] PROVE i = k  OBVIOUS
    <3>2. i + 1 = k + 1  BY <1>7, <3>1 DEF TabInv, CommandsOK
    <3>3. QED  BY <3>2
  <2>4. QED  BY <1>2, <1>4, <1>6, <2>1, <2>2, <2>3 DEF TabInv, CommandsOK
<1>9. ShownOK'
  <2>1. CASE j.what \in Counter /\ j.ended = "ok" /\ tab' = Console!Shown(j)
    <3>1. (\A t \in PTable : j.found[t]) => j.whole  BY <1>3, <2>1 DEF CommandOK
    <3>2. /\ tab' = [overall |-> tab'.overall, row |-> tab'.row, whole |-> tab'.whole] /\ tab'.whole = j.whole
          /\ tab'.overall = IF \A t \in PTable : j.found[t] THEN "PASS" ELSE "CHECK"
      BY <2>1 DEF Console!Shown, PTable
    <3>3. tab'.overall = "PASS" => tab'.whole  BY <3>1, <3>2
    <3>4. QED  BY <3>2, <3>3 DEF ShownOK, Console!PassWasTrue
  <2>2. CASE tab' = [tab EXCEPT !.overall = "FAILED"] \/ tab' = tab
    BY <2>2 DEF TabInv, ShownOK, Console!PassWasTrue
  <2>3. QED  BY <1>4, <2>1, <2>2
<1>10. QED  BY <1>8, <1>9 DEF TabInv

LEMMA PassStaysTrue == Console!Spec => []TabInv
<1>1. Console!Init => TabInv
  <2> SUFFICES ASSUME Console!Init PROVE TabInv  OBVIOUS
  <2>1. /\ tab = [overall |-> "none", row |-> [t \in PTable |-> "none"], whole |-> FALSE]
        /\ stored \in [PTable -> BOOLEAN] /\ command = [n \in Clicks |-> None] /\ due = <<>>
    BY DEF Console!Init, PTable
  <2>2. ShownOK  BY <2>1 DEF ShownOK, Console!PassWasTrue
  <2>3. CommandsOK  BY <2>1 DEF CommandsOK
  <2>4. QED  BY <2>2, <2>3 DEF TabInv
<1>2. TabInv /\ [Console!Next]_<<Console!pipelineVars, Console!migrationVars>> => TabInv'
  <2> SUFFICES ASSUME TabInv,
                      [Console!Next]_<<Console!pipelineVars, Console!migrationVars>>
               PROVE TabInv'
    OBVIOUS
  <2>1. CASE UNCHANGED Console!migrationVars
    BY <2>1 DEF TabInv, ShownOK, CommandsOK, Console!PassWasTrue, Console!migrationVars
  <2>2. ASSUME NEW n \in Clicks, Console!MigrateStep(n) PROVE TabInv'
    BY <2>2, EmptyStep, CopyStep DEF Console!MigrateStep
  <2>3. ASSUME NEW n \in Clicks, Console!Tested(n) \/ Console!Fail(n) PROVE TabInv'
    BY <2>3, EndsStep DEF Console!Tested, Console!Fail
  <2>4. CASE Console!Migration
    BY <2>2, <2>3, <2>4, StartsCommand, CountedStep, UnstartedStep, CallbackStep DEF Console!Migration
  <2>5. QED
    BY <2>1, <2>4 DEF Console!Next, Console!Pipeline
<1>3. QED  BY <1>1, <1>2, PTL DEF Console!Spec

LEMMA ConsoleMoves == BatchSpec => Console!Spec
<1>1. BatchInit => Console!Init  BY DEF BatchInit
<1>2. [BatchNext]_<<part, vars, databaseVars, aggregationVars, snapshotVars, servicesVars, consoleVars, streamVars>>
      => [Console!Next]_<<Console!pipelineVars, Console!migrationVars>>
  BY DEF BatchNext, consoleVars, Console!pipelineVars, Console!migrationVars, Console!Next
<1>3. QED  BY <1>1, <1>2, PTL DEF BatchSpec, Console!Spec

-----------------------------------------------------------------------------
(* The window of session 2.                                                 *)

SStage == StreamTab!Stage
SRun == StreamTab!Run

\* What stage_state says of the last end of a stage.
Told(s) == IF ended[s] = None THEN "not run" ELSE StreamTab!Verdict(ended[s])

StreamTypes ==
    /\ chain \in [Clicks -> SRun \cup {None}]
    /\ \A n \in Clicks : chain[n] # None /\ chain[n].step = "next" => chain[n].all
    /\ overlapped \in BOOLEAN
    /\ state = [s \in SStage |-> state[s]]
    /\ ended = [s \in SStage |-> ended[s]] /\ \A s \in SStage : ended[s] \in {None, 0, 1}

\* A chain that goes on has passed all stages before it.
PassedUpTo(c) ==
    \A j \in 1..Len(StreamStages) :
        j < c.at \/ (j = c.at /\ c.step = "next") => state[StreamStages[j]] = "passed"

NotOverlapped ==
    /\ \A m, n \in Clicks : chain[m] # None /\ chain[n] # None => m = n
    /\ \A n \in Clicks : chain[n] # None /\ chain[n].step # "next" => running
    /\ \A n \in Clicks : chain[n] # None /\ chain[n].step = "done" => ended[StreamStages[chain[n].at]] = chain[n].code
    /\ \A n \in Clicks : chain[n] # None /\ chain[n].all => PassedUpTo(chain[n])
    /\ \A s \in SStage :
          \/ \E n \in Clicks : chain[n] # None /\ chain[n].step = "done" /\ StreamStages[chain[n].at] = s
          \/ state[s] = Told(s)
    /\ live.text = "all passed" => StreamTab!Idle /\ \A s \in SStage : state[s] = "passed"

\* A row says that its stage runs only while some thread is at work on it.
AtWork(n, s) == chain[n] # None /\ chain[n].step # "next" /\ StreamStages[chain[n].at] = s

TreeOK ==
    /\ row = [s \in SStage |-> row[s]]
    /\ \A s \in SStage : row[s] = "running" => \E n \in Clicks : AtWork(n, s)

StreamInv == StreamTypes /\ TreeOK /\ StreamTab!NeverStuck /\ (~overlapped => NotOverlapped)

LEMMA LoadedRows ==
    ASSUME NEW have, row' = StreamTab!Loaded(row, have)
    PROVE  row' = [s \in SStage |-> row'[s]] /\ \A s \in SStage : row'[s] = "running" => row[s] = "running"
<1>1. row' = [s \in SStage |-> IF s \in have THEN "loaded" ELSE row[s]]  BY DEF StreamTab!Loaded, SStage
<1>2. \A s \in SStage : row'[s] = IF s \in have THEN "loaded" ELSE row[s]  BY <1>1
<1>3. row' = [s \in SStage |-> row'[s]]  BY <1>1
<1>4. QED  BY <1>2, <1>3

LEMMA StreamStagesAre ==
    /\ StreamStages \in Seq(SStage) /\ StreamStages # <<>> /\ SelfTestStage \in SStage
    /\ \A k \in 1..Len(StreamStages) : StreamStages[k] = ProduceStage => \E j \in 1 .. k - 1 : StreamStages[j] = SelfTestStage
    /\ \A s \in SStage : \E k \in 1..Len(StreamStages) : StreamStages[k] = s
    /\ SRun = [at : 1..Len(StreamStages), all : BOOLEAN, step : {"setup", "script", "post", "done", "next"}, code : {0, 1}]
    /\ None \notin {0, 1} /\ None \notin SRun
<1>1. StreamStages \in Seq(SStage) /\ StreamStages # <<>> /\ SelfTestStage \in SStage
  BY StreamAssumption DEF StreamTab!StagesAssumption, SStage
<1>2. DOMAIN StreamStages = 1..Len(StreamStages)  BY <1>1
<1>3. \A k \in 1..Len(StreamStages) : StreamStages[k] = ProduceStage => \E j \in 1 .. k - 1 : StreamStages[j] = SelfTestStage
  BY <1>2, StreamAssumption DEF StreamTab!StagesAssumption
<1>4. \A s \in SStage : \E k \in 1..Len(StreamStages) : StreamStages[k] = s
  BY <1>2 DEF SStage, StreamTab!Stage, StreamTab!Range
<1>5. SRun = [at : 1..Len(StreamStages), all : BOOLEAN, step : {"setup", "script", "post", "done", "next"}, code : {0, 1}]
  BY <1>2 DEF SRun, StreamTab!Run
<1>6. None \notin {0, 1} /\ None \notin SRun  BY StreamAssumption DEF StreamTab!NoneAssumption, SRun
<1>7. QED  BY <1>1, <1>3, <1>4, <1>5, <1>6

LEMMA StreamStarts == StreamTab!Init => StreamInv
<1> SUFFICES ASSUME StreamTab!Init PROVE StreamInv  OBVIOUS
<1>1. /\ live = [text |-> "idle", stage |-> None] /\ running = FALSE /\ overlapped = FALSE
      /\ chain = [n \in Clicks |-> None]
  BY DEF StreamTab!Init
<1>2. state = [s \in SStage |-> "not run"] /\ ended = [s \in SStage |-> None]
  BY DEF StreamTab!Init, SStage
<1>3. StreamTypes
  <2>0. \A n \in Clicks : chain[n] = None  BY <1>1
  <2>1. state = [s \in SStage |-> state[s]]  BY <1>2
  <2>2. ended = [s \in SStage |-> ended[s]] /\ \A s \in SStage : ended[s] \in {None, 0, 1}  BY <1>2
  <2>3. QED  BY <1>1, <2>0, <2>1, <2>2 DEF StreamTypes
<1>4. live.text = "idle"  BY <1>1
<1>5. \A s \in SStage : state[s] = Told(s)  BY <1>2 DEF Told
<1>6. \A n \in Clicks : chain[n] = None  BY <1>1
<1>7. NotOverlapped  BY <1>4, <1>5, <1>6 DEF NotOverlapped
<1>8. TreeOK /\ \A s \in SStage : row[s] # "running"
  <2>1. row = [s \in SStage |-> "not run"]  BY DEF StreamTab!Init, SStage
  <2>2. QED  BY <2>1 DEF TreeOK
<1>9. QED  BY <1>1, <1>3, <1>7, <1>8 DEF StreamInv, StreamTab!NeverStuck, SStage

LEMMA StreamSame ==
    ASSUME StreamInv, UNCHANGED <<running, live, state, chain, ended, overlapped>>,
           row' = [s \in SStage |-> row'[s]], \A s \in SStage : row'[s] = "running" => row[s] = "running"
    PROVE  StreamInv'
<1>1. StreamTypes'  BY DEF StreamInv, StreamTypes
<1>2. (StreamTab!Idle' <=> StreamTab!Idle) /\ StreamTab!NeverStuck'
  BY DEF StreamInv, StreamTab!NeverStuck, StreamTab!Idle, SStage
<1>2a. TreeOK'
  <2>1. \A n, s : AtWork(n, s)' <=> AtWork(n, s)  BY DEF AtWork
  <2>2. QED  BY <2>1 DEF StreamInv, TreeOK
<1>3. (\A s : Told(s)' = Told(s)) /\ (\A c : PassedUpTo(c)' <=> PassedUpTo(c))  BY DEF Told, PassedUpTo
<1>4. NotOverlapped => NotOverlapped'  BY <1>2, <1>3 DEF NotOverlapped
<1>5. QED  BY <1>1, <1>2, <1>2a, <1>4 DEF StreamInv

\* A run that begins its next stage, or its first when nothing else is under way.
LEMMA BeginsStep ==
    ASSUME StreamInv, NEW n \in Clicks, NEW k \in 1..Len(StreamStages), NEW all \in BOOLEAN,
           chain[n] = None \/ chain[n].step = "next",
           StreamTab!Begin(n, k, all), UNCHANGED <<state, ended>>, overlapped' \in BOOLEAN,
           ~overlapped' => /\ ~overlapped /\ \A m \in Clicks \ {n} : chain[m] = None
                           /\ all => \A j \in 1..Len(StreamStages) : j < k => state[StreamStages[j]] = "passed"
                           /\ \A s \in SStage : state[s] = Told(s)
    PROVE  StreamInv'
<1> DEFINE c == [at |-> k, all |-> all, step |-> "setup", code |-> 1]
<1>1. running' = TRUE /\ live'.text = "running" /\ chain' = [chain EXCEPT ![n] = c]
  BY DEF StreamTab!Begin
<1>2. c \in SRun /\ c # None /\ c.step = "setup" /\ c.all = all /\ c.at = k  BY StreamStagesAre
<1>3. /\ chain' \in [Clicks -> SRun \cup {None}] /\ chain'[n] = c
      /\ \A m \in Clicks : m # n => chain'[m] = chain[m]
  BY <1>1, <1>2 DEF StreamInv, StreamTypes
<1>4. StreamTypes'  BY <1>3 DEF StreamInv, StreamTypes
<1>4a. TreeOK'
  <2>1. PICK s \in SStage : s = StreamStages[k]  BY StreamStagesAre
  <2>2. row' = [row EXCEPT ![s] = "running"]  BY <2>1 DEF StreamTab!Begin
  <2>3. /\ row' = [q \in SStage |-> row'[q]]
        /\ \A q \in SStage : q # s => row'[q] = row[q]
    BY <2>2 DEF StreamInv, TreeOK
  <2>4. AtWork(n, s)'  BY <1>2, <1>3, <2>1 DEF AtWork
  <2>5. \A m \in Clicks, q \in SStage : AtWork(m, q) => AtWork(m, q)'  BY <1>3 DEF AtWork
  <2>6. QED  BY <2>3, <2>4, <2>5 DEF StreamInv, TreeOK
<1>5. StreamTab!NeverStuck'  BY <1>2, <1>3 DEF StreamTab!NeverStuck, StreamTab!Idle
<1>6. ASSUME ~overlapped' PROVE NotOverlapped'
  <2>1. \A m \in Clicks : chain'[m] # None => m = n  BY <1>3, <1>6
  <2>2. \A s \in SStage : state'[s] = Told(s)'  BY <1>6 DEF Told
  <2>3. ASSUME all PROVE PassedUpTo(chain[n])'  BY <1>2, <1>3, <1>6, <2>3 DEF PassedUpTo
  <2>4. ASSUME NEW m \in Clicks, chain'[m] # None, chain'[m].all PROVE PassedUpTo(chain[m])'
    BY <1>2, <1>3, <2>1, <2>3, <2>4
  <2>5. QED  BY <1>1, <1>2, <1>3, <2>1, <2>2, <2>4 DEF NotOverlapped
<1>7. QED  BY <1>4, <1>4a, <1>5, <1>6 DEF StreamInv

LEMMA ClickStep ==
    ASSUME StreamInv, NEW n \in Clicks, NEW k \in 1..Len(StreamStages), NEW all \in BOOLEAN,
           all => k = 1, StreamTab!Click(n, k, all)
    PROVE  StreamInv'
<1>1. /\ ~running /\ chain[n] = None /\ StreamTab!Begin(n, k, all) /\ UNCHANGED <<state, ended>>
      /\ overlapped' = (overlapped \/ \E m \in Clicks : chain[m] # None)
  BY DEF StreamTab!Click
<1>2. overlapped' \in BOOLEAN  BY <1>1
<1>3. ASSUME ~overlapped'
      PROVE  /\ ~overlapped /\ \A m \in Clicks \ {n} : chain[m] = None
             /\ all => \A j \in 1..Len(StreamStages) : j < k => state[StreamStages[j]] = "passed"
             /\ \A s \in SStage : state[s] = Told(s)
  <2>1. ~overlapped /\ \A m \in Clicks : chain[m] = None  BY <1>1, <1>3
  <2>2. \A s \in SStage : state[s] = Told(s)  BY <2>1 DEF StreamInv, NotOverlapped
  <2>3. QED  BY <2>1, <2>2
<1>4. QED  BY <1>1, <1>2, <1>3, BeginsStep

LEMMA NextStageStep == ASSUME StreamInv, NEW n \in Clicks, StreamTab!NextStage(n) PROVE StreamInv'
<1>1. /\ chain[n] # None /\ chain[n].step = "next" /\ chain[n].at < Len(StreamStages)
      /\ StreamTab!Begin(n, chain[n].at + 1, TRUE) /\ UNCHANGED <<state, ended, overlapped>>
  BY DEF StreamTab!NextStage, StreamTab!At
<1>2. chain[n] \in SRun  BY <1>1 DEF StreamInv, StreamTypes
<1>3. PICK k \in 1..Len(StreamStages) : k = chain[n].at  BY <1>2, StreamStagesAre
<1>4. Len(StreamStages) \in Nat  BY StreamStagesAre
<1>5. k + 1 \in 1..Len(StreamStages)  BY <1>1, <1>3, <1>4
<1>6. ASSUME ~overlapped'
      PROVE  /\ ~overlapped /\ \A m \in Clicks \ {n} : chain[m] = None
             /\ \A j \in 1..Len(StreamStages) : j < k + 1 => state[StreamStages[j]] = "passed"
             /\ \A s \in SStage : state[s] = Told(s)
  <2>1. ~overlapped /\ NotOverlapped  BY <1>1, <1>6 DEF StreamInv
  <2>2. \A m \in Clicks \ {n} : chain[m] = None  BY <1>1, <2>1 DEF NotOverlapped
  <2>3. \A s \in SStage : state[s] = Told(s)  BY <1>1, <2>1, <2>2 DEF NotOverlapped
  <2>4. chain[n].all  BY <1>1 DEF StreamInv, StreamTypes
  <2>5. PassedUpTo(chain[n])  BY <1>1, <2>1, <2>4 DEF NotOverlapped
  <2>6. ASSUME NEW j \in 1..Len(StreamStages), j < k + 1 PROVE state[StreamStages[j]] = "passed"
    BY <1>1, <1>3, <2>5, <2>6 DEF PassedUpTo
  <2>7. QED  BY <2>1, <2>2, <2>3, <2>6
<1>7. overlapped' \in BOOLEAN  BY <1>1 DEF StreamInv, StreamTypes
<1>8. QED  BY <1>1, <1>3, <1>5, <1>6, <1>7, BeginsStep

\* A thread that goes on or ends: the exit code it ends with is noted, and its callback waits.
LEMMA ToStep ==
    ASSUME StreamInv, NEW n \in Clicks, chain[n] # None, chain[n].step \in {"setup", "script", "post"},
           NEW step \in {"script", "post", "done"}, NEW code \in {0, 1}, StreamTab!To(n, step, code)
    PROVE  StreamInv'
<1>1. PICK c \in SRun : c = chain[n]  BY DEF StreamInv, StreamTypes
<1>2. PICK d \in SRun : d = [c EXCEPT !.step = step, !.code = code]  BY StreamStagesAre
<1>3. PICK s \in SStage : s = StreamStages[c.at]
  <2>1. c.at \in 1..Len(StreamStages)  BY StreamStagesAre
  <2>2. StreamStages \in Seq(SStage)  BY StreamStagesAre
  <2>3. StreamStages[c.at] \in SStage  BY <2>1, <2>2
  <2>4. QED  BY <2>3
<1>4. /\ d.at = c.at /\ d.all = c.all /\ d.step = step /\ d.code = code /\ d # None
      /\ c.at \in 1..Len(StreamStages)
  BY <1>2, StreamStagesAre
<1>5. /\ chain' = [chain EXCEPT ![n].step = step, ![n].code = code]
      /\ ended' = IF step = "done" THEN [ended EXCEPT ![s] = code] ELSE ended
      /\ UNCHANGED <<running, live, row, state, overlapped>>
  BY <1>1, <1>3 DEF StreamTab!To
<1>6. /\ chain' \in [Clicks -> SRun \cup {None}] /\ chain'[n] = d
      /\ \A m \in Clicks : m # n => chain'[m] = chain[m]
  BY <1>1, <1>2, <1>5 DEF StreamInv, StreamTypes
<1>7. /\ ended' = [q \in SStage |-> ended'[q]] /\ \A q \in SStage : ended'[q] \in {None, 0, 1}
      /\ step = "done" => ended'[s] = code
      /\ \A q \in SStage : q # s \/ step # "done" => ended'[q] = ended[q]
  <2>1. CASE step = "done"  BY <1>5, <2>1 DEF StreamInv, StreamTypes
  <2>2. CASE step # "done"  BY <1>5, <2>2 DEF StreamInv, StreamTypes
  <2>3. QED  BY <2>1, <2>2
<1>8. StreamTypes'
  <2>1. \A m \in Clicks : chain'[m] # None /\ chain'[m].step = "next" => chain'[m].all
    BY <1>4, <1>6 DEF StreamInv, StreamTypes
  <2>2. QED  BY <1>5, <1>6, <1>7, <2>1 DEF StreamInv, StreamTypes
<1>8a. TreeOK'
  <2>1. \A m \in Clicks, q \in SStage : AtWork(m, q) => AtWork(m, q)'  BY <1>1, <1>4, <1>6 DEF AtWork
  <2>2. QED  BY <1>5, <2>1 DEF StreamInv, TreeOK
<1>9. StreamTab!NeverStuck'  BY <1>4, <1>6 DEF StreamTab!NeverStuck, StreamTab!Idle
<1>10. ASSUME ~overlapped' PROVE NotOverlapped'
  <2>1. NotOverlapped  BY <1>5, <1>10 DEF StreamInv
  <2>2. \A m \in Clicks : m # n => chain[m] = None /\ chain'[m] = None  BY <1>6, <2>1 DEF NotOverlapped
  <2>3. running'  BY <1>5, <2>1 DEF NotOverlapped
  <2>4. chain'[n].all => PassedUpTo(chain[n])'
    <3> SUFFICES ASSUME chain'[n].all, NEW j \in 1..Len(StreamStages), j < chain'[n].at \/ (j = chain'[n].at /\ chain'[n].step = "next")
                 PROVE  state'[StreamStages[j]] = "passed"
      BY DEF PassedUpTo
    <3>1. c.all /\ j < c.at  BY <1>4, <1>6
    <3>2. PassedUpTo(c)  BY <1>1, <2>1, <3>1 DEF NotOverlapped
    <3>3. QED  BY <1>5, <3>1, <3>2 DEF PassedUpTo
  <2>5. ASSUME NEW q \in SStage
        PROVE  \/ \E m \in Clicks : chain'[m] # None /\ chain'[m].step = "done" /\ StreamStages[chain'[m].at] = q
               \/ state'[q] = Told(q)'
    <3>1. CASE q = s /\ step = "done"  BY <1>3, <1>4, <1>6, <3>1
    <3>2. CASE q # s \/ step # "done"
      <4>1. state[q] = Told(q)  BY <1>1, <2>1, <2>2 DEF NotOverlapped
      <4>2. ended'[q] = ended[q]  BY <1>7, <3>2
      <4>3. QED  BY <1>5, <4>1, <4>2 DEF Told
    <3>3. QED  BY <3>1, <3>2
  <2>6. live'.text # "all passed"  BY <1>5, <2>1 DEF NotOverlapped, StreamTab!Idle
  <2>7. chain'[n].step = "done" => ended'[StreamStages[chain'[n].at]] = chain'[n].code
    BY <1>3, <1>4, <1>6, <1>7
  <2>8. QED  BY <2>2, <2>3, <2>4, <2>5, <2>6, <2>7 DEF NotOverlapped
<1>11. QED  BY <1>8, <1>8a, <1>9, <1>10 DEF StreamInv

\* The callback: the stage is told as its thread ended; the self-test is told again as it is.
LEMMA DoneStep ==
    ASSUME StreamInv, NEW n \in Clicks, NEW confirmed \in BOOLEAN, StreamTab!Done(n, confirmed)
    PROVE  StreamInv'
<1>1. chain[n] # None /\ chain[n].step = "done"  BY DEF StreamTab!Done, StreamTab!At
<1>2. PICK c \in SRun : c = chain[n]  BY <1>1 DEF StreamInv, StreamTypes
<1>3. PICK s \in SStage : s = StreamStages[c.at]  BY StreamStagesAre
<1>4. PICK d \in SRun : d = [c EXCEPT !.step = "next"]  BY StreamStagesAre
<1>5. /\ confirmed => c.all /\ c.code = 0 /\ s = ProduceStage
      /\ running' = FALSE /\ UNCHANGED <<ended, overlapped>>
      /\ state' = [q \in SStage |-> IF q = s \/ (confirmed /\ q = SelfTestStage) THEN StreamTab!Verdict(c.code) ELSE state[q]]
      /\ row' = [q \in SStage |-> IF q = s \/ (confirmed /\ q = SelfTestStage) THEN StreamTab!Verdict(c.code) ELSE row[q]]
      /\ live' = IF c.all /\ c.code # 0 THEN [text |-> "failed", stage |-> None] ELSE StreamTab!Stopped(c.code)
      /\ chain' = [chain EXCEPT ![n] = IF c.all /\ c.code = 0 THEN d ELSE None]
  BY <1>2, <1>3, <1>4 DEF StreamTab!Done, SStage
<1>6. /\ d.at = c.at /\ d.all = c.all /\ d.step = "next" /\ d # None /\ c.at \in 1..Len(StreamStages)
      /\ c.code \in {0, 1} /\ c.all \in BOOLEAN
  BY <1>4, StreamStagesAre
<1>7. /\ chain' \in [Clicks -> SRun \cup {None}]
      /\ chain'[n] = IF c.all /\ c.code = 0 THEN d ELSE None
      /\ \A m \in Clicks : m # n => chain'[m] = chain[m]
  BY <1>5 DEF StreamInv, StreamTypes
<1>8. StreamTypes'
  <2>1. \A m \in Clicks : chain'[m] # None /\ chain'[m].step = "next" => chain'[m].all
    BY <1>6, <1>7 DEF StreamInv, StreamTypes
  <2>2. state' = [q \in SStage |-> state'[q]]  BY <1>5
  <2>3. QED  BY <1>5, <1>7, <2>1, <2>2 DEF StreamInv, StreamTypes
<1>8a. TreeOK'
  <2>1. StreamTab!Verdict(c.code) # "running"  BY DEF StreamTab!Verdict
  <2>2. row' = [q \in SStage |-> row'[q]]  BY <1>5
  <2>3. ASSUME NEW q \in SStage, row'[q] = "running" PROVE \E m \in Clicks : AtWork(m, q)'
    <3>1. q # s /\ row[q] = "running"  BY <1>5, <2>1, <2>3
    <3>2. PICK m \in Clicks : AtWork(m, q)  BY <3>1 DEF StreamInv, TreeOK
    <3>3. m # n  BY <1>2, <1>3, <3>1, <3>2 DEF AtWork
    <3>4. QED  BY <1>7, <3>2, <3>3 DEF AtWork
  <2>4. QED  BY <2>2, <2>3 DEF TreeOK
<1>9. StreamTab!NeverStuck'
  <2>1. live'.stage = None  BY <1>5 DEF StreamTab!Stopped
  <2>2. StreamTab!Idle' => \A q \in SStage : row'[q] # "running"  BY <1>8a DEF TreeOK, AtWork, StreamTab!Idle
  <2>3. QED  BY <1>5, <2>1, <2>2 DEF StreamTab!NeverStuck, SStage
<1>10. ASSUME ~overlapped' PROVE NotOverlapped'
  <2>1. NotOverlapped  BY <1>5, <1>10 DEF StreamInv
  <2>2. \A m \in Clicks : m # n => chain[m] = None /\ chain'[m] = None  BY <1>1, <1>7, <2>1 DEF NotOverlapped
  <2>3. chain'[n] # None => chain'[n] = d /\ c.all /\ c.code = 0  BY <1>7
  <2>4. ended[s] = c.code  BY <1>1, <1>2, <1>3, <2>1 DEF NotOverlapped
  <2>5. \A q \in SStage : q # s => state[q] = Told(q)  BY <1>2, <1>3, <2>1, <2>2 DEF NotOverlapped
  <2>6. c.all => \A j \in 1..Len(StreamStages) : j < c.at => state[StreamStages[j]] = "passed"
    BY <1>1, <1>2, <2>1 DEF NotOverlapped, PassedUpTo
  <2>7. confirmed => state[SelfTestStage] = "passed"
    <3>1. confirmed => \E j \in 1 .. c.at - 1 : StreamStages[j] = SelfTestStage  BY <1>3, <1>5, <1>6, StreamStagesAre
    <3>2. c.at \in Nat /\ Len(StreamStages) \in Nat /\ c.at <= Len(StreamStages)
      <4>1. c.at \in 1..Len(StreamStages) /\ StreamStages \in Seq(SStage)  BY <1>6, StreamStagesAre
      <4>2. Len(StreamStages) \in Nat  BY <4>1
      <4>3. QED  BY <4>1, <4>2
    <3>3. \A j \in 1 .. c.at - 1 : j \in 1..Len(StreamStages) /\ j < c.at  BY <3>2
    <3>4. QED  BY <1>5, <2>6, <3>1, <3>3
  <2>8. \A q \in SStage : q # s => state'[q] = state[q]
    <3>1. confirmed => StreamTab!Verdict(c.code) = "passed"  BY <1>5 DEF StreamTab!Verdict
    <3>2. QED  BY <1>5, <2>7, <3>1
  <2>9. state'[s] = StreamTab!Verdict(c.code)  BY <1>5
  <2>10. ASSUME NEW q \in SStage PROVE state'[q] = Told(q)'
    <3>1. ended'[q] = ended[q]  BY <1>5
    <3>2. CASE q = s  BY <1>6, <2>4, <2>9, <3>1, <3>2, StreamStagesAre DEF Told
    <3>3. CASE q # s  BY <2>5, <2>8, <3>1, <3>3 DEF Told
    <3>4. QED  BY <3>2, <3>3
  <2>11. chain'[n] # None => PassedUpTo(chain[n])'
    <3> SUFFICES ASSUME chain'[n] # None, NEW j \in 1..Len(StreamStages),
                        j < chain'[n].at \/ (j = chain'[n].at /\ chain'[n].step = "next")
                 PROVE  state'[StreamStages[j]] = "passed"
      BY DEF PassedUpTo
    <3>0. j < c.at \/ j = c.at  BY <1>6, <2>3
    <3>1. c.all /\ c.code = 0  BY <2>3
    <3>2. StreamTab!Verdict(c.code) = "passed"  BY <3>1 DEF StreamTab!Verdict
    <3>3. StreamStages[j] \in SStage  BY StreamStagesAre
    <3>4. CASE StreamStages[j] = s  BY <2>9, <3>2, <3>4
    <3>5. CASE StreamStages[j] # s
      <4>1. j < c.at  BY <1>3, <3>0, <3>5
      <4>2. QED  BY <2>6, <2>8, <3>1, <3>3, <3>5, <4>1
    <3>6. QED  BY <3>4, <3>5
  <2>12. live'.text # "all passed"
    <3>1. live.text # "all passed"  BY <1>1, <2>1 DEF NotOverlapped, StreamTab!Idle
    <3>2. CASE c.all /\ c.code # 0  BY <1>5, <3>2
    <3>3. CASE ~(c.all /\ c.code # 0)
      <4>1. live' = StreamTab!Stopped(c.code)  BY <1>5, <3>3
      <4>2. QED  BY <3>1, <4>1 DEF StreamTab!Stopped
    <3>4. QED  BY <3>2, <3>3
  <2>13. chain'[n] # None => chain'[n].step = "next"  BY <1>6, <2>3
  <2>14. ASSUME NEW m \in Clicks, chain'[m] # None
         PROVE  m = n /\ chain'[m].step = "next" /\ PassedUpTo(chain[m])'
    <3>1. m = n  BY <2>2, <2>14
    <3>2. QED  BY <2>11, <2>13, <2>14, <3>1
  <2>15. QED  BY <2>10, <2>12, <2>14 DEF NotOverlapped
<1>11. QED  BY <1>8, <1>8a, <1>9, <1>10 DEF StreamInv

LEMMA CompletedStep ==
    ASSUME StreamInv, NEW n \in Clicks, NEW have, StreamTab!Completed(n, have) PROVE StreamInv'
<1>1. /\ chain[n] # None /\ chain[n].step = "next" /\ chain[n].at = Len(StreamStages)
      /\ running' = FALSE /\ chain' = [chain EXCEPT ![n] = None]
      /\ live'.stage = None /\ row' = StreamTab!Loaded(row, have)
      /\ UNCHANGED <<state, ended, overlapped>>
  BY DEF StreamTab!Completed, StreamTab!At
<1>2. /\ chain' \in [Clicks -> SRun \cup {None}] /\ chain'[n] = None
      /\ \A m \in Clicks : m # n => chain'[m] = chain[m]
  BY <1>1 DEF StreamInv, StreamTypes
<1>3. StreamTypes'  BY <1>1, <1>2 DEF StreamInv, StreamTypes
<1>3a. TreeOK'
  <2>1. \A m \in Clicks, q \in SStage : AtWork(m, q) => AtWork(m, q)'  BY <1>1, <1>2 DEF AtWork
  <2>2. QED  BY <1>1, <2>1, LoadedRows DEF StreamInv, TreeOK
<1>4. StreamTab!NeverStuck'
  <2>1. StreamTab!Idle' => \A q \in SStage : row'[q] # "running"  BY <1>3a DEF TreeOK, AtWork, StreamTab!Idle
  <2>2. QED  BY <1>1, <2>1 DEF StreamTab!NeverStuck, SStage
<1>5. ASSUME ~overlapped' PROVE NotOverlapped'
  <2>1. NotOverlapped  BY <1>1, <1>5 DEF StreamInv
  <2>2. \A m \in Clicks : chain'[m] = None  BY <1>1, <1>2, <2>1 DEF NotOverlapped
  <2>3. PassedUpTo(chain[n])  BY <1>1, <2>1 DEF NotOverlapped, StreamInv, StreamTypes
  <2>4. ASSUME NEW s \in SStage PROVE state'[s] = "passed" /\ state'[s] = Told(s)'
    <3>1. PICK j \in 1..Len(StreamStages) : StreamStages[j] = s  BY StreamStagesAre
    <3>2. j < Len(StreamStages) \/ j = Len(StreamStages)  BY StreamStagesAre
    <3>3. state[s] = "passed"  BY <1>1, <2>3, <3>1, <3>2 DEF PassedUpTo
    <3>4. state[s] = Told(s)  BY <1>1, <2>1 DEF NotOverlapped
    <3>5. QED  BY <1>1, <3>3, <3>4 DEF Told
  <2>5. StreamTab!Idle'  BY <2>2 DEF StreamTab!Idle
  <2>6. QED  BY <2>2, <2>4, <2>5 DEF NotOverlapped
<1>6. QED  BY <1>3, <1>3a, <1>4, <1>5 DEF StreamInv

LEMMA StreamInvariance == StreamTab!Spec => []StreamInv
<1>1. StreamInv /\ [StreamTab!Next]_StreamTab!vars => StreamInv'
  <2> SUFFICES ASSUME StreamInv, [StreamTab!Next]_StreamTab!vars PROVE StreamInv'  OBVIOUS
  <2>1. ASSUME UNCHANGED <<running, live, row, state, chain, ended, overlapped>> PROVE StreamInv'
    <3>1. row' = [s \in SStage |-> row'[s]] /\ \A s \in SStage : row'[s] = row[s]  BY <2>1 DEF StreamInv, TreeOK
    <3>2. QED  BY <2>1, <3>1, StreamSame
  <2>2. ASSUME NEW ok \in BOOLEAN, StreamTab!TestConnection(ok) PROVE StreamInv'
    BY <2>1, <2>2 DEF StreamTab!TestConnection
  <2>3. ASSUME NEW have, StreamTab!Refresh(have) PROVE StreamInv'
    BY <2>3, StreamSame, LoadedRows DEF StreamTab!Refresh
  <2>4. ASSUME NEW n \in Clicks, NEW k \in 1..Len(StreamStages), StreamTab!Click(n, k, FALSE) PROVE StreamInv'
    BY <2>4, ClickStep
  <2>5. ASSUME NEW n \in Clicks, StreamTab!Click(n, 1, TRUE) PROVE StreamInv'
    <3>1. 1 \in 1..Len(StreamStages)  BY StreamStagesAre
    <3>2. QED  BY <2>5, <3>1, ClickStep
  <2>6. ASSUME NEW n \in Clicks, NEW ok \in BOOLEAN, StreamTab!EnsureStreamingTables(n, ok) PROVE StreamInv'
    <3>1. chain[n] # None /\ chain[n].step = "setup"  BY <2>6 DEF StreamTab!EnsureStreamingTables, StreamTab!At
    <3>2. PICK step \in {"script", "done"} : StreamTab!To(n, step, 1)  BY <2>6 DEF StreamTab!EnsureStreamingTables
    <3>3. QED  BY <3>1, <3>2, ToStep
  <2>7. ASSUME NEW n \in Clicks, NEW code \in {0, 1}, StreamTab!ScriptEnds(n, code) PROVE StreamInv'
    <3>1. chain[n] # None /\ chain[n].step = "script"  BY <2>7 DEF StreamTab!ScriptEnds, StreamTab!At
    <3>2. PICK step \in {"post", "done"} : StreamTab!To(n, step, code)  BY <2>7 DEF StreamTab!ScriptEnds
    <3>3. QED  BY <3>1, <3>2, ToStep
  <2>8. ASSUME NEW n \in Clicks, NEW code \in {0, 1}, StreamTab!PostValidation(n, code) PROVE StreamInv'
    <3>1. chain[n] # None /\ chain[n].step = "post" /\ StreamTab!To(n, "done", code)
      BY <2>8 DEF StreamTab!PostValidation, StreamTab!At
    <3>2. QED  BY <3>1, ToStep
  <2>9. CASE StreamTab!Next
    BY <2>2, <2>3, <2>4, <2>5, <2>6, <2>7, <2>8, <2>9, DoneStep, NextStageStep, CompletedStep DEF StreamTab!Next
  <2>10. QED  BY <2>1, <2>9 DEF StreamTab!vars
<1>2. QED  BY <1>1, StreamStarts, PTL DEF StreamTab!Spec

LEMMA WindowIsTrue == StreamInv => StreamTab!NeverStuck /\ StreamTab!TrueUnlessOverlapped
<1> SUFFICES ASSUME StreamInv, ~overlapped PROVE StreamTab!TrueUnlessOverlapped
  BY DEF StreamInv, StreamTab!TrueUnlessOverlapped
<1>1. NotOverlapped  BY DEF StreamInv
<1>2. ASSUME NEW s \in SStage
      PROVE  \/ \E n \in Clicks : StreamTab!At(n, "done") /\ StreamStages[chain[n].at] = s
             \/ state[s] = IF ended[s] = None THEN "not run" ELSE StreamTab!Verdict(ended[s])
  BY <1>1 DEF NotOverlapped, StreamTab!At, Told
<1>3. QED  BY <1>1, <1>2 DEF NotOverlapped, StreamTab!TrueUnlessOverlapped, SStage

LEMMA StreamMoves == BatchSpec => StreamTab!Spec
<1>1. BatchInit => StreamTab!Init  BY DEF BatchInit
<1>2. [BatchNext]_<<part, vars, databaseVars, aggregationVars, snapshotVars, servicesVars, consoleVars, streamVars>>
      => [StreamTab!Next]_StreamTab!vars
  BY DEF BatchNext, streamVars, StreamTab!vars
<1>3. QED  BY <1>1, <1>2, PTL DEF BatchSpec, StreamTab!Spec

-----------------------------------------------------------------------------
(* The services of session 3.                                               *)

ServedRow == Services!RowType
Snap == ServedRows
CallRequest == [method : Services!Methods, transport : {"rest", "grpc"}, ids : Seq(Nat), limit : Nat \ {0}, from : Nat]
CallPhases == {"idle", "count", "counting", "body", "answer", "done", "failed"}

LEMMA RowsAre ==
    /\ Snap \in Seq(ServedRow) /\ Len(Snap) \in Nat
    /\ ServedRow = [id : Int, flag : Int \cup {None}]
    /\ \A i \in 1..Len(Snap) : Snap[i] \in ServedRow /\ Snap[i].id \in Int
    /\ \A i, k \in 1..Len(Snap) : i < k => Snap[i].id <= Snap[k].id
    /\ Ids \subseteq Nat /\ Limits \subseteq Nat \ {0} /\ MaxPolls \in Nat
    /\ None \notin Int /\ None \notin Callers /\ None \notin Seq(ServedRow)
<1>1. /\ Snap \in Seq(ServedRow) /\ Ids \subseteq Nat /\ Limits \subseteq Nat \ {0} /\ MaxPolls \in Nat
      /\ \A i, k \in DOMAIN Snap : i < k => Snap[i].id <= Snap[k].id
  BY ServicesAssumption DEF Services!RowsAssumption, ServedRow, Snap
<1>2. DOMAIN Snap = 1..Len(Snap) /\ Len(Snap) \in Nat  BY <1>1
<1>3. ServedRow = [id : Int, flag : Int \cup {None}]  BY DEF ServedRow, Services!RowType
<1>4. ASSUME NEW i \in 1..Len(Snap) PROVE Snap[i] \in ServedRow /\ Snap[i].id \in Int
  <2>1. Snap[i] \in ServedRow  BY <1>1
  <2>2. QED  BY <1>3, <2>1
<1>5. None \notin Int /\ None \notin Callers /\ None \notin Seq(ServedRow)
  BY ServicesAssumption DEF Services!NoneAssumption, ServedRow
<1>6. QED  BY <1>1, <1>2, <1>3, <1>4, <1>5

LEMMA InSnapshot == Services!Range(ServedRows) = {Snap[i] : i \in 1..Len(Snap)}
  BY RowsAre DEF Services!Range, Snap

LEMMA SmallerOfTwo ==
    ASSUME NEW a \in Int, NEW b \in Int
    PROVE  Services!Min({a, b}) = IF a <= b THEN a ELSE b
<1> DEFINE m == IF a <= b THEN a ELSE b
<1>1. m \in {a, b} /\ \A y \in {a, b} : m <= y  OBVIOUS
<1>2. \A x \in {a, b} : (\A y \in {a, b} : x <= y) => x = m  OBVIOUS
<1>3. QED  BY <1>1, <1>2 DEF Services!Min

LEMMA LargerOfTwo ==
    ASSUME NEW a \in Int, NEW b \in Int
    PROVE  Services!Max({a, b}) = IF a >= b THEN a ELSE b
<1> DEFINE m == IF a >= b THEN a ELSE b
<1>1. m \in {a, b} /\ \A y \in {a, b} : m >= y  OBVIOUS
<1>2. \A x \in {a, b} : (\A y \in {a, b} : x >= y) => x = m  OBVIOUS
<1>3. QED  BY <1>1, <1>2 DEF Services!Max

\* Rows that are received are the rows that were sent: NULL stays NULL, zero stays zero.
LEMMA RowsArrive ==
    ASSUME NEW t, NEW r \in ServedRow PROVE Services!Received(t, r) = r
<1>1. r = [id |-> r.id, flag |-> r.flag] /\ r.flag \in Int \cup {None}  BY RowsAre
<1>2. Services!FromPb(Services!ToPb(r)) = [id |-> r.id, flag |-> r.flag]
  <2>1. CASE r.flag = None  BY <2>1 DEF Services!FromPb, Services!ToPb
  <2>2. CASE r.flag # None  BY <2>2 DEF Services!FromPb, Services!ToPb
  <2>3. QED  BY <2>1, <2>2
<1>3. QED  BY <1>1, <1>2 DEF Services!Received

LEMMA AnswersArrive ==
    ASSUME NEW t, NEW rs \in Seq(ServedRow) PROVE [i \in DOMAIN rs |-> Services!Received(t, rs[i])] = rs
<1>1. DOMAIN rs = 1..Len(rs) /\ \A i \in DOMAIN rs : rs[i] \in ServedRow  OBVIOUS
<1>2. \A i \in DOMAIN rs : Services!Received(t, rs[i]) = rs[i]  BY <1>1, RowsArrive
<1>3. rs = [i \in DOMAIN rs |-> rs[i]]  OBVIOUS
<1>4. QED  BY <1>2, <1>3

\* The rows up to an id are the first ones.
LEMMA FirstRows ==
    ASSUME NEW from \in Int
    PROVE  \E n \in 0..Len(Snap) : \A k \in 1..Len(Snap) : Snap[k].id <= from <=> k <= n
<1> DEFINE S == {k \in 1..Len(Snap) : Snap[k].id > from}
<1>1. CASE S = {}
  <2>1. \A k \in 1..Len(Snap) : Snap[k].id <= from  BY <1>1, RowsAre
  <2>2. Len(Snap) \in 0..Len(Snap) /\ \A k \in 1..Len(Snap) : k <= Len(Snap)  BY RowsAre
  <2>3. QED  BY <2>1, <2>2
<1>2. CASE S # {}
  <2>1. PICK k \in S : \A i \in S : ~(<<i, k>> \in OpToRel(<, Nat))
    <3>1. S \subseteq Nat  BY RowsAre
    <3>2. QED  BY <1>2, <3>1, NatLessThanWellFounded, WFMin
  <2>2. k \in 1..Len(Snap) /\ Snap[k].id > from /\ \A i \in 1..Len(Snap) : Snap[i].id > from => ~(i < k)
    <3>1. k \in 1..Len(Snap) /\ Snap[k].id > from  OBVIOUS
    <3>2. ASSUME NEW i \in 1..Len(Snap), Snap[i].id > from, i < k PROVE FALSE
      <4>1. i \in S /\ i \in Nat /\ k \in Nat  BY <3>1, <3>2
      <4>2. <<i, k>> \in OpToRel(<, Nat)  BY <3>2, <4>1 DEF OpToRel
      <4>3. QED  BY <2>1, <4>1, <4>2
    <3>3. QED  BY <3>1, <3>2
  <2>3. \A i \in 1..Len(Snap) : Snap[i].id <= from <=> i <= k - 1
    <3> SUFFICES ASSUME NEW i \in 1..Len(Snap) PROVE Snap[i].id <= from <=> i <= k - 1  OBVIOUS
    <3>1. CASE i < k  BY <2>2, <3>1, RowsAre
    <3>2. CASE i = k  BY <2>2, <3>2, RowsAre
    <3>3. CASE i > k
      <4>1. Snap[k].id <= Snap[i].id  BY <2>2, <3>3, RowsAre
      <4>2. QED  BY <2>2, <3>3, <4>1, RowsAre
    <3>4. QED  BY <2>2, <3>1, <3>2, <3>3, RowsAre
  <2>4. k - 1 \in 0..Len(Snap)  BY <2>2, RowsAre
  <2>5. QED  BY <2>3, <2>4
<1>3. QED  BY <1>1, <1>2

LEMMA SameCount == \A S : Services!Cardinality(S) = Cardinality(S)
  BY DEF Services!Cardinality, Cardinality

LEMMA CountOfRows ==
    ASSUME NEW from \in Int, NEW n \in 0..Len(Snap), \A k \in 1..Len(Snap) : Snap[k].id <= from <=> k <= n
    PROVE  /\ Services!Cardinality({k \in DOMAIN ServedRows : ServedRows[k].id <= from}) = n
           /\ Services!Cardinality({k \in DOMAIN ServedRows : ServedRows[k].id > from}) = Len(Snap) - n
<1>1. DOMAIN ServedRows = 1..Len(Snap) /\ Len(Snap) \in Nat /\ n \in Int  BY RowsAre DEF Snap
<1>2. {k \in DOMAIN ServedRows : ServedRows[k].id <= from} = 1..n  BY <1>1 DEF Snap
<1>3. {k \in DOMAIN ServedRows : ServedRows[k].id > from} = (n + 1)..Len(Snap)  BY <1>1, RowsAre DEF Snap
<1>4. Cardinality(1..n) = n  BY <1>1, FS_Interval
<1>5. Cardinality((n + 1)..Len(Snap)) = Len(Snap) - n
  <2>1. n + 1 \in Int /\ Len(Snap) \in Int  BY <1>1
  <2>2. Cardinality((n + 1)..Len(Snap)) = IF n + 1 > Len(Snap) THEN 0 ELSE Len(Snap) - (n + 1) + 1
    BY <2>1, FS_Interval
  <2>3. QED  BY <1>1, <2>2
<1>6. QED  BY <1>2, <1>3, <1>4, <1>5, SameCount

\* An answer is a piece of the snapshot, from the row after the a-th on.
Piece(answer, a) ==
    /\ answer \in Seq(ServedRow) /\ a \in Nat
    /\ \A i \in 1..Len(answer) : a + i \in 1..Len(Snap) /\ answer[i] = Snap[a + i]

LEMMA NoGap ==
    ASSUME NEW answer, NEW a, Piece(answer, a)
    PROVE  /\ \A i \in DOMAIN answer : answer[i] \in Services!Range(ServedRows)
           /\ \A i \in 1 .. Len(answer) - 1 : \A k \in DOMAIN ServedRows :
                 ~(answer[i].id < ServedRows[k].id /\ ServedRows[k].id < answer[i + 1].id)
<1>1. answer \in Seq(ServedRow) /\ DOMAIN answer = 1..Len(answer) /\ Len(answer) \in Nat /\ a \in Nat  BY DEF Piece
<1>2. DOMAIN ServedRows = 1..Len(Snap)  BY RowsAre DEF Snap
<1>3. ASSUME NEW i \in 1 .. Len(answer) - 1, NEW k \in 1..Len(Snap)
      PROVE  ~(answer[i].id < Snap[k].id /\ Snap[k].id < answer[i + 1].id)
  <2>1. i \in 1..Len(answer) /\ i + 1 \in 1..Len(answer) /\ i \in Int  BY <1>1
  <2>2. /\ a + i \in 1..Len(Snap) /\ a + (i + 1) \in 1..Len(Snap)
        /\ answer[i] = Snap[a + i] /\ answer[i + 1] = Snap[a + (i + 1)]
    BY <2>1 DEF Piece
  <2>3. CASE k <= a + i
    <3>1. Snap[k].id <= Snap[a + i].id  BY <2>2, <2>3, RowsAre
    <3>2. QED  BY <2>2, <3>1, RowsAre
  <2>4. CASE k > a + i
    <3>1. k >= a + (i + 1)  BY <1>1, <2>1, <2>4
    <3>2. Snap[a + (i + 1)].id <= Snap[k].id  BY <2>2, <3>1, RowsAre
    <3>3. QED  BY <2>2, <3>2, RowsAre
  <2>5. QED  BY <1>1, <2>1, <2>3, <2>4, RowsAre
<1>4. \A i \in DOMAIN answer : answer[i] \in Services!Range(ServedRows)  BY <1>1, InSnapshot DEF Piece
<1>5. QED  BY <1>2, <1>3, <1>4 DEF Snap

\* What the slices of the code are.
LEMMA ListIs ==
    ASSUME NEW from \in Nat, NEW limit \in Nat \ {0}
    PROVE  LET s == Services!Slice(ServedRows, from, limit)
           IN  /\ Piece(s, from)
               /\ Len(s) = Services!Min({limit, Services!Max({0, Len(ServedRows) - from})})
<1> DEFINE L == Len(Snap)
           m == IF from + limit <= L THEN from + limit ELSE L
           s == Services!Slice(ServedRows, from, limit)
<1>1. L \in Nat /\ Snap \in Seq(ServedRow)  BY RowsAre
<1>2. Services!Min({from + limit, L}) = m  BY <1>1, SmallerOfTwo
<1>3. s = SubSeq(Snap, from + 1, m)  BY <1>2 DEF Services!Slice, Snap
<1>4. m \in Nat /\ m <= L /\ from + 1 \in Nat /\ from + 1 >= 1  BY <1>1
<1>5. /\ s \in Seq(ServedRow)
      /\ Len(s) = IF from + 1 <= m THEN m - from ELSE 0
      /\ \A i \in 1..Len(s) : s[i] = Snap[from + i]
  <2>1. CASE from + 1 <= m
    <3>1. \A i \in (from + 1)..m : Snap[i] \in ServedRow  BY <1>1, <1>4, RowsAre
    <3>2. s \in Seq(ServedRow) /\ Len(s) = m - from
      BY <1>1, <1>3, <1>4, <2>1, <3>1
    <3>3. \A i \in 1..(m - from) : s[i] = Snap[from + i]  BY <1>1, <1>3, <1>4, <2>1
    <3>4. QED  BY <2>1, <3>2, <3>3
  <2>2. CASE ~(from + 1 <= m)
    <3>1. s = <<>>  BY <1>1, <1>3, <1>4, <2>2
    <3>2. QED  BY <2>2, <3>1
  <2>3. QED  BY <2>1, <2>2
<1>6. Piece(s, from)
  <2>1. \A i \in 1..Len(s) : from + i \in 1..L  BY <1>1, <1>4, <1>5
  <2>2. QED  BY <1>5, <2>1 DEF Piece
<1>7. Services!Max({0, L - from}) = IF 0 >= L - from THEN 0 ELSE L - from
  <2>1. L - from \in Int  BY <1>1
  <2>2. QED  BY <2>1, LargerOfTwo
<1>8. Services!Min({limit, Services!Max({0, L - from})}) = Len(s)
  <2>1. PICK x \in Nat : x = Services!Max({0, L - from}) /\ x = IF 0 >= L - from THEN 0 ELSE L - from  BY <1>1, <1>7
  <2>2. Services!Min({limit, x}) = IF limit <= x THEN limit ELSE x  BY SmallerOfTwo
  <2>3. QED  BY <1>1, <1>5, <2>1, <2>2
<1>9. QED  BY <1>6, <1>8 DEF Snap

LEMMA MetricsAre ==
    ASSUME NEW from \in Nat, NEW limit \in Nat \ {0}
    PROVE  LET s == Services!Slice(Services!After(from), 0, limit)
           IN  /\ \E a : Piece(s, a)
               /\ \A i \in DOMAIN s : s[i].id > from
               /\ Len(s) = Services!Min({limit, Services!Cardinality({i \in DOMAIN ServedRows : ServedRows[i].id > from})})
<1> DEFINE L == Len(Snap)
           rest == Services!After(from)
           s == Services!Slice(Services!After(from), 0, limit)
<1>1. L \in Nat /\ Snap \in Seq(ServedRow) /\ limit \in Nat /\ limit > 0 /\ from \in Int  BY RowsAre
<1>2. PICK n \in 0..L : \A k \in 1..L : Snap[k].id <= from <=> k <= n  BY <1>1, FirstRows
<1>3. /\ Services!Cardinality({k \in DOMAIN ServedRows : ServedRows[k].id <= from}) = n
      /\ Services!Cardinality({k \in DOMAIN ServedRows : ServedRows[k].id > from}) = L - n
  BY <1>1, <1>2, CountOfRows
<1>4. rest = SubSeq(Snap, n + 1, L)  BY <1>3 DEF Services!After, Snap
<1>5. rest \in Seq(ServedRow) /\ Len(rest) = L - n /\ \A i \in 1..(L - n) : rest[i] = Snap[n + i]
  <2>1. CASE n < L
    <3>1. \A i \in (n + 1)..L : Snap[i] \in ServedRow  BY <1>1, <1>2, RowsAre
    <3>2. QED  BY <1>1, <1>2, <1>4, <2>1, <3>1
  <2>2. CASE n = L
    <3>1. rest = <<>>  BY <1>1, <1>4, <2>2
    <3>2. QED  BY <1>1, <2>2, <3>1
  <2>3. QED  BY <1>1, <1>2, <2>1, <2>2
<1>6. PICK m \in Nat : m = (IF limit <= L - n THEN limit ELSE L - n) /\ Services!Min({limit, L - n}) = m
  <2>1. L - n \in Nat  BY <1>1, <1>2
  <2>2. QED  BY <1>1, <2>1, SmallerOfTwo
<1>7. s = SubSeq(rest, 1, m)
  <2>1. s = SubSeq(rest, 0 + 1, Services!Min({0 + limit, Len(rest)}))  BY DEF Services!Slice
  <2>2. 0 + limit = limit /\ Len(rest) = L - n /\ 0 + 1 = 1  BY <1>1, <1>5
  <2>3. QED  BY <1>6, <2>1, <2>2
<1> HIDE DEF s, rest
<1>8. s \in Seq(ServedRow) /\ Len(s) = m /\ \A i \in 1..m : s[i] = rest[i]
  <2>1. m <= Len(rest) /\ \A i \in 1..m : rest[i] \in ServedRow  BY <1>1, <1>2, <1>5, <1>6
  <2>2. CASE m = 0
    <3>1. s = <<>>  BY <1>5, <1>7, <2>2
    <3>2. QED  BY <2>2, <3>1
  <2>3. CASE m > 0  BY <1>5, <1>6, <1>7, <2>1, <2>3
  <2>4. QED  BY <1>6, <2>2, <2>3
<1>9. \A i \in 1..m : n + i \in 1..L /\ s[i] = Snap[n + i] /\ i \in 1..(L - n)
  BY <1>1, <1>2, <1>5, <1>6, <1>8
<1>10. Piece(s, n)  BY <1>2, <1>8, <1>9 DEF Piece
<1>11. \A i \in 1..m : s[i].id > from
  <2> SUFFICES ASSUME NEW i \in 1..m PROVE s[i].id > from  OBVIOUS
  <2>1. n + i \in 1..L /\ s[i] = Snap[n + i] /\ ~(n + i <= n)  BY <1>2, <1>9
  <2>2. ~(Snap[n + i].id <= from) /\ Snap[n + i].id \in Int  BY <1>2, <2>1, RowsAre
  <2>3. QED  BY <2>1, <2>2
<1>12. DOMAIN s = 1..m  BY <1>8
<1>13. QED  BY <1>3, <1>6, <1>8, <1>10, <1>11, <1>12 DEF s

LEMMA OneByOne ==
    ASSUME NEW ids \in Seq(Nat), \A i \in DOMAIN ids : Services!Known(ids[i])
    PROVE  LET s == [i \in DOMAIN ids |-> Services!Row(ids[i])]
           IN  /\ s \in Seq(ServedRow) /\ Len(s) = Len(ids) /\ DOMAIN s = DOMAIN ids
               /\ \A i \in DOMAIN s : s[i] \in Services!Range(ServedRows) /\ s[i].id = ids[i]
<1> DEFINE s == [i \in DOMAIN ids |-> Services!Row(ids[i])]
<1>1. \A id : Services!Known(id) => Services!Row(id) \in Services!Range(ServedRows) /\ Services!Row(id).id = id
  BY DEF Services!Known, Services!Row
<1>2. DOMAIN ids = 1..Len(ids) /\ Len(ids) \in Nat  OBVIOUS
<1>3. Services!Range(ServedRows) \subseteq ServedRow  BY InSnapshot, RowsAre
<1>4. \A i \in 1..Len(ids) : s[i] \in Services!Range(ServedRows) /\ s[i].id = ids[i]  BY <1>1, <1>2
<1>5. s \in [1..Len(ids) -> ServedRow]  BY <1>2, <1>3, <1>4
<1>6. s \in Seq(ServedRow) /\ Len(s) = Len(ids)  BY <1>2, <1>5
<1>7. QED  BY <1>2, <1>4, <1>6

\* What a request gets that is answered at once.
Value(r) == Services!Value(r)

LEMMA ValueIs ==
    ASSUME NEW r \in CallRequest
    PROVE  /\ r.method \in {"one", "batch"} /\ (\E i \in DOMAIN r.ids : ~Services!Known(r.ids[i])) => Value(r) = None
           /\ r.method \in {"one", "batch"} /\ (\A i \in DOMAIN r.ids : Services!Known(r.ids[i]))
                 => Value(r) = [i \in DOMAIN r.ids |-> Services!Row(r.ids[i])]
           /\ r.method = "list" => Value(r) = Services!Slice(ServedRows, r.from, r.limit)
           /\ r.method = "metrics" => Value(r) = Services!Slice(Services!After(r.from), 0, r.limit)
           /\ r.method \notin {"one", "batch", "list", "metrics"} => Value(r) = <<Services!Summary>>
  BY DEF Value, Services!Value

LEMMA SummaryIsRow == Services!Summary \in ServedRow /\ <<Services!Summary>> \in Seq(ServedRow)
<1>1. Services!Summary \in ServedRow  BY RowsAre DEF Services!Summary
<1>2. QED  BY <1>1

LEMMA ValueType ==
    ASSUME NEW r \in CallRequest
    PROVE  /\ Value(r) # None => Value(r) \in Seq(ServedRow)
           /\ Value(r) = None => \E i \in DOMAIN r.ids : ~Services!Known(r.ids[i])
<1>1. r.ids \in Seq(Nat) /\ r.limit \in Nat \ {0} /\ r.from \in Nat  BY DEF CallRequest
<1>2. CASE r.method \in {"one", "batch"} /\ \E i \in DOMAIN r.ids : ~Services!Known(r.ids[i])
  BY <1>2, ValueIs
<1>3. CASE r.method \in {"one", "batch"} /\ \A i \in DOMAIN r.ids : Services!Known(r.ids[i])
  <2>1. Value(r) \in Seq(ServedRow)  BY <1>1, <1>3, ValueIs, OneByOne
  <2>2. QED  BY <2>1, RowsAre
<1>4. CASE r.method = "list"
  <2>1. Value(r) \in Seq(ServedRow)  BY <1>1, <1>4, ValueIs, ListIs DEF Piece
  <2>2. QED  BY <2>1, RowsAre
<1>5. CASE r.method = "metrics"
  <2>1. Value(r) \in Seq(ServedRow)  BY <1>1, <1>5, ValueIs, MetricsAre DEF Piece
  <2>2. QED  BY <2>1, RowsAre
<1>6. CASE r.method \notin {"one", "batch", "list", "metrics"}
  <2>1. Value(r) \in Seq(ServedRow)  BY <1>6, ValueIs, SummaryIsRow
  <2>2. QED  BY <2>1, RowsAre
<1>7. QED  BY <1>2, <1>3, <1>4, <1>5, <1>6

LEMMA ValueIsExact ==
    ASSUME NEW r \in CallRequest, Value(r) # None, r.method # "stream"
    PROVE  /\ Services!Exact(r, Value(r))
           /\ r.method \notin {"summary", "delay"} => \A i \in DOMAIN Value(r) : Value(r)[i] \in Services!Range(ServedRows)
           /\ r.method \in {"list", "metrics"} => \E a : Piece(Value(r), a)
<1>1. /\ r.ids \in Seq(Nat) /\ r.limit \in Nat \ {0} /\ r.from \in Nat
      /\ r.method \in {"one", "batch", "list", "metrics", "stream", "summary", "delay"}
  BY DEF CallRequest, Services!Methods
<1>2. CASE r.method \in {"one", "batch"}
  <2>1. \A i \in DOMAIN r.ids : Services!Known(r.ids[i])  BY <1>2, ValueIs
  <2>2. Value(r) = [i \in DOMAIN r.ids |-> Services!Row(r.ids[i])]  BY <1>2, <2>1, ValueIs
  <2>3. /\ Len(Value(r)) = Len(r.ids)
        /\ \A i \in DOMAIN Value(r) : Value(r)[i] \in Services!Range(ServedRows) /\ Value(r)[i].id = r.ids[i]
    BY <1>1, <2>1, <2>2, OneByOne
  <2>4. QED  BY <1>2, <2>3 DEF Services!Exact
<1>3. CASE r.method = "list"
  <2>1. Value(r) = Services!Slice(ServedRows, r.from, r.limit)  BY <1>3, ValueIs
  <2>2. /\ Piece(Value(r), r.from)
        /\ Len(Value(r)) = Services!Min({r.limit, Services!Max({0, Len(ServedRows) - r.from})})
    BY <1>1, <2>1, ListIs
  <2>3. QED  BY <1>3, <2>2, NoGap DEF Services!Exact
<1>4. CASE r.method = "metrics"
  <2>1. Value(r) = Services!Slice(Services!After(r.from), 0, r.limit)  BY <1>4, ValueIs
  <2>2. /\ \E a : Piece(Value(r), a)
        /\ \A i \in DOMAIN Value(r) : Value(r)[i].id > r.from
        /\ Len(Value(r)) = Services!Min({r.limit, Services!Cardinality({i \in DOMAIN ServedRows : ServedRows[i].id > r.from})})
    BY <1>1, <2>1, MetricsAre
  <2>3. QED  BY <1>4, <2>2, NoGap DEF Services!Exact
<1>5. CASE r.method \in {"summary", "delay"}
  <2>1. Value(r) = <<Services!Summary>>  BY <1>5, ValueIs
  <2>2. QED  BY <1>5, <2>1 DEF Services!Exact
<1>6. QED  BY <1>1, <1>2, <1>3, <1>4, <1>5

-----------------------------------------------------------------------------

Parted(k) == k.request.transport = "grpc" /\ ~k.active

\* A stream has looked at the first rows, and sent those of them that come after "from".
Streaming(k) ==
    /\ k.at <= Len(Snap) /\ Len(k.answer) <= k.at /\ Len(k.answer) <= k.request.limit
    /\ \A i \in 1..Len(k.answer) : k.answer[i] = Snap[(k.at - Len(k.answer)) + i]
    /\ \A i \in 1..k.at : Snap[i].id > k.request.from <=> i > k.at - Len(k.answer)

\* A call in progress: a DelaySummary counts a second time, as a summary.
Progress(k) ==
    LET r == k.request IN
    /\ k.phase \in {"count", "counting"} =>
          /\ k.answer = <<>> /\ k.counts \in Services!Methods
          /\ k.counts = r.method => k.at = 0
          /\ k.counts # r.method => r.method = "delay"
    /\ k.phase = "body" =>
          /\ r.method # "stream" => k.answer = <<>>
          /\ r.method = "stream" => Streaming(k) /\ Len(k.answer) < r.limit
    /\ k.phase = "answer" => r.method = "delay" /\ k.answer = <<>>
    /\ k.phase = "done" =>
          /\ r.method # "stream" => k.answer = Value(r) /\ Value(r) # None
          /\ r.method = "stream" => Streaming(k) /\ (Len(k.answer) = r.limit \/ k.at = Len(Snap))
    /\ k.phase = "failed" =>
          /\ r.method = "stream" => Streaming(k) /\ Parted(k)
          /\ r.method = "delay" => k.answer = <<>> /\ Parted(k)
          /\ r.method \notin {"stream", "delay"} => k.answer = <<>> /\ Value(r) = None

CallRecord == [request : CallRequest \cup {None}, phase : CallPhases, counts : Services!Methods \cup {None},
               seen : Nat, at : Nat, active : BOOLEAN, answer : Seq(ServedRow)]

GoodCall(k) ==
    /\ k \in CallRecord
    /\ k.phase = "idle" => k.request = None /\ k.answer = <<>>
    /\ k.phase # "idle" => k.request \in CallRequest /\ Progress(k)
    /\ k.phase # "idle" /\ k.request.method = "stream" => k.request.transport = "grpc"

\* Whoever is between reading a count and writing it holds the lock.
Counting ==
    /\ calls \in [Services!Methods -> Nat] /\ calls = counted
    /\ \A c \in Callers : call[c].phase = "counting" => lock = c /\ call[c].seen = calls[call[c].counts]

ServicesInv ==
    /\ call = [c \in Callers |-> call[c]] /\ \A c \in Callers : GoodCall(call[c])
    /\ Counting

\* Only the caller's own record changes, and no other one is counting.
LEMMA CallChanges ==
    ASSUME ServicesInv, NEW c \in Callers, NEW k, GoodCall(k), k.phase # "counting",
           call' = [call EXCEPT ![c] = k], UNCHANGED <<calls, lock, counted>>
    PROVE  ServicesInv'
<1>1. /\ call' = [d \in Callers |-> call'[d]] /\ call'[c] = k
      /\ \A d \in Callers : d # c => call'[d] = call[d]
  BY DEF ServicesInv
<1>2. \A d \in Callers : GoodCall(call'[d])  BY <1>1 DEF ServicesInv
<1>3. Counting'  BY <1>1 DEF ServicesInv, Counting
<1>4. \A d \in Callers : GoodCall(call[d])'  BY <1>2 DEF GoodCall, Progress, Streaming, Parted
<1>5. QED  BY <1>1, <1>3, <1>4 DEF ServicesInv

LEMMA RequestsAre ==
    ASSUME NEW r \in Services!Requests
    PROVE  r \in CallRequest /\ (r.method = "stream" => r.transport = "grpc")
<1> DEFINE Req(m, t, ids, n, k) == Services!Request(m, t, ids, n, k)
<1>1. ASSUME NEW m \in Services!Methods, NEW t \in {"rest", "grpc"}, NEW ids \in Seq(Nat), NEW n \in Nat \ {0},
             NEW k \in Nat, m = "stream" => t = "grpc", r = Req(m, t, ids, n, k)
      PROVE  r \in CallRequest /\ (r.method = "stream" => r.transport = "grpc")
  BY <1>1 DEF Services!Request, CallRequest
<1>2. /\ {"one", "batch", "list", "metrics", "stream", "summary", "delay"} = Services!Methods
      /\ <<>> \in Seq(Nat) /\ (\A i \in Ids : <<i>> \in Seq(Nat)) /\ \A i, j \in Ids : <<i, j>> \in Seq(Nat)
      /\ Ids \subseteq Nat /\ Limits \subseteq Nat \ {0} /\ 1 \in Nat \ {0} /\ 0 \in Nat
  BY RowsAre DEF Services!Methods
<1>3. \/ \E t \in {"rest", "grpc"}, i \in Ids : r = Req("one", t, <<i>>, 1, 0)
      \/ \E t \in {"rest", "grpc"}, i \in Ids, j \in Ids : r = Req("batch", t, <<i, j>>, 1, 0)
      \/ \E m \in {"list", "metrics"}, t \in {"rest", "grpc"}, n \in Limits, k \in Ids : r = Req(m, t, <<>>, n, k)
      \/ \E n \in Limits, k \in Ids : r = Req("stream", "grpc", <<>>, n, k)
      \/ \E m \in {"summary", "delay"}, t \in {"rest", "grpc"} : r = Req(m, t, <<>>, 1, 0)
  <2> DEFINE S1 == {Services!Request("one", t, <<i>>, 1, 0) : t \in {"rest", "grpc"}, i \in Ids}
             S2 == {Services!Request("batch", t, <<i, j>>, 1, 0) : t \in {"rest", "grpc"}, i \in Ids, j \in Ids}
             S3 == {Services!Request(m, t, <<>>, n, k) : m \in {"list", "metrics"}, t \in {"rest", "grpc"}, n \in Limits, k \in Ids}
             S4 == {Services!Request("stream", "grpc", <<>>, n, k) : n \in Limits, k \in Ids}
             S5 == {Services!Request(m, t, <<>>, 1, 0) : m \in {"summary", "delay"}, t \in {"rest", "grpc"}}
  <2>1. Services!Requests = UNION {S1, S2, S3, S4, S5}  BY DEF Services!Requests
  <2>2. r \in S1 \/ r \in S2 \/ r \in S3 \/ r \in S4 \/ r \in S5
    <3> HIDE DEF S1, S2, S3, S4, S5
    <3> QED  BY <2>1
  <2>3. CASE r \in S1  BY <2>3
  <2>4. CASE r \in S2
    <3>1. PICK t \in {"rest", "grpc"}, i \in Ids, j \in Ids : r = Services!Request("batch", t, <<i, j>>, 1, 0)  BY <2>4
    <3>2. QED  BY <3>1
  <2>5. CASE r \in S3  BY <2>5
  <2>6. CASE r \in S4  BY <2>6
  <2>7. CASE r \in S5  BY <2>7
  <2> HIDE DEF S1, S2, S3, S4, S5, Req
  <2>8. QED  BY <2>2, <2>3, <2>4, <2>5, <2>6, <2>7
<1> HIDE DEF Req
<1>4. CASE \E t \in {"rest", "grpc"}, i \in Ids : r = Req("one", t, <<i>>, 1, 0)  BY <1>1, <1>2, <1>4
<1>5. CASE \E t \in {"rest", "grpc"}, i \in Ids, j \in Ids : r = Req("batch", t, <<i, j>>, 1, 0)  BY <1>1, <1>2, <1>5
<1>6. CASE \E m \in {"list", "metrics"}, t \in {"rest", "grpc"}, n \in Limits, k \in Ids : r = Req(m, t, <<>>, n, k)
  BY <1>1, <1>2, <1>6
<1>7. CASE \E n \in Limits, k \in Ids : r = Req("stream", "grpc", <<>>, n, k)  BY <1>1, <1>2, <1>7
<1>8. CASE \E m \in {"summary", "delay"}, t \in {"rest", "grpc"} : r = Req(m, t, <<>>, 1, 0)  BY <1>1, <1>2, <1>8
<1>9. QED  BY <1>3, <1>4, <1>5, <1>6, <1>7, <1>8

LEMMA IdleIs ==
    /\ Services!Idle \in CallRecord /\ Services!Idle.phase = "idle" /\ Services!Idle.request = None
    /\ Services!Idle.answer = <<>> /\ Services!Idle.seen = 0 /\ Services!Idle.at = 0 /\ Services!Idle.active = TRUE
<1>1. PICK k : k = [request |-> None, phase |-> "idle", counts |-> None, seen |-> 0, at |-> 0,
                    active |-> TRUE, answer |-> <<>>]
  OBVIOUS
<1>2. "idle" \in CallPhases /\ TRUE \in BOOLEAN /\ <<>> \in Seq(ServedRow) /\ 0 \in Nat  BY DEF CallPhases
<1>3. k \in CallRecord  BY <1>1, <1>2 DEF CallRecord
<1>4. Services!Idle = k  BY <1>1 DEF Services!Idle
<1>5. QED  BY <1>1, <1>3, <1>4

LEMMA CountedAs ==
    ASSUME NEW k \in CallRecord, NEW request, NEW phase, NEW counts
    PROVE  [k EXCEPT !.request = request, !.phase = phase, !.counts = counts]
           = [request |-> request, phase |-> phase, counts |-> counts, seen |-> k.seen, at |-> k.at,
              active |-> k.active, answer |-> k.answer]
<1>1. PICK one : one = [k EXCEPT !.request = request]  OBVIOUS
<1>2. PICK two : two = [one EXCEPT !.phase = phase]  OBVIOUS
<1>3. one = [request |-> request, phase |-> k.phase, counts |-> k.counts, seen |-> k.seen, at |-> k.at,
             active |-> k.active, answer |-> k.answer]
  BY <1>1 DEF CallRecord
<1>4. two = [request |-> request, phase |-> phase, counts |-> k.counts, seen |-> k.seen, at |-> k.at,
             active |-> k.active, answer |-> k.answer]
  BY ONLY <1>2, <1>3
<1>5. [two EXCEPT !.counts = counts]
        = [request |-> request, phase |-> phase, counts |-> counts, seen |-> k.seen, at |-> k.at,
           active |-> k.active, answer |-> k.answer]
  BY ONLY <1>4
<1>6. [k EXCEPT !.request = request, !.phase = phase, !.counts = counts] = [two EXCEPT !.counts = counts]
  BY ONLY <1>1, <1>2
<1>7. QED  BY <1>5, <1>6

LEMMA ServicesStart == Services!Init => ServicesInv
<1> SUFFICES ASSUME Services!Init PROVE ServicesInv  OBVIOUS
<1>1. /\ calls = [m \in Services!Methods |-> 0] /\ counted = calls /\ call = [c \in Callers |-> Services!Idle]
  BY DEF Services!Init
<1>2. GoodCall(Services!Idle) /\ Services!Idle.phase = "idle"  BY IdleIs DEF GoodCall
<1>3. Counting  BY <1>1, <1>2 DEF Counting
<1>4. QED  BY <1>1, <1>2, <1>3 DEF ServicesInv

LEMMA BeginCallStep == ASSUME ServicesInv, NEW c \in Callers, Services!Begin(c) PROVE ServicesInv'
<1>1. PICK r \in Services!Requests :
         call' = [call EXCEPT ![c] = [Services!Idle EXCEPT !.request = r, !.phase = "count", !.counts = r.method]]
  BY DEF Services!Begin
<1>2. PICK k : k = [Services!Idle EXCEPT !.request = r, !.phase = "count", !.counts = r.method]  OBVIOUS
<1>3. /\ call' = [call EXCEPT ![c] = k]
      /\ k = [request |-> r, phase |-> "count", counts |-> r.method, seen |-> Services!Idle.seen,
              at |-> Services!Idle.at, active |-> Services!Idle.active, answer |-> Services!Idle.answer]
  <2>1. Services!Idle \in CallRecord  BY IdleIs
  <2>2. PICK idle \in CallRecord : idle = Services!Idle  BY <2>1
  <2>3. k = [idle EXCEPT !.request = r, !.phase = "count", !.counts = r.method]  BY <1>2, <2>2
  <2>4. k = [request |-> r, phase |-> "count", counts |-> r.method, seen |-> idle.seen, at |-> idle.at,
             active |-> idle.active, answer |-> idle.answer]
    BY ONLY <2>3, idle \in CallRecord, CountedAs
  <2>5. QED  BY <1>1, <1>2, <2>2, <2>4
<1>4. r \in CallRequest /\ (r.method = "stream" => r.transport = "grpc") /\ r.method \in Services!Methods
  BY RequestsAre DEF CallRequest
<1>5. k.answer = <<>> /\ k.at = 0 /\ k.phase = "count" /\ k.request = r /\ k.counts = r.method  BY <1>3, IdleIs
<1>6. k \in CallRecord
  <2>1. "count" \in CallPhases  BY DEF CallPhases
  <2>2. QED  BY <1>3, <1>4, <2>1, IdleIs DEF CallRecord
<1>7. GoodCall(k)
  <2>1. Progress(k)  BY <1>4, <1>5 DEF Progress
  <2>2. QED  BY <1>4, <1>5, <1>6, <2>1 DEF GoodCall
<1>8. QED  BY <1>3, <1>5, <1>7, CallChanges DEF Services!Begin

LEMMA CountReadStep == ASSUME ServicesInv, NEW c \in Callers, Services!CountRead(c) PROVE ServicesInv'
<1>1. PICK k : k = call[c]  OBVIOUS
<1>2. /\ GoodCall(k) /\ k.phase = "count" /\ lock = None /\ lock' = c /\ UNCHANGED <<calls, counted>>
      /\ call' = [call EXCEPT ![c].phase = "counting", ![c].seen = calls[k.counts]]
  BY <1>1 DEF Services!CountRead, Services!Free, ServicesInv
<1>3. k \in CallRecord /\ Progress(k) /\ k.request \in CallRequest /\ k.counts \in Services!Methods
  BY <1>2 DEF GoodCall, Progress
<1>4. PICK n \in Nat : n = calls[k.counts]  BY <1>3 DEF ServicesInv, Counting
<1>5. PICK j : j = [k EXCEPT !.phase = "counting", !.seen = n]  OBVIOUS
<1>6. j = [request |-> k.request, phase |-> "counting", counts |-> k.counts, seen |-> n, at |-> k.at,
           active |-> k.active, answer |-> k.answer]
  BY <1>3, <1>5 DEF CallRecord
<1>7. j \in CallRecord  BY <1>3, <1>6 DEF CallRecord, CallPhases
<1>8. Progress(j)  BY <1>2, <1>3, <1>6 DEF Progress
<1>9. GoodCall(j)  BY <1>2, <1>3, <1>6, <1>7, <1>8 DEF GoodCall
<1>10. call' = [call EXCEPT ![c] = j]  BY <1>1, <1>2, <1>4, <1>5 DEF ServicesInv
<1>11. /\ call' = [d \in Callers |-> call'[d]] /\ call'[c] = j
       /\ \A d \in Callers : d # c => call'[d] = call[d] /\ call[d].phase # "counting"
  BY <1>2, <1>10, RowsAre DEF ServicesInv, Counting
<1>12. Counting'
  <2>1. j.phase = "counting" /\ j.seen = n /\ j.counts = k.counts  BY <1>6
  <2>2. QED  BY <1>2, <1>4, <1>11, <2>1 DEF ServicesInv, Counting
<1>13. \A d \in Callers : GoodCall(call[d])'
  <2>1. \A d \in Callers : GoodCall(call'[d])  BY <1>9, <1>11 DEF ServicesInv
  <2>2. QED  BY <2>1 DEF GoodCall, Progress, Streaming, Parted
<1>14. QED  BY <1>11, <1>12, <1>13 DEF ServicesInv

LEMMA CountWriteStep == ASSUME ServicesInv, NEW c \in Callers, Services!CountWrite(c) PROVE ServicesInv'
<1>1. PICK k : k = call[c]  OBVIOUS
<1>2. PICK phase : phase = IF k.counts = k.request.method THEN "body" ELSE "answer"  OBVIOUS
<1>3. /\ GoodCall(k) /\ k.phase = "counting" /\ lock' = None
      /\ calls' = [calls EXCEPT ![k.counts] = k.seen + 1]
      /\ counted' = [counted EXCEPT ![k.counts] = counted[k.counts] + 1]
      /\ call' = [call EXCEPT ![c].phase = phase]
  BY <1>1, <1>2 DEF Services!CountWrite, Services!Set, ServicesInv
<1>4. k \in CallRecord /\ Progress(k) /\ k.request \in CallRequest /\ k.counts \in Services!Methods
  BY <1>3 DEF GoodCall, Progress
<1>5. k.seen = calls[k.counts] /\ lock = c  BY <1>1, <1>3 DEF ServicesInv, Counting
<1>6. calls' \in [Services!Methods -> Nat] /\ calls' = counted'
  BY <1>3, <1>4, <1>5 DEF ServicesInv, Counting
<1>7. PICK j : j = [k EXCEPT !.phase = phase]  OBVIOUS
<1>8. j = [request |-> k.request, phase |-> phase, counts |-> k.counts, seen |-> k.seen, at |-> k.at,
           active |-> k.active, answer |-> k.answer]
  BY <1>4, <1>7 DEF CallRecord
<1>9. j \in CallRecord /\ phase \in {"body", "answer"}  BY <1>2, <1>4, <1>8 DEF CallRecord, CallPhases
<1>10. Progress(j)
  <2>1. k.answer = <<>> /\ (k.counts = k.request.method => k.at = 0) /\ (k.counts # k.request.method => k.request.method = "delay")
    BY <1>3, <1>4 DEF Progress
  <2>2. phase = "answer" => j.request.method = "delay" /\ j.answer = <<>>  BY <1>2, <1>8, <2>1
  <2>3. ASSUME phase = "body", k.request.method = "stream"
        PROVE  Streaming(j) /\ Len(j.answer) < j.request.limit
    <3>1. j.answer = <<>> /\ j.at = 0 /\ j.request = k.request  BY <1>2, <1>8, <2>1, <2>3
    <3>2. j.request.limit \in Nat \ {0}  BY <1>4, <3>1 DEF CallRequest
    <3>3. Len(j.answer) = 0  BY <3>1
    <3>4. QED  BY <3>1, <3>2, <3>3, RowsAre DEF Streaming
  <2>4. QED  BY <1>8, <1>9, <2>1, <2>2, <2>3 DEF Progress
<1>11. GoodCall(j)  BY <1>3, <1>4, <1>8, <1>9, <1>10 DEF GoodCall
<1>12. call' = [call EXCEPT ![c] = j]  BY <1>1, <1>3, <1>7 DEF ServicesInv
<1>13. /\ call' = [d \in Callers |-> call'[d]] /\ call'[c] = j
       /\ \A d \in Callers : d # c => call'[d] = call[d] /\ call[d].phase # "counting"
  BY <1>5, <1>12 DEF ServicesInv, Counting
<1>14. \A d \in Callers : call'[d].phase # "counting"  BY <1>8, <1>9, <1>13
<1>15. Counting'  BY <1>6, <1>14 DEF Counting
<1>16. \A d \in Callers : GoodCall(call[d])'
  <2>1. \A d \in Callers : GoodCall(call'[d])  BY <1>11, <1>13 DEF ServicesInv
  <2>2. QED  BY <2>1 DEF GoodCall, Progress, Streaming, Parted
<1>17. QED  BY <1>13, <1>15, <1>16 DEF ServicesInv

\* A call whose record changes in phase, position and answer only.
LEMMA RecordOf ==
    ASSUME NEW k \in CallRecord, NEW phase \in CallPhases, NEW at \in Nat, NEW active \in BOOLEAN,
           NEW answer \in Seq(ServedRow), NEW counts \in Services!Methods \cup {None}
    PROVE  LET j == [request |-> k.request, phase |-> phase, counts |-> counts, seen |-> k.seen, at |-> at,
                     active |-> active, answer |-> answer]
           IN  j \in CallRecord
  BY DEF CallRecord

LEMMA ShapeOf ==
    ASSUME NEW k \in CallRecord
    PROVE  /\ k = [request |-> k.request, phase |-> k.phase, counts |-> k.counts, seen |-> k.seen, at |-> k.at,
                    active |-> k.active, answer |-> k.answer]
           /\ k.at \in Nat /\ k.active \in BOOLEAN /\ k.answer \in Seq(ServedRow) /\ k.phase \in CallPhases
           /\ k.counts \in Services!Methods \cup {None}
  BY DEF CallRecord

LEMMA DoneWith ==
    ASSUME NEW k \in CallRecord, NEW answer
    PROVE  [k EXCEPT !.phase = "done", !.answer = answer]
               = [request |-> k.request, phase |-> "done", counts |-> k.counts, seen |-> k.seen, at |-> k.at,
                  active |-> k.active, answer |-> answer]
<1>1. PICK one : one = [k EXCEPT !.phase = "done"]  OBVIOUS
<1>2. one = [request |-> k.request, phase |-> "done", counts |-> k.counts, seen |-> k.seen, at |-> k.at,
             active |-> k.active, answer |-> k.answer]
  BY <1>1 DEF CallRecord
<1>3. [k EXCEPT !.phase = "done", !.answer = answer] = [one EXCEPT !.answer = answer]  BY ONLY <1>1
<1>4. [one EXCEPT !.answer = answer]
        = [request |-> k.request, phase |-> "done", counts |-> k.counts, seen |-> k.seen, at |-> k.at,
           active |-> k.active, answer |-> answer]
  BY ONLY <1>2
<1>5. QED  BY <1>3, <1>4

LEMMA ExpireStep == ASSUME ServicesInv, NEW c \in Callers, Services!Expire(c) PROVE ServicesInv'
<1>1. PICK k : k = call[c]  OBVIOUS
<1>2. /\ GoodCall(k) /\ k.phase \in {"count", "counting", "body", "answer"}
      /\ call' = [call EXCEPT ![c].active = FALSE] /\ UNCHANGED <<calls, lock, counted>>
  BY <1>1 DEF Services!Expire, ServicesInv
<1>3. k \in CallRecord /\ Progress(k) /\ k.request \in CallRequest  BY <1>2 DEF GoodCall
<1>4. PICK j : j = [k EXCEPT !.active = FALSE]  OBVIOUS
<1>5. j = [request |-> k.request, phase |-> k.phase, counts |-> k.counts, seen |-> k.seen, at |-> k.at,
           active |-> FALSE, answer |-> k.answer]
  BY <1>3, <1>4 DEF CallRecord
<1>6. j \in CallRecord  BY <1>3, <1>5, ShapeOf, RecordOf
<1>7. Progress(j)
  <2>1. Streaming(k) <=> Streaming(j)  BY <1>5 DEF Streaming
  <2>2. QED  BY <1>2, <1>3, <1>5, <2>1 DEF Progress
<1>8. GoodCall(j)  BY <1>2, <1>3, <1>5, <1>6, <1>7 DEF GoodCall
<1>9. call' = [call EXCEPT ![c] = j]  BY <1>1, <1>2, <1>4 DEF ServicesInv
<1>10. /\ call' = [d \in Callers |-> call'[d]] /\ call'[c] = j
       /\ \A d \in Callers : d # c => call'[d] = call[d]
  BY <1>9 DEF ServicesInv
<1>11. Counting'
  <2>1. j.phase = k.phase /\ j.seen = k.seen /\ j.counts = k.counts  BY <1>5
  <2>2. QED  BY <1>1, <1>2, <1>10, <2>1 DEF ServicesInv, Counting
<1>12. \A d \in Callers : GoodCall(call[d])'
  <2>1. \A d \in Callers : GoodCall(call'[d])  BY <1>8, <1>10 DEF ServicesInv
  <2>2. QED  BY <2>1 DEF GoodCall, Progress, Streaming, Parted
<1>13. QED  BY <1>10, <1>11, <1>12 DEF ServicesInv

LEMMA UnaryStep == ASSUME ServicesInv, NEW c \in Callers, Services!Unary(c) PROVE ServicesInv'
<1>1. PICK k : k = call[c]  OBVIOUS
<1>2. /\ GoodCall(k) /\ k.phase = "body" /\ k.request.method \notin {"stream", "delay"}
      /\ UNCHANGED <<calls, lock, counted>>
      /\ Value(k.request) = None => call' = [call EXCEPT ![c].phase = "failed"]
      /\ Value(k.request) # None => call' = Services!Answer(c, Value(k.request))
  BY <1>1 DEF Services!Unary, Services!Set, ServicesInv, Value
<1>3. k \in CallRecord /\ Progress(k) /\ k.request \in CallRequest /\ k.answer = <<>>
  BY <1>2 DEF GoodCall, Progress
<1>4. CASE Value(k.request) = None
  <2>1. PICK j : j = [request |-> k.request, phase |-> "failed", counts |-> k.counts, seen |-> k.seen, at |-> k.at,
                      active |-> k.active, answer |-> k.answer]
    OBVIOUS
  <2>2. j = [k EXCEPT !.phase = "failed"]  BY <1>3, <2>1 DEF CallRecord
  <2>3. call' = [call EXCEPT ![c] = j]  BY <1>1, <1>2, <1>4, <2>2 DEF ServicesInv
  <2>4. "failed" \in CallPhases  BY DEF CallPhases
  <2>5. j \in CallRecord  BY <1>3, <2>1, <2>4, ShapeOf, RecordOf
  <2>6. Progress(j)  BY <1>2, <1>3, <1>4, <2>1 DEF Progress
  <2>7. GoodCall(j) /\ j.phase # "counting"  BY <1>2, <1>3, <2>1, <2>5, <2>6 DEF GoodCall
  <2>8. QED  BY <1>2, <2>3, <2>7, CallChanges
<1>5. CASE Value(k.request) # None
  <2>1. PICK v \in Seq(ServedRow) : v = Value(k.request)  BY <1>3, <1>5, ValueType
  <2>2. PICK j : j = [request |-> k.request, phase |-> "done", counts |-> k.counts, seen |-> k.seen, at |-> k.at,
                      active |-> k.active, answer |-> v]
    OBVIOUS
  <2>3. j = [k EXCEPT !.phase = "done", !.answer = v]  BY <1>3, <2>2, DoneWith
  <2>4. call' = [call EXCEPT ![c].phase = "done", ![c].answer = v]
    <3>1. [i \in DOMAIN v |-> Services!Received(call[c].request.transport, v[i])] = v  BY AnswersArrive
    <3>2. call' = Services!Answer(c, v)  BY <1>2, <1>5, <2>1
    <3>3. QED  BY <3>1, <3>2 DEF Services!Answer
  <2>5. call' = [call EXCEPT ![c] = j]  BY <1>1, <2>3, <2>4 DEF ServicesInv
  <2>6. "done" \in CallPhases  BY DEF CallPhases
  <2>7. j \in CallRecord  BY <1>3, <2>2, <2>6, ShapeOf, RecordOf
  <2>8. Progress(j)  BY <1>2, <1>3, <1>5, <2>1, <2>2 DEF Progress
  <2>9. GoodCall(j) /\ j.phase # "counting"  BY <1>2, <1>3, <2>2, <2>7, <2>8 DEF GoodCall
  <2>10. QED  BY <1>2, <2>5, <2>9, CallChanges
<1>6. QED  BY <1>4, <1>5

LEMMA StreamStep == ASSUME ServicesInv, NEW c \in Callers, Services!Stream(c) PROVE ServicesInv'
<1>1. PICK k : k = call[c]  OBVIOUS
<1>2. PICK r : r = k.request  OBVIOUS
<1>3. PICK next : next = k.at + 1  OBVIOUS
<1>4. PICK sent : sent = Append(k.answer, Services!Received("grpc", Snap[next]))  OBVIOUS
<1>5. PICK phase : phase = IF Len(sent) >= r.limit THEN "done" ELSE "body"  OBVIOUS
<1>6. /\ GoodCall(k) /\ k.phase = "body" /\ r.method = "stream" /\ UNCHANGED <<calls, lock, counted>>
      /\ \/ next > Len(Snap) /\ call' = [call EXCEPT ![c].phase = "done"]
         \/ next <= Len(Snap) /\ Snap[next].id <= r.from /\ call' = [call EXCEPT ![c].at = next]
         \/ next <= Len(Snap) /\ Snap[next].id > r.from /\ Parted(k) /\ call' = [call EXCEPT ![c].phase = "failed"]
         \/ /\ next <= Len(Snap) /\ Snap[next].id > r.from
            /\ call' = [call EXCEPT ![c].at = next, ![c].answer = sent, ![c].phase = phase]
  <2>1. /\ GoodCall(k) /\ k.phase = "body" /\ r.method = "stream" /\ UNCHANGED <<calls, lock, counted>>
    BY <1>1, <1>2 DEF Services!Stream, ServicesInv
  <2>2. IF next > Len(Snap) THEN call' = [call EXCEPT ![c].phase = "done"]
        ELSE IF Snap[next].id <= r.from THEN call' = [call EXCEPT ![c].at = next]
        ELSE IF Parted(k) THEN call' = [call EXCEPT ![c].phase = "failed"]
        ELSE call' = [call EXCEPT ![c].at = next, ![c].answer = sent, ![c].phase = phase]
    BY <1>1, <1>2, <1>3, <1>4, <1>5 DEF Services!Stream, Services!Set, Services!Gone, Parted, Snap
  <2>3. k.at \in Nat /\ r \in CallRequest  BY <1>2, <2>1 DEF GoodCall, CallRecord
  <2>4. r.from \in Int /\ next \in Nat /\ next >= 1  BY <1>3, <2>3 DEF CallRequest
  <2>5. next > Len(Snap) \/ (next <= Len(Snap) /\ Snap[next].id \in Int)  BY <2>4, RowsAre
  <2>6. QED  BY <2>1, <2>2, <2>4, <2>5, RowsAre
<1>7. /\ k \in CallRecord /\ r \in CallRequest /\ r.transport = "grpc" /\ r.limit \in Nat \ {0} /\ r.from \in Nat
      /\ Streaming(k) /\ Len(k.answer) < r.limit /\ k.at \in Nat /\ k.answer \in Seq(ServedRow) /\ Len(k.answer) \in Nat
  BY <1>2, <1>6 DEF GoodCall, Progress, CallRequest, CallRecord
<1>8. {"body", "done", "failed"} \subseteq CallPhases  BY DEF CallPhases
<1>9. CASE next > Len(Snap) /\ call' = [call EXCEPT ![c].phase = "done"]
  <2>1. PICK j : j = [request |-> r, phase |-> "done", counts |-> k.counts, seen |-> k.seen, at |-> k.at,
                      active |-> k.active, answer |-> k.answer]
    OBVIOUS
  <2>2. j = [k EXCEPT !.phase = "done"]  BY <1>2, <1>7, <2>1 DEF CallRecord
  <2>3. call' = [call EXCEPT ![c] = j]  BY <1>1, <1>9, <2>2 DEF ServicesInv
  <2>4. j \in CallRecord  BY <1>2, <1>7, <1>8, <2>1, ShapeOf, RecordOf
  <2>5. Streaming(j)  BY <1>2, <1>7, <2>1 DEF Streaming
  <2>6. j.at = Len(Snap)  BY <1>3, <1>7, <1>9, <2>1, RowsAre DEF Streaming
  <2>7. Progress(j)  BY <1>6, <2>1, <2>5, <2>6 DEF Progress
  <2>8. GoodCall(j) /\ j.phase # "counting"  BY <1>7, <2>1, <2>4, <2>7 DEF GoodCall
  <2>9. QED  BY <1>6, <2>3, <2>8, CallChanges
<1>10. CASE next <= Len(Snap) /\ Snap[next].id <= r.from /\ call' = [call EXCEPT ![c].at = next]
  <2>1. PICK j : j = [request |-> r, phase |-> "body", counts |-> k.counts, seen |-> k.seen, at |-> next,
                      active |-> k.active, answer |-> k.answer]
    OBVIOUS
  <2>2. j = [k EXCEPT !.at = next]  BY <1>2, <1>6, <1>7, <2>1 DEF CallRecord
  <2>3. call' = [call EXCEPT ![c] = j]  BY <1>1, <1>10, <2>2 DEF ServicesInv
  <2>4. next \in Nat /\ next \in 1..Len(Snap)  BY <1>3, <1>7, <1>10, RowsAre
  <2>5. j \in CallRecord  BY <1>2, <1>7, <1>8, <2>1, <2>4, ShapeOf, RecordOf
  <2>6. Len(k.answer) = 0
    <3> SUFFICES ASSUME Len(k.answer) > 0 PROVE FALSE  BY <1>7
    <3>1. k.at \in 1..Len(Snap) /\ Snap[k.at].id > r.from  BY <1>2, <1>7 DEF Streaming
    <3>2. Snap[k.at].id <= Snap[next].id  BY <1>3, <1>7, <2>4, <3>1, RowsAre
    <3>3. QED  BY <1>7, <1>10, <2>4, <3>1, <3>2, RowsAre
  <2>7. Streaming(j)
    <3>1. /\ j.at = next /\ j.answer = k.answer /\ j.request = r /\ Len(j.answer) = 0
          /\ k.at <= Len(Snap) /\ \A i \in 1..k.at : Snap[i].id > r.from <=> i > k.at
      BY <1>2, <1>7, <2>1, <2>6 DEF Streaming
    <3>2. ASSUME NEW i \in 1..next PROVE Snap[i].id > r.from <=> i > next
      <4>1. CASE i = next  BY <1>7, <1>10, <2>4, <4>1, RowsAre
      <4>2. CASE i # next  BY <1>3, <1>7, <2>4, <3>1, <4>2
      <4>3. QED  BY <4>1, <4>2
    <3>3. QED  BY <1>7, <2>4, <3>1, <3>2 DEF Streaming
  <2>8. Progress(j)  BY <1>6, <1>7, <2>1, <2>7 DEF Progress
  <2>9. GoodCall(j) /\ j.phase # "counting"  BY <1>7, <2>1, <2>5, <2>8 DEF GoodCall
  <2>10. QED  BY <1>6, <2>3, <2>9, CallChanges
<1>11. CASE Parted(k) /\ call' = [call EXCEPT ![c].phase = "failed"]
  <2>1. PICK j : j = [request |-> r, phase |-> "failed", counts |-> k.counts, seen |-> k.seen, at |-> k.at,
                      active |-> k.active, answer |-> k.answer]
    OBVIOUS
  <2>2. j = [k EXCEPT !.phase = "failed"]  BY <1>2, <1>7, <2>1 DEF CallRecord
  <2>3. call' = [call EXCEPT ![c] = j]  BY <1>1, <1>11, <2>2 DEF ServicesInv
  <2>4. j \in CallRecord  BY <1>2, <1>7, <1>8, <2>1, ShapeOf, RecordOf
  <2>5. Streaming(j) /\ Parted(j)  BY <1>2, <1>7, <1>11, <2>1 DEF Streaming, Parted
  <2>6. Progress(j)  BY <1>6, <2>1, <2>5 DEF Progress
  <2>7. GoodCall(j) /\ j.phase # "counting"  BY <1>7, <2>1, <2>4, <2>6 DEF GoodCall
  <2>8. QED  BY <1>6, <2>3, <2>7, CallChanges
<1>12. CASE /\ next <= Len(Snap) /\ Snap[next].id > r.from
            /\ call' = [call EXCEPT ![c].at = next, ![c].answer = sent, ![c].phase = phase]
  <2>1. PICK j : j = [request |-> r, phase |-> phase, counts |-> k.counts, seen |-> k.seen, at |-> next,
                      active |-> k.active, answer |-> sent]
    OBVIOUS
  <2>2. j = [k EXCEPT !.at = next, !.answer = sent, !.phase = phase]
    <3>1. PICK one : one = [k EXCEPT !.at = next]  OBVIOUS
    <3>2. one = [request |-> r, phase |-> k.phase, counts |-> k.counts, seen |-> k.seen, at |-> next,
                 active |-> k.active, answer |-> k.answer]
      BY <1>2, <1>7, <3>1 DEF CallRecord
    <3>3. PICK two : two = [one EXCEPT !.answer = sent]  OBVIOUS
    <3>4. two = [request |-> r, phase |-> k.phase, counts |-> k.counts, seen |-> k.seen, at |-> next,
                 active |-> k.active, answer |-> sent]
      BY ONLY <3>2, <3>3
    <3>5. [two EXCEPT !.phase = phase] = j  BY ONLY <2>1, <3>4
    <3>6. [k EXCEPT !.at = next, !.answer = sent, !.phase = phase] = [two EXCEPT !.phase = phase]
      BY ONLY <3>1, <3>3
    <3>7. QED  BY <3>5, <3>6
  <2>3. call' = [call EXCEPT ![c] = j]  BY <1>1, <1>12, <2>2 DEF ServicesInv
  <2>4. next \in Nat /\ next \in 1..Len(Snap)  BY <1>3, <1>7, <1>12, RowsAre
  <2>5. Snap[next] \in ServedRow /\ sent = Append(k.answer, Snap[next])  BY <1>4, <2>4, RowsAre, RowsArrive
  <2>6. sent \in Seq(ServedRow) /\ Len(sent) = Len(k.answer) + 1 /\ sent[Len(sent)] = Snap[next]
        /\ \A i \in 1..Len(k.answer) : sent[i] = k.answer[i]
    BY <1>7, <2>5
  <2>7. j \in CallRecord  BY <1>2, <1>5, <1>7, <1>8, <2>1, <2>4, <2>6, ShapeOf, RecordOf
  <2>8. Streaming(j)
    <3>0. PICK a \in Nat, n \in Nat : a = k.at /\ n = Len(k.answer)  BY <1>7
    <3>1. /\ j.at = next /\ j.answer = sent /\ j.request = r /\ next - Len(sent) = k.at - Len(k.answer)
      <4>1. next = a + 1 /\ Len(sent) = n + 1  BY <1>3, <2>6, <3>0
      <4>2. next - Len(sent) = a - n  BY ONLY <4>1, a \in Nat, n \in Nat
      <4>3. QED  BY <2>1, <3>0, <4>2
    <3>2. next <= Len(Snap) /\ Len(sent) <= next /\ Len(sent) <= r.limit
      BY <1>3, <1>7, <2>4, <2>6 DEF Streaming
    <3>3. ASSUME NEW i \in 1..Len(sent) PROVE sent[i] = Snap[(next - Len(sent)) + i]
      <4>1. CASE i = Len(sent)
        <5>1. next = a + 1 /\ Len(sent) = n + 1  BY <1>3, <2>6, <3>0
        <5>2. (next - Len(sent)) + i = next  BY ONLY <4>1, <5>1, a \in Nat, n \in Nat
        <5>3. QED  BY <2>6, <4>1, <5>2
      <4>2. CASE i # Len(sent)
        <5>1. i \in 1..Len(k.answer)  BY <1>7, <2>6, <4>2
        <5>2. QED  BY <1>7, <2>6, <3>1, <5>1 DEF Streaming
      <4>3. QED  BY <4>1, <4>2
    <3>4. ASSUME NEW i \in 1..next PROVE Snap[i].id > r.from <=> i > next - Len(sent)
      <4>1. CASE i = next  BY <1>7, <1>12, <2>4, <2>6, <4>1
      <4>2. CASE i # next
        <5>1. i \in 1..k.at  BY <1>3, <1>7, <2>4, <4>2
        <5>2. QED  BY <1>2, <1>7, <3>1, <5>1 DEF Streaming
      <4>3. QED  BY <4>1, <4>2
    <3>5. QED  BY <3>1, <3>2, <3>3, <3>4 DEF Streaming
  <2>9. phase \in {"body", "done"} /\ (phase = "body" => Len(sent) < r.limit) /\ (phase = "done" => Len(sent) = r.limit)
    BY <1>5, <1>7, <2>6
  <2>10. Progress(j)  BY <1>6, <2>1, <2>8, <2>9 DEF Progress
  <2>11. GoodCall(j) /\ j.phase # "counting"  BY <1>7, <2>1, <2>7, <2>9, <2>10 DEF GoodCall
  <2>12. QED  BY <1>6, <2>3, <2>11, CallChanges
<1>13. QED  BY <1>6, <1>9, <1>10, <1>11, <1>12

LEMMA DelayStep == ASSUME ServicesInv, NEW c \in Callers, Services!Delay(c) PROVE ServicesInv'
<1>1. PICK k : k = call[c]  OBVIOUS
<1>2. PICK r : r = k.request  OBVIOUS
<1>3. /\ GoodCall(k) /\ k.phase = "body" /\ r.method = "delay" /\ UNCHANGED <<calls, lock, counted>>
      /\ IF k.at < MaxPolls
         THEN IF Parted(k) THEN call' = [call EXCEPT ![c].phase = "failed"]
              ELSE call' = [call EXCEPT ![c].at = k.at + 1]
         ELSE call' = [call EXCEPT ![c].phase = "count", ![c].counts = "summary"]
  BY <1>1, <1>2 DEF Services!Delay, Services!Set, Services!Gone, ServicesInv, Parted
<1>4. /\ k \in CallRecord /\ r \in CallRequest /\ k.answer = <<>> /\ k.at \in Nat /\ k.answer \in Seq(ServedRow)
  BY <1>2, <1>3 DEF GoodCall, Progress, CallRecord
<1>5. {"body", "failed", "count"} \subseteq CallPhases /\ "summary" \in Services!Methods  BY DEF CallPhases, Services!Methods
<1>6. CASE Parted(k) /\ call' = [call EXCEPT ![c].phase = "failed"]
  <2>1. PICK j : j = [request |-> r, phase |-> "failed", counts |-> k.counts, seen |-> k.seen, at |-> k.at,
                      active |-> k.active, answer |-> k.answer]
    OBVIOUS
  <2>2. j = [k EXCEPT !.phase = "failed"]  BY <1>2, <1>4, <2>1 DEF CallRecord
  <2>3. call' = [call EXCEPT ![c] = j]  BY <1>1, <1>6, <2>2 DEF ServicesInv
  <2>4. j \in CallRecord  BY <1>2, <1>4, <1>5, <2>1, ShapeOf, RecordOf
  <2>5. Progress(j)  BY <1>2, <1>3, <1>4, <1>6, <2>1 DEF Progress, Parted
  <2>6. GoodCall(j) /\ j.phase # "counting"  BY <1>3, <1>4, <2>1, <2>4, <2>5 DEF GoodCall
  <2>7. QED  BY <1>3, <2>3, <2>6, CallChanges
<1>7. CASE call' = [call EXCEPT ![c].at = k.at + 1]
  <2>1. PICK j : j = [request |-> r, phase |-> "body", counts |-> k.counts, seen |-> k.seen, at |-> k.at + 1,
                      active |-> k.active, answer |-> k.answer]
    OBVIOUS
  <2>2. j = [k EXCEPT !.at = k.at + 1]  BY <1>2, <1>3, <1>4, <2>1 DEF CallRecord
  <2>3. call' = [call EXCEPT ![c] = j]  BY <1>1, <1>7, <2>2 DEF ServicesInv
  <2>4. k.at + 1 \in Nat  BY <1>4
  <2>5. j \in CallRecord  BY <1>2, <1>4, <1>5, <2>1, <2>4, ShapeOf, RecordOf
  <2>6. Progress(j)  BY <1>3, <1>4, <2>1 DEF Progress
  <2>7. GoodCall(j) /\ j.phase # "counting"  BY <1>3, <1>4, <2>1, <2>5, <2>6 DEF GoodCall
  <2>8. QED  BY <1>3, <2>3, <2>7, CallChanges
<1>8. CASE call' = [call EXCEPT ![c].phase = "count", ![c].counts = "summary"]
  <2>1. PICK j : j = [request |-> r, phase |-> "count", counts |-> "summary", seen |-> k.seen, at |-> k.at,
                      active |-> k.active, answer |-> k.answer]
    OBVIOUS
  <2>2. j = [k EXCEPT !.phase = "count", !.counts = "summary"]
    <3>1. PICK one : one = [k EXCEPT !.phase = "count"]  OBVIOUS
    <3>2. one = [request |-> r, phase |-> "count", counts |-> k.counts, seen |-> k.seen, at |-> k.at,
                 active |-> k.active, answer |-> k.answer]
      BY <1>2, <1>4, <3>1 DEF CallRecord
    <3>3. [one EXCEPT !.counts = "summary"] = j  BY ONLY <2>1, <3>2
    <3>4. [k EXCEPT !.phase = "count", !.counts = "summary"] = [one EXCEPT !.counts = "summary"]  BY ONLY <3>1
    <3>5. QED  BY <3>3, <3>4
  <2>3. call' = [call EXCEPT ![c] = j]  BY <1>1, <1>8, <2>2 DEF ServicesInv
  <2>4. j \in CallRecord  BY <1>2, <1>4, <1>5, <2>1, ShapeOf, RecordOf
  <2>5. Progress(j)  BY <1>3, <1>4, <1>5, <2>1 DEF Progress
  <2>6. GoodCall(j) /\ j.phase # "counting"  BY <1>3, <1>4, <2>1, <2>4, <2>5 DEF GoodCall
  <2>7. QED  BY <1>3, <2>3, <2>6, CallChanges
<1>9. QED  BY <1>3, <1>6, <1>7, <1>8

LEMMA DelayAnswerStep == ASSUME ServicesInv, NEW c \in Callers, Services!DelayAnswer(c) PROVE ServicesInv'
<1>1. PICK k : k = call[c]  OBVIOUS
<1>2. PICK v \in Seq(ServedRow) : v = <<Services!Summary>>  BY SummaryIsRow
<1>3. /\ GoodCall(k) /\ k.phase = "answer" /\ UNCHANGED <<calls, lock, counted>>
      /\ call' = Services!Answer(c, v)
  BY <1>1, <1>2 DEF Services!DelayAnswer, ServicesInv
<1>4. k \in CallRecord /\ k.request \in CallRequest /\ k.request.method = "delay"  BY <1>3 DEF GoodCall, Progress
<1>5. v = Value(k.request) /\ v # None
  <2>1. k.request.method \notin {"one", "batch", "list", "metrics"}  BY <1>4
  <2>2. QED  BY <1>2, <1>4, <2>1, ValueIs, RowsAre
<1>6. PICK j : j = [request |-> k.request, phase |-> "done", counts |-> k.counts, seen |-> k.seen, at |-> k.at,
                    active |-> k.active, answer |-> v]
  OBVIOUS
<1>7. j = [k EXCEPT !.phase = "done", !.answer = v]  BY <1>4, <1>6, DoneWith
<1>8. call' = [call EXCEPT ![c].phase = "done", ![c].answer = v]
  <2>1. [i \in DOMAIN v |-> Services!Received(call[c].request.transport, v[i])] = v  BY AnswersArrive
  <2>2. QED  BY <1>3, <2>1 DEF Services!Answer
<1>9. call' = [call EXCEPT ![c] = j]  BY <1>1, <1>7, <1>8 DEF ServicesInv
<1>10. "done" \in CallPhases  BY DEF CallPhases
<1>11. j \in CallRecord  BY <1>4, <1>6, <1>10, ShapeOf, RecordOf
<1>12. Progress(j)  BY <1>4, <1>5, <1>6 DEF Progress
<1>13. GoodCall(j) /\ j.phase # "counting"  BY <1>4, <1>6, <1>11, <1>12 DEF GoodCall
<1>14. QED  BY <1>3, <1>9, <1>13, CallChanges

LEMMA ServicesStep == ServicesInv /\ [Services!Next]_(Services!vars) => ServicesInv'
<1> SUFFICES ASSUME ServicesInv, [Services!Next]_(Services!vars) PROVE ServicesInv'  OBVIOUS
<1>1. ASSUME UNCHANGED Services!vars PROVE ServicesInv'
  BY <1>1 DEF Services!vars, ServicesInv, Counting, GoodCall, Progress, Streaming, Parted
<1>2. ASSUME NEW c \in Callers,
             \/ Services!Begin(c) \/ Services!CountRead(c) \/ Services!CountWrite(c) \/ Services!Expire(c)
             \/ Services!Unary(c) \/ Services!Stream(c) \/ Services!Delay(c) \/ Services!DelayAnswer(c)
      PROVE  ServicesInv'
  BY <1>2, BeginCallStep, CountReadStep, CountWriteStep, ExpireStep, UnaryStep, StreamStep, DelayStep, DelayAnswerStep
<1>3. QED  BY <1>1, <1>2 DEF Services!Next

LEMMA ServicesInvariance == Services!Spec => []ServicesInv
<1>1. QED  BY ServicesStart, ServicesStep, PTL DEF Services!Spec

\* A stream that is done has sent what it was asked for.
LEMMA StreamIsExact ==
    ASSUME NEW k, GoodCall(k), k.phase = "done", k.request.method = "stream"
    PROVE  Services!Exact(k.request, k.answer)
<1>1. PICK r : r = k.request  OBVIOUS
<1>2. /\ r \in CallRequest /\ Streaming(k) /\ (Len(k.answer) = r.limit \/ k.at = Len(Snap))
      /\ k.at \in Nat /\ k.answer \in Seq(ServedRow) /\ Len(k.answer) \in Nat /\ r.limit \in Nat \ {0} /\ r.from \in Int
  BY <1>1 DEF GoodCall, Progress, CallRecord, CallRequest
<1>3. PICK n \in 0..Len(Snap) : \A i \in 1..Len(Snap) : Snap[i].id <= r.from <=> i <= n  BY <1>2, FirstRows
<1>4. Services!Cardinality({i \in DOMAIN ServedRows : ServedRows[i].id > r.from}) = Len(Snap) - n
  BY <1>2, <1>3, CountOfRows
<1>5. PICK a \in Nat, l \in Nat, z \in Nat : a = k.at /\ l = Len(k.answer) /\ z = Len(Snap)  BY <1>2, RowsAre
<1>6. /\ a <= z /\ l <= a /\ l <= r.limit /\ (l = r.limit \/ a = z)
      /\ \A i \in 1..l : k.answer[i] = Snap[(a - l) + i]
      /\ \A i \in 1..a : Snap[i].id > r.from <=> i > a - l
  BY <1>1, <1>2, <1>5 DEF Streaming
<1>7. \A i \in 1..z : Snap[i].id \in Int /\ (Snap[i].id > r.from <=> i > n)
  <2> SUFFICES ASSUME NEW i \in 1..z PROVE Snap[i].id \in Int /\ (Snap[i].id > r.from <=> i > n)  OBVIOUS
  <2>1. i \in 1..Len(Snap) /\ Snap[i].id \in Int  BY <1>5, RowsAre
  <2>2. QED  BY <1>2, <1>3, <2>1
<1>8. n \in Nat /\ n <= z  BY <1>3, <1>5
<1>9. l <= z - n /\ (a = z => l = z - n)
  <2>1. CASE l = 0
    <3>1. ASSUME a = z, n < z PROVE FALSE
      <4>1. z \in 1..a /\ z \in 1..z  BY <1>8, <3>1
      <4>2. ~(z > a - l) /\ z > n  BY <2>1, <3>1
      <4>3. QED  BY <1>6, <1>7, <4>1, <4>2
    <3>2. QED  BY <1>8, <2>1, <3>1
  <2>2. CASE l > 0
    <3>1. (a - l) + 1 \in 1..a /\ (a - l) + 1 \in 1..z  BY <1>6, <2>2
    <3>2. (a - l) + 1 > n  BY <1>6, <1>7, <3>1
    <3>3. ASSUME a - l > n PROVE FALSE
      <4>1. a - l \in 1..a /\ a - l \in 1..z /\ ~(a - l > a - l)  BY <1>6, <1>8, <3>3
      <4>2. QED  BY <1>6, <1>7, <3>3, <4>1
    <3>4. a - l = n  BY <1>8, <3>2, <3>3
    <3>5. QED  BY <1>6, <1>8, <3>4
  <2>3. QED  BY <2>1, <2>2
<1>10. Services!Min({r.limit, z - n}) = l
  <2>1. PICK x \in Int, y \in Int : x = r.limit /\ y = z - n  BY <1>2, <1>8
  <2>2. Services!Min({x, y}) = IF x <= y THEN x ELSE y  BY SmallerOfTwo
  <2>3. l <= x /\ l <= y /\ (l = x \/ l = y)  BY <1>6, <1>9, <2>1
  <2>4. (IF x <= y THEN x ELSE y) = l  BY ONLY <2>3, x \in Int, y \in Int, l \in Nat
  <2>5. QED  BY <2>1, <2>2, <2>4
<1>11. \A i \in DOMAIN k.answer : k.answer[i].id > r.from
  <2>1. DOMAIN k.answer = 1..l  BY <1>2, <1>5
  <2>2. ASSUME NEW i \in 1..l PROVE k.answer[i].id > r.from
    <3>1. (a - l) + i \in 1..a /\ (a - l) + i > a - l  BY <1>6
    <3>2. QED  BY <1>6, <3>1
  <2>3. QED  BY <2>1, <2>2
<1>12. QED  BY <1>1, <1>4, <1>5, <1>10, <1>11 DEF Services!Exact

LEMMA StreamIsPiece ==
    ASSUME NEW k, GoodCall(k), k.phase # "idle", Streaming(k) PROVE \E a : Piece(k.answer, a)
<1>1. k.at \in Nat /\ k.answer \in Seq(ServedRow) /\ Len(k.answer) \in Nat  BY DEF GoodCall, CallRecord
<1>2. PICK a \in Nat, l \in Nat : a = k.at /\ l = Len(k.answer)  BY <1>1
<1>3. a <= Len(Snap) /\ l <= a /\ \A i \in 1..l : k.answer[i] = Snap[(a - l) + i]  BY <1>2 DEF Streaming
<1>4. \A i \in 1..l : (a - l) + i \in 1..Len(Snap)  BY <1>3, RowsAre
<1>5. a - l \in Nat  BY <1>3
<1>6. Piece(k.answer, a - l)  BY <1>1, <1>2, <1>3, <1>4, <1>5 DEF Piece
<1>7. QED  BY <1>6

LEMMA ServedIsTrue == ServicesInv => Services!ServedExactly
<1> SUFFICES ASSUME ServicesInv PROVE Services!ServedExactly  OBVIOUS
<1>1. ASSUME NEW c \in Callers, NEW k, k = call[c]
      PROVE  LET r == k.request
                 answer == k.answer
             IN  /\ r # None /\ r.method # "summary" /\ r.method # "delay" =>
                       \A i \in DOMAIN answer : answer[i] \in Services!Range(ServedRows)
                 /\ r # None /\ r.method \in {"list", "metrics", "stream"} =>
                       \A i \in 1 .. Len(answer) - 1 :
                           \A q \in DOMAIN ServedRows :
                              ~(answer[i].id < ServedRows[q].id /\ ServedRows[q].id < answer[i + 1].id)
                 /\ k.phase = "done" => Services!Exact(r, answer)
                 /\ k.phase = "failed" /\ ~Parted(k) => \E i \in DOMAIN r.ids : ~Services!Known(r.ids[i])
  <2>1. GoodCall(k)  BY <1>1 DEF ServicesInv
  <2> DEFINE Nothing == DOMAIN k.answer = {} /\ 1 .. Len(k.answer) - 1 = {}
  <2>2. k.answer = <<>> => Nothing  OBVIOUS
  <2>3. CASE k.phase = "idle"  BY <2>1, <2>2, <2>3 DEF GoodCall
  <2>4. ASSUME k.phase # "idle" PROVE k.request \in CallRequest /\ Progress(k) /\ k \in CallRecord
    BY <2>1, <2>4 DEF GoodCall
  <2>5. CASE k.phase \in {"count", "counting", "answer"}  BY <2>2, <2>4, <2>5 DEF Progress
  <2>6. CASE k.phase # "idle" /\ k.request.method = "stream" /\ k.phase \in {"body", "done", "failed"}
    <3>1. Streaming(k) /\ (k.phase = "failed" => Parted(k))  BY <2>4, <2>6 DEF Progress
    <3>2. PICK a : Piece(k.answer, a)  BY <2>1, <2>6, <3>1, StreamIsPiece
    <3>3. k.phase = "done" => Services!Exact(k.request, k.answer)  BY <2>1, <2>6, StreamIsExact
    <3>4. QED  BY <2>6, <3>1, <3>2, <3>3, NoGap
  <2>7. CASE k.request.method # "stream" /\ k.phase = "body"  BY <2>2, <2>4, <2>7 DEF Progress
  <2>8. CASE k.request.method # "stream" /\ k.phase = "done"
    <3>1. k.answer = Value(k.request) /\ Value(k.request) # None /\ k.request \in CallRequest
      BY <2>4, <2>8 DEF Progress
    <3>2. /\ Services!Exact(k.request, k.answer)
          /\ k.request.method \notin {"summary", "delay"} => \A i \in DOMAIN k.answer : k.answer[i] \in Services!Range(ServedRows)
          /\ k.request.method \in {"list", "metrics"} => \E a : Piece(k.answer, a)
      BY <2>8, <3>1, ValueIsExact
    <3>3. k.request.method \in {"list", "metrics"} =>
             \A i \in 1 .. Len(k.answer) - 1 : \A q \in DOMAIN ServedRows :
                ~(k.answer[i].id < ServedRows[q].id /\ ServedRows[q].id < k.answer[i + 1].id)
      BY <3>2, NoGap
    <3>4. QED  BY <2>8, <3>2, <3>3
  <2>9. CASE k.request.method # "stream" /\ k.phase = "failed"
    <3>1. k.answer = <<>> /\ k.request \in CallRequest /\ (Parted(k) \/ Value(k.request) = None)
      BY <2>4, <2>9 DEF Progress
    <3>2. Value(k.request) = None => \E i \in DOMAIN k.request.ids : ~Services!Known(k.request.ids[i])
      BY <3>1, ValueType
    <3>3. QED  BY <2>2, <2>9, <3>1, <3>2
  <2>10. k.phase \in CallPhases  BY <2>1 DEF GoodCall, CallRecord
  <2>11. QED  BY <2>3, <2>5, <2>6, <2>7, <2>8, <2>9, <2>10 DEF CallPhases
<1>2. calls = counted  BY DEF ServicesInv, Counting
<1>3. QED  BY <1>1, <1>2 DEF Services!ServedExactly, Services!Gone, Parted

LEMMA ServicesMoves == BatchSpec => Services!Spec
<1>1. BatchInit => Services!Init  BY DEF BatchInit
<1>2. [BatchNext]_<<part, vars, databaseVars, aggregationVars, snapshotVars, servicesVars, consoleVars, streamVars>>
        => [Services!Next]_(Services!vars)
  BY DEF BatchNext, servicesVars, Services!vars
<1>3. QED  BY <1>1, <1>2, PTL DEF BatchSpec, Services!Spec

-----------------------------------------------------------------------------
(* The batch of session 1.                                                  *)

SessionFiles ==
    /\ view \in [Views -> [session : SessionKeys, time : Times]]
    /\ copies \in [SessionKeys -> 0 .. 2]
    /\ order \in [Orders -> [session : SessionKeys, profit : Amounts] \cup {None}]

Keys == {view[v].session : v \in Views}
ViewsOf(k) == {v \in Views : view[v].session = k}

\* The row that a page view becomes when its session and its order are unique.
TheOrder(k) == IF Aggregation!OrdersOf(k) = {} THEN None ELSE CHOOSE o \in Aggregation!OrdersOf(k) : TRUE
RowOf(v) == [view |-> v, copy |-> 1, order |-> TheOrder(view[v].session)]
Whole == Aggregation!Unique /\ Aggregation!SameRows

LEMMA FilesAre ==
    /\ IsFiniteSet(Views) /\ IsFiniteSet(Orders) /\ Times \subseteq Int /\ Amounts \subseteq Int
    /\ None \notin Orders /\ None \notin [session : SessionKeys, profit : Amounts]
    /\ \A S : Aggregation!Cardinality(S) = Cardinality(S)
<1>1. \A S : Aggregation!IsFiniteSet(S) <=> IsFiniteSet(S)  BY DEF Aggregation!IsFiniteSet, IsFiniteSet
<1>2. \A S : Aggregation!Cardinality(S) = Cardinality(S)  BY DEF Aggregation!Cardinality, Cardinality
<1>3. QED  BY <1>1, <1>2, AggregationAssumption DEF Aggregation!FilesAssumption

LEMMA OneOrder ==
    ASSUME SessionFiles, Aggregation!Unique, NEW k \in SessionKeys
    PROVE  /\ Aggregation!OrdersOf(k) = {} => TheOrder(k) = None
           /\ Aggregation!OrdersOf(k) # {} =>
                 /\ Aggregation!OrdersOf(k) = {TheOrder(k)} /\ TheOrder(k) \in Orders /\ TheOrder(k) # None
                 /\ order[TheOrder(k)] \in [session : SessionKeys, profit : Amounts]
<1> DEFINE S == Aggregation!OrdersOf(k)
<1>1. S \subseteq Orders /\ \A o \in S : order[o] \in [session : SessionKeys, profit : Amounts]
  BY DEF Aggregation!OrdersOf, SessionFiles
<1>2. IsFiniteSet(S) /\ Cardinality(S) \in Nat /\ Cardinality(S) <= 1
  BY <1>1, FilesAre, FS_Subset, FS_CardinalityType DEF Aggregation!Unique
<1>3. ASSUME S # {} PROVE S = {TheOrder(k)}
  <2>1. Cardinality(S) = 1  BY <1>2, <1>3, FS_EmptySet
  <2>2. PICK x : S = {x}  BY <1>2, <2>1, FS_Singleton
  <2>3. TheOrder(k) \in S  BY <1>3 DEF TheOrder
  <2>4. QED  BY <2>2, <2>3
<1>4. QED  BY <1>1, <1>3, FilesAre DEF TheOrder

\* The join of files without doubles.
LEMMA JoinedIs ==
    ASSUME SessionFiles, Whole
    PROVE  Aggregation!Joined = {RowOf(v) : v \in Views}
<1> DEFINE Matched == {v \in Views : copies[view[v].session] = 1}
           RowsFor(v) == {[view |-> v, copy |-> c, order |-> o] :
               c \in 1 .. copies[view[v].session],
               o \in IF Aggregation!OrdersOf(view[v].session) = {} THEN {None} ELSE Aggregation!OrdersOf(view[v].session)}
<1>1. ASSUME NEW v \in Views PROVE view[v].session \in SessionKeys /\ copies[view[v].session] \in {0, 1}
  <2>1. view[v].session \in SessionKeys  BY DEF SessionFiles
  <2>2. copies[view[v].session] \in 0..2 /\ copies[view[v].session] <= 1  BY <2>1 DEF SessionFiles, Whole, Aggregation!Unique
  <2>3. QED  BY <2>1, <2>2
<1>2. ASSUME NEW v \in Views PROVE RowsFor(v) = IF v \in Matched THEN {RowOf(v)} ELSE {}
  <2> DEFINE O == IF Aggregation!OrdersOf(view[v].session) = {} THEN {None} ELSE Aggregation!OrdersOf(view[v].session)
  <2>1. O = {TheOrder(view[v].session)}  BY <1>1, OneOrder DEF Whole
  <2>2. RowsFor(v) = {[view |-> v, copy |-> c, order |-> o] : c \in 1 .. copies[view[v].session], o \in O}  OBVIOUS
  <2> HIDE DEF RowsFor, O
  <2>3. CASE v \in Matched
    <3>1. 1 .. copies[view[v].session] = {1}  BY <2>3
    <3>2. QED  BY <2>1, <2>2, <2>3, <3>1 DEF RowOf
  <2>4. CASE v \notin Matched
    <3>1. 1 .. copies[view[v].session] = {}  BY <1>1, <2>4
    <3>2. QED  BY <2>2, <2>4, <3>1
  <2>5. QED  BY <2>3, <2>4
<1>3. Aggregation!Joined = UNION {RowsFor(v) : v \in Views}  BY DEF Aggregation!Joined
<1> HIDE DEF RowsFor
<1>4. Aggregation!Joined = {RowOf(v) : v \in Matched}  BY <1>2, <1>3
<1>5. Matched \subseteq Views /\ IsFiniteSet(Matched) /\ IsFiniteSet(Views)  BY FilesAre, FS_Subset
<1>6. Cardinality(Aggregation!Joined) = Cardinality(Matched)
  <2> DEFINE f == [v \in Matched |-> RowOf(v)]
  <2>1. f \in [Matched -> Aggregation!Joined] /\ \A r \in Aggregation!Joined : \E v \in Matched : f[v] = r  BY <1>4
  <2>2. \A v, w \in Matched : f[v] = f[w] => v = w  BY DEF RowOf
  <2> HIDE DEF f
  <2>3. f \in Bijection(Matched, Aggregation!Joined)  BY <2>1, <2>2 DEF Bijection, Injection, IsInjective, Surjection
  <2>4. ExistsBijection(Matched, Aggregation!Joined)  BY <2>3 DEF ExistsBijection
  <2>5. QED  BY <1>5, <2>4, FS_Bijection
<1>7. Cardinality(Views) = Cardinality(Matched)  BY <1>6, FilesAre DEF Whole, Aggregation!SameRows
<1>8. Matched = Views  BY <1>5, <1>7, FS_Subset
<1>9. QED  BY <1>4, <1>8

\* A group of the join is its session's page views.
LEMMA MetricsMean ==
    ASSUME SessionFiles, Whole, NEW k \in Keys
    PROVE  Aggregation!Metrics({RowOf(v) : v \in ViewsOf(k)}) = Aggregation!Meaning(k)
<1> DEFINE M == ViewsOf(k)
           R == {RowOf(v) : v \in ViewsOf(k)}
           its == {order[o] : o \in Aggregation!OrdersOf(k)}
<1>1. M # {} /\ M \subseteq Views /\ IsFiniteSet(M) /\ k \in SessionKeys
  <2>1. M # {} /\ M \subseteq Views /\ k \in SessionKeys  BY DEF Keys, ViewsOf, SessionFiles
  <2>2. QED  BY <2>1, FilesAre, FS_Subset
<1>2. Cardinality(R) = Cardinality(M)
  <2> DEFINE f == [v \in M |-> RowOf(v)]
  <2>1. f \in [M -> R] /\ \A r \in R : \E v \in M : f[v] = r  OBVIOUS
  <2>2. \A v, w \in M : f[v] = f[w] => v = w  BY DEF RowOf
  <2> HIDE DEF f, R
  <2>3. f \in Bijection(M, R)  BY <2>1, <2>2 DEF Bijection, Injection, IsInjective, Surjection
  <2>4. ExistsBijection(M, R)  BY <2>3 DEF ExistsBijection
  <2>5. QED  BY <1>1, <2>4, FS_Bijection
<1>3. \A v \in M : RowOf(v).view = v /\ RowOf(v).order = TheOrder(k)  BY DEF RowOf, ViewsOf
<1>4. {Aggregation!Clock(r) : r \in R} = {view[v].time : v \in M}  BY <1>3 DEF Aggregation!Clock
<1>5. (\E r \in R : r.order # None) <=> its # {}
  <2>1. TheOrder(k) # None <=> Aggregation!OrdersOf(k) # {}  BY <1>1, OneOrder DEF Whole
  <2>2. QED  BY <1>1, <1>3, <2>1
<1>6. PICK x : x = IF its = {} THEN 0 ELSE (CHOOSE o \in its : TRUE).profit  OBVIOUS
<1>7. x \in Int /\ \A r \in R : Aggregation!Profit(r) = x
  <2>1. CASE Aggregation!OrdersOf(k) = {}
    <3>1. TheOrder(k) = None /\ its = {}  BY <1>1, <2>1, OneOrder DEF Whole
    <3>2. QED  BY <1>3, <1>6, <3>1 DEF Aggregation!Profit
  <2>2. CASE Aggregation!OrdersOf(k) # {}
    <3>1. PICK o : o = TheOrder(k)  OBVIOUS
    <3>2. Aggregation!OrdersOf(k) = {o} /\ o # None /\ order[o].profit \in Amounts
      BY <1>1, <2>2, <3>1, OneOrder DEF Whole
    <3>3. its = {order[o]}  BY <3>2
    <3>4. x = order[o].profit  BY <1>6, <3>3
    <3>5. QED  BY <1>3, <3>1, <3>2, <3>4, FilesAre DEF Aggregation!Profit
  <2>3. QED  BY <2>1, <2>2
<1>8. {Aggregation!Profit(r) : r \in R} = {x}  BY <1>1, <1>7
<1>9. Aggregation!Max({x}) = x  BY <1>7 DEF Aggregation!Max
<1>10. Aggregation!Metrics(R)
         = [pageviews |-> Cardinality(M),
            duration  |-> Aggregation!Max({view[v].time : v \in M}) - Aggregation!Min({view[v].time : v \in M}),
            converted |-> its # {},
            profit    |-> x]
  <2>1. Aggregation!Metrics(R)
          = [pageviews |-> Aggregation!Cardinality(R),
             duration  |-> Aggregation!Max({Aggregation!Clock(r) : r \in R}) - Aggregation!Min({Aggregation!Clock(r) : r \in R}),
             converted |-> \E r \in R : r.order # None,
             profit    |-> Aggregation!Max({Aggregation!Profit(r) : r \in R})]
    BY DEF Aggregation!Metrics
  <2> HIDE DEF R, M, its
  <2>2. (\E r \in R : r.order # None) = (its # {})  BY <1>5
  <2>3. QED  BY <1>2, <1>4, <1>8, <1>9, <2>1, <2>2, FilesAre
<1>11. Aggregation!Meaning(k)
         = [pageviews |-> Cardinality(M),
            duration  |-> Aggregation!Max({view[v].time : v \in M}) - Aggregation!Min({view[v].time : v \in M}),
            converted |-> its # {},
            profit    |-> x]
  BY <1>6, FilesAre DEF Aggregation!Meaning, ViewsOf
<1>12. QED  BY <1>10, <1>11

\* A set of sessions is computed to what its sessions mean, whatever else is in the join.
LEMMA GroupsMean ==
    ASSUME SessionFiles, Whole, NEW K
    PROVE  Aggregation!GroupBy({r \in Aggregation!Joined : Aggregation!Session(r) \in K})
               = [k \in Keys \cap K |-> Aggregation!Meaning(k)]
<1> DEFINE J == {r \in Aggregation!Joined : Aggregation!Session(r) \in K}
<1>1. \A v \in Views : Aggregation!Session(RowOf(v)) = view[v].session  BY DEF Aggregation!Session, RowOf
<1>2. Aggregation!Joined = {RowOf(v) : v \in Views}  BY JoinedIs
<1>3. {Aggregation!Session(r) : r \in J} = Keys \cap K
  <2>1. ASSUME NEW r \in J PROVE Aggregation!Session(r) \in Keys \cap K  BY <1>1, <1>2 DEF Keys
  <2>2. ASSUME NEW k \in Keys \cap K PROVE \E r \in J : Aggregation!Session(r) = k
    <3>1. PICK v \in Views : view[v].session = k  BY DEF Keys
    <3>2. RowOf(v) \in J /\ Aggregation!Session(RowOf(v)) = k  BY <1>1, <1>2, <3>1
    <3>3. QED  BY <3>2
  <2> HIDE DEF J
  <2>3. QED  BY <2>1, <2>2
<1>4. ASSUME NEW k \in Keys \cap K PROVE Aggregation!Metrics({r \in J : Aggregation!Session(r) = k}) = Aggregation!Meaning(k)
  <2>1. {r \in J : Aggregation!Session(r) = k} = {RowOf(v) : v \in ViewsOf(k)}
    <3>1. ASSUME NEW r \in J, Aggregation!Session(r) = k PROVE \E v \in ViewsOf(k) : r = RowOf(v)
      <4>1. PICK v \in Views : r = RowOf(v)  BY <1>2
      <4>2. QED  BY <1>1, <3>1, <4>1 DEF ViewsOf
    <3>2. ASSUME NEW v \in ViewsOf(k) PROVE RowOf(v) \in J /\ Aggregation!Session(RowOf(v)) = k
      BY <1>1, <1>2 DEF ViewsOf
    <3> HIDE DEF J
    <3>3. QED  BY <3>1, <3>2
  <2>2. k \in Keys  OBVIOUS
  <2>3. QED  BY <2>1, <2>2, MetricsMean
<1>5. Aggregation!GroupBy(J)
        = [k \in {Aggregation!Session(r) : r \in J} |-> Aggregation!Metrics({r \in J : Aggregation!Session(r) = k})]
  BY DEF Aggregation!GroupBy
<1> HIDE DEF J
<1>6. Aggregation!GroupBy(J) = [k \in Keys \cap K |-> Aggregation!Meaning(k)]  BY <1>3, <1>4, <1>5
<1>7. QED  BY <1>6 DEF J

\* pandas computes all of the sessions, a task those of its partition.
LEMMA AllMean ==
    ASSUME SessionFiles, Whole PROVE Aggregation!GroupBy(Aggregation!Joined) = Aggregation!Reference
<1>1. \A v \in Views : Aggregation!Session(RowOf(v)) \in Keys  BY DEF Aggregation!Session, RowOf, Keys
<1>2. {r \in Aggregation!Joined : Aggregation!Session(r) \in Keys} = Aggregation!Joined  BY <1>1, JoinedIs
<1>3. Aggregation!GroupBy(Aggregation!Joined) = [k \in Keys \cap Keys |-> Aggregation!Meaning(k)]
  <2>1. Aggregation!GroupBy({r \in Aggregation!Joined : Aggregation!Session(r) \in Keys})
           = [k \in Keys \cap Keys |-> Aggregation!Meaning(k)]
    BY GroupsMean
  <2>2. QED  BY <1>2, <2>1
<1>4. Keys \cap Keys = Keys  OBVIOUS
<1>5. QED  BY <1>3, <1>4 DEF Aggregation!Reference, Keys

LEMMA PartitionMeans ==
    ASSUME SessionFiles, Whole, NEW p
    PROVE  Aggregation!GroupBy(Aggregation!InPartition(p)) = [k \in {q \in Keys : hash[q] = p} |-> Aggregation!Meaning(k)]
<1> DEFINE K == {q \in Keys : hash[q] = p}
<1>1. \A v \in Views : Aggregation!Session(RowOf(v)) \in Keys  BY DEF Aggregation!Session, RowOf, Keys
<1>2. Aggregation!InPartition(p) = {r \in Aggregation!Joined : Aggregation!Session(r) \in K}
  <2>1. \A r \in Aggregation!Joined : Aggregation!Session(r) \in Keys  BY <1>1, JoinedIs
  <2>2. QED  BY <2>1 DEF Aggregation!InPartition, Aggregation!Destination
<1>3. Keys \cap K = K  OBVIOUS
<1> HIDE DEF K
<1>4. Aggregation!GroupBy(Aggregation!InPartition(p)) = [k \in Keys \cap K |-> Aggregation!Meaning(k)]
  BY <1>2, GroupsMean
<1>5. Aggregation!GroupBy(Aggregation!InPartition(p)) = [k \in K |-> Aggregation!Meaning(k)]  BY <1>3, <1>4
<1>6. QED  BY <1>5 DEF K

\* What has been computed: the groups of the partitions whose tasks are through.
Computed ==
    /\ result = [k \in DOMAIN result |-> result[k]]
    /\ DOMAIN result = {k \in Keys : hash[k] \notin tasks}
    /\ \A k \in DOMAIN result : result[k] = Aggregation!Meaning(k)

AggregationInv ==
    /\ SessionFiles /\ hash \in [SessionKeys -> Partitions] /\ tasks \subseteq Partitions
    /\ stage \in {"load", "baseline", "join", "sizes", "compute", "written", "done", "failed"}
    /\ stage \in {"baseline", "join", "compute", "written"} => Whole
    /\ stage = "failed" => ~Whole
    /\ stage \in {"join", "compute", "written"} => baseline = Aggregation!Reference
    /\ baseline # None => baseline = Aggregation!Reference
    /\ stage \in {"load", "baseline", "join", "sizes"} => result = <<>>
    /\ stage # "compute" => tasks = {}
    /\ stage \in {"compute", "written"} => Computed

LEMMA AllComputed == ASSUME AggregationInv, Computed, tasks = {} PROVE result = Aggregation!Reference
<1>1. DOMAIN result = Keys  BY DEF Computed
<1>2. result = [k \in Keys |-> Aggregation!Meaning(k)]  BY <1>1 DEF Computed
<1>3. QED  BY <1>2 DEF Aggregation!Reference, Keys

LEMMA ComputedIsTrue == AggregationInv => Aggregation!ParallelIsSequential
<1> SUFFICES ASSUME AggregationInv PROVE Aggregation!ParallelIsSequential  OBVIOUS
<1>1. ASSUME stage \in {"compute", "written"}, tasks = {} PROVE result = Aggregation!Reference
  <2>1. Computed  BY <1>1 DEF AggregationInv
  <2>2. QED  BY <1>1, <2>1, AllComputed
<1>2. QED  BY <1>1 DEF AggregationInv, Whole, Aggregation!ParallelIsSequential

\* The files stay, and what they mean.
LEMMA FilesStay ==
    ASSUME UNCHANGED Aggregation!files
    PROVE  /\ Whole' = Whole /\ SessionFiles' = SessionFiles /\ Keys' = Keys
           /\ Aggregation!Reference' = Aggregation!Reference
           /\ \A k : Aggregation!Meaning(k)' = Aggregation!Meaning(k)
<1>1. view' = view /\ copies' = copies /\ order' = order  BY DEF Aggregation!files
<1>2. \A k : Aggregation!OrdersOf(k)' = Aggregation!OrdersOf(k)  BY <1>1 DEF Aggregation!OrdersOf
<1>3. \A k : Aggregation!Meaning(k)' = Aggregation!Meaning(k)  BY <1>1, <1>2 DEF Aggregation!Meaning
<1>4. Keys' = Keys /\ SessionFiles' = SessionFiles  BY <1>1 DEF Keys, SessionFiles
<1>5. Aggregation!Joined' = Aggregation!Joined  BY <1>1, <1>2 DEF Aggregation!Joined
<1>6. Whole' = Whole  BY <1>1, <1>2, <1>5 DEF Whole, Aggregation!Unique, Aggregation!SameRows
<1>7. Aggregation!Reference' = Aggregation!Reference  BY <1>1, <1>3 DEF Aggregation!Reference
<1>8. QED  BY <1>3, <1>4, <1>6, <1>7

LEMMA AggregationStart == Aggregation!Init => AggregationInv
<1> SUFFICES ASSUME Aggregation!Init PROVE AggregationInv  OBVIOUS
<1>1. QED  BY DEF Aggregation!Init, AggregationInv, SessionFiles

LEMMA TaskStep == ASSUME AggregationInv, NEW p \in Partitions, Aggregation!Task(p) PROVE AggregationInv'
<1>1. /\ p \in tasks /\ tasks' = tasks \ {p} /\ hash' = hash /\ stage' = stage /\ baseline' = baseline
      /\ UNCHANGED Aggregation!files
  BY DEF Aggregation!Task
<1>2. stage = "compute" /\ Whole /\ SessionFiles /\ Computed  BY <1>1 DEF AggregationInv
<1>3. PICK groups : groups = [k \in {q \in Keys : hash[q] = p} |-> Aggregation!Meaning(k)]  OBVIOUS
<1>4. groups = Aggregation!GroupBy(Aggregation!InPartition(p))  BY <1>2, <1>3, PartitionMeans
<1>5. result' = [k \in DOMAIN result \cup DOMAIN groups |-> IF k \in DOMAIN groups THEN groups[k] ELSE result[k]]
  BY <1>4 DEF Aggregation!Task
<1>6. DOMAIN groups = {q \in Keys : hash[q] = p} /\ \A k \in DOMAIN groups : groups[k] = Aggregation!Meaning(k)
  BY <1>3
<1>7. DOMAIN result' = {k \in Keys : hash[k] \notin tasks \ {p}}
  BY <1>1, <1>2, <1>5, <1>6 DEF Computed
<1>8. \A k \in DOMAIN result' : result'[k] = Aggregation!Meaning(k)
  BY <1>2, <1>5, <1>6 DEF Computed
<1>9. result' = [k \in DOMAIN result' |-> result'[k]]  BY <1>5
<1>10. Computed'
  <2>1. Keys' = Keys /\ \A k : Aggregation!Meaning(k)' = Aggregation!Meaning(k)  BY <1>1, FilesStay
  <2>2. QED  BY <1>1, <1>7, <1>8, <1>9, <2>1 DEF Computed
<1>11. QED  BY <1>1, <1>2, <1>10, FilesStay DEF AggregationInv

LEMMA AggregationStep == AggregationInv /\ [Aggregation!Next]_(Aggregation!vars) => AggregationInv'
<1> SUFFICES ASSUME AggregationInv, [Aggregation!Next]_(Aggregation!vars) PROVE AggregationInv'  OBVIOUS
<1>1. CASE UNCHANGED Aggregation!vars
  <2>1. UNCHANGED Aggregation!files /\ UNCHANGED <<hash, stage, baseline, result, tasks>>  BY <1>1 DEF Aggregation!vars
  <2>2. QED  BY <2>1, FilesStay DEF AggregationInv, Computed
<1>2. CASE Aggregation!Load
  BY <1>2, FilesStay DEF Aggregation!Load, AggregationInv, Computed, Whole
<1>3. CASE Aggregation!Baseline
  <2>1. baseline' = Aggregation!Reference  BY <1>3, AllMean DEF Aggregation!Baseline, AggregationInv
  <2>2. QED  BY <1>3, <2>1, FilesStay DEF Aggregation!Baseline, AggregationInv, Computed
<1>4. CASE Aggregation!AnalysisOnly
  BY <1>4, FilesStay DEF Aggregation!AnalysisOnly, AggregationInv, Computed
<1>5. CASE Aggregation!SparkJoin
  <2>1. /\ stage \in {"join", "sizes"} /\ UNCHANGED Aggregation!files /\ UNCHANGED <<hash, baseline, result>>
        /\ result = <<>> /\ (stage = "join" => Whole) /\ hash \in [SessionKeys -> Partitions]
    BY <1>5 DEF Aggregation!SparkJoin, AggregationInv
  <2>2. CASE stage = "join"
    <3>1. Whole /\ Aggregation!SameRows  BY <2>1, <2>2 DEF Whole
    <3>2. stage' = "compute" /\ tasks' = Partitions  BY <1>5, <2>2, <3>1 DEF Aggregation!SparkJoin
    <3>3. Computed'
      <4>1. \A k \in Keys : k \in SessionKeys  BY DEF Keys, AggregationInv, SessionFiles
      <4>2. {k \in Keys : hash[k] \notin Partitions} = {}  BY <2>1, <4>1
      <4>3. DOMAIN result = {} /\ result = [k \in DOMAIN result |-> result[k]]  BY <2>1
      <4>4. QED  BY <2>1, <3>2, <4>2, <4>3, FilesStay DEF Computed
    <3>4. QED  BY <2>1, <2>2, <3>1, <3>2, <3>3, FilesStay DEF AggregationInv
  <2>3. CASE stage = "sizes"
    <3>1. stage' = (IF ~Aggregation!SameRows THEN "failed" ELSE "done") /\ tasks' = {}
      BY <1>5, <2>3 DEF Aggregation!SparkJoin
    <3>2. QED  BY <2>1, <2>3, <3>1, FilesStay DEF AggregationInv, Whole
  <2>4. QED  BY <2>1, <2>2, <2>3
<1>6. CASE \E p \in Partitions : Aggregation!Task(p)  BY <1>6, TaskStep
<1>7. CASE Aggregation!Validate
  <2>1. stage = "compute" /\ tasks = {} /\ Computed /\ baseline = Aggregation!Reference
    BY <1>7 DEF Aggregation!Validate, AggregationInv
  <2>2. result = baseline  BY <2>1, AllComputed
  <2>3. stage' = "written" /\ UNCHANGED Aggregation!files /\ UNCHANGED <<hash, baseline, result, tasks>>
    BY <1>7, <2>2 DEF Aggregation!Validate
  <2>4. Computed'  BY <2>1, <2>3, FilesStay DEF Computed
  <2>5. QED  BY <2>1, <2>3, <2>4, FilesStay DEF AggregationInv
<1>8. CASE Aggregation!Benchmark
  <2>1. /\ stage = "compute" /\ stage' = stage /\ tasks' = Partitions /\ result' = <<>> /\ baseline' = baseline
        /\ hash' \in [SessionKeys -> Partitions] /\ UNCHANGED Aggregation!files
    BY <1>8 DEF Aggregation!Benchmark
  <2>2. Computed'
    <3>1. \A k \in Keys : k \in SessionKeys  BY DEF Keys, AggregationInv, SessionFiles
    <3>2. {k \in Keys : hash'[k] \notin Partitions} = {}  BY <2>1, <3>1
    <3>3. DOMAIN result' = {} /\ result' = [k \in DOMAIN result' |-> result'[k]]  BY <2>1
    <3>4. QED  BY <2>1, <3>2, <3>3, FilesStay DEF Computed
  <2>3. QED  BY <2>1, <2>2, FilesStay DEF AggregationInv
<1>9. QED
  BY <1>1, <1>2, <1>3, <1>4, <1>5, <1>6, <1>7, <1>8 DEF Aggregation!Next

LEMMA AggregationHolds == BatchSpec => [](part = "aggregation" => AggregationInv)
<1>1. BatchInit => (part = "aggregation" => AggregationInv)  BY AggregationStart DEF BatchInit
<1>2. [BatchNext]_<<part, vars, databaseVars, aggregationVars, snapshotVars, servicesVars, consoleVars, streamVars>>
        => part' = part /\ (part = "aggregation" => [Aggregation!Next]_(Aggregation!vars))
  BY DEF BatchNext, aggregationVars, Aggregation!vars, Aggregation!files
<1>3. (part = "aggregation" => AggregationInv)
      /\ [BatchNext]_<<part, vars, databaseVars, aggregationVars, snapshotVars, servicesVars, consoleVars, streamVars>>
        => (part = "aggregation" => AggregationInv)'
  BY <1>2, AggregationStep
<1>4. QED  BY <1>1, <1>3, PTL DEF BatchSpec

-----------------------------------------------------------------------------
(* The programs together.                                                   *)

LEMMA EventsMove == BatchSpec => Spec
<1>1. BatchInit => Init  BY DEF BatchInit
<1>2. [BatchNext]_<<part, vars, databaseVars, aggregationVars, snapshotVars, servicesVars, consoleVars, streamVars>>
      => [Next]_vars
  BY DEF BatchNext
<1>3. QED  BY <1>1, <1>2, PTL DEF BatchSpec, Spec

LEMMA DatabaseMoves == BatchSpec => Database!Spec
<1>1. BatchInit => Database!Init  BY DEF BatchInit
<1>2. [BatchNext]_<<part, vars, databaseVars, aggregationVars, snapshotVars, servicesVars, consoleVars, streamVars>>
      => [Database!Next]_Database!vars
  BY DEF BatchNext, databaseVars, Database!vars, Database!data, Database!outside
<1>3. QED  BY <1>1, <1>2, PTL DEF BatchSpec, Database!Spec

\* While run_migration.py waits for its answer no second one is started (~Overlap).
LEMMA DatabaseHolds == ASSUME ~Overlap PROVE BatchSpec => [](DatabaseInv /\ Database!VerdictHonest)
<1>1. Given  BY DatabaseAssumption DEF Given
<1>2. Database!Spec => [](DatabaseInv /\ Database!VerdictHonest)  BY <1>1, DatabaseInvariance
<1>3. QED  BY <1>2, DatabaseMoves, PTL

\* The tables of both hold what they may hold: numbers and offsets of the log (produce_events.py,
\* consumers.py); rows that satisfy the checks of the schema they are in and of the next one, and
\* have their parents; no id that the shared sequence still gives out (migrations 001 to 005).
THEOREM BatchTypesCorrect == ASSUME ~Overlap PROVE BatchSpec => []BatchTypeOK
<1>1. DatabaseInv => Database!TypeOK /\ Database!StatusesUpgrade /\ Database!SequenceAhead
  BY RowsFit, DatabaseAssumption DEF Given
<1>2. TypeOK /\ DatabaseInv => BatchTypeOK  BY <1>1 DEF BatchTypeOK
<1>3. QED  BY <1>2, DatabaseHolds, EventsMove, TypeCorrect, PTL

\* The canonical views show exactly the rows that were imported, in the schema of every
\* migration, whatever the applications write (001: created_by_app_user_id IS NULL; 002:
\* record_origin = 'imported').
THEOREM CanonicalStays == ASSUME ~Overlap PROVE BatchSpec => []CanonicalIsImported
<1>1. DatabaseInv => Database!CanonicalIsImported  BY CanonicalIs DEF DatabaseInv
<1>2. DatabaseInv => CanonicalIsImported  BY <1>1 DEF CanonicalIsImported
<1>3. QED  BY <1>2, DatabaseHolds, PTL

\* The evidence of the migration scripts is true: a migrated database has the snapshot that
\* run_migration_002.py took before, and what a verifier that passes claims holds of all rows,
\* though it looks at a few counts only.  The run checks this as the first part of EvidenceTrue.
THEOREM MigrationEvidence ==
    ASSUME ~Overlap PROVE BatchSpec => [](Database!SnapshotIsBefore /\ Database!VerdictHonest)
<1>1. DatabaseInv => Database!SnapshotIsBefore
  BY DEF DatabaseInv, DataOK, SchemaOK, EvidenceOK, Database!SnapshotIsBefore
<1>2. QED  BY <1>1, DatabaseHolds, PTL

LEMMA SnapshotMoves == BatchSpec => Snapshot!Spec
<1>1. BatchInit => Snapshot!Init  BY DEF BatchInit
<1>2. [BatchNext]_<<part, vars, databaseVars, aggregationVars, snapshotVars, servicesVars, consoleVars, streamVars>>
      => [Snapshot!Next]_Snapshot!vars
  BY DEF BatchNext, snapshotVars, Snapshot!vars, Snapshot!database
<1>3. QED  BY <1>1, <1>2, PTL DEF BatchSpec, Snapshot!Spec

\* A reconciliation of session 3 that passes vouches for the counts, session metrics and summary
\* of the complete files, and in a run of everything for the lists too, for any number of imports
\* that start and stop between its reads (pipeline.py: prepare, run_reconcile).
THEOREM VerdictStands == BatchSpec => []VerdictCovers
<1>1. SnapshotInv => VerdictCovers  BY DEF SnapshotInv, VerdictCovers
<1>2. QED  BY <1>1, SnapshotInvariance, SnapshotMoves, PTL

\* Whatever the other programs do, a reconciliation that passes vouches for every core sink, and
\* the two lags of a group agree (reconcile.py, consumers.py).
THEOREM EverythingReconciled == BatchSpec => []ReconciledEverywhere
<1>1. ReconciledSinks /\ LagsAgree => ReconciledEverywhere  BY DEF ReconciledEverywhere
<1>2. QED  BY <1>1, EventsMove, ReconciliationVouches, BothLagsAgree, PTL

\* The evidence that the scripts leave and the windows that start them is true: of the migrations
\* as above; of the window of session 1, where a stage's row says how its script ended once all
\* messages are drained, and PASS stands over rows that passed; of the window of session 2, where
\* a chain of stages ends and stage_state is true unless scripts overlapped (gui.py of both).
THEOREM EvidenceStands == ASSUME ~Overlap PROVE BatchSpec => []EvidenceTrue
<1>1. DatabaseInv => Database!SnapshotIsBefore
  BY DEF DatabaseInv, DataOK, SchemaOK, EvidenceOK, Database!SnapshotIsBefore
<1>2. DatabaseInv /\ Database!VerdictHonest /\ PipelineInv /\ TabInv /\ StreamInv => EvidenceTrue
  BY <1>1, IdleIsTrue, WindowIsTrue DEF TabInv, ShownOK, EvidenceTrue
<1>3. QED
  BY <1>2, DatabaseHolds, PipelineInvariance, PassStaysTrue, ConsoleMoves, StreamInvariance, StreamMoves, PTL

\* A call of any method over either transport is answered with rows of the snapshot, those it asked
\* for, in their order and without a gap, or fails for a reason; and every call is counted once,
\* however many threads count (service_core.py, rest_server.py, grpc_server.py).
THEOREM AnswersAreExact == BatchSpec => []ServedExactly
<1>1. ServicesInv => ServedExactly  BY ServedIsTrue DEF ServedExactly
<1>2. QED  BY <1>1, ServicesInvariance, ServicesMoves, PTL

\* Whatever the files, the sessions' partitions and the order of the tasks, pandas and Spark compute
\* what the metrics mean, and the validation refuses nothing (join.py, metrics.py, pipeline.py).
THEOREM BatchIsExact == BatchSpec => []ParallelIsSequential
<1>1. (part = "aggregation" => AggregationInv) => ParallelIsSequential  BY ComputedIsTrue DEF ParallelIsSequential
<1>2. QED  BY <1>1, AggregationHolds, PTL

=============================================================================
