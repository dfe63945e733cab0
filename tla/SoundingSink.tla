---------------------------- MODULE SoundingSink ----------------------------
(***************************************************************************)
(* The demand-sounding sink: SubmitJob and the capacity sampler hand       *)
(* events to a bounded channel without ever blocking; one goroutine drains *)
(* it into batches, writes each batch by kind, drops what a failing write  *)
(* held, and drains what is buffered when its context is cancelled.        *)
(*                                                                         *)
(* Atomicity.  A send, a receive, and the write of one kind's group are    *)
(* each an action; recordRejection sends two events one after the other,   *)
(* and other requests send in between.  While the goroutine writes it does *)
(* not receive, so the channel fills.                                      *)
(*                                                                         *)
(* Abstractions.  An event is its kind and the order in which it was       *)
(* handed over.  A group's INSERTs are one round trip that succeeds or     *)
(* fails as a whole.                                                       *)
(***************************************************************************)
EXTENDS Naturals, Sequences, FiniteSets, SequencesExt

CONSTANTS
    Callers,     \* requests and samplers that hand events over
    BufferSize,  \* capacity of the channel
    BatchSize,   \* events that trigger a flush
    MaxEvents    \* bound: events handed over

ASSUME SinkAssumption == {BufferSize, BatchSize} \subseteq Nat \ {0} /\ MaxEvents \in Nat

VARIABLES
    ch,       \* Sink.ch
    batch,    \* the goroutine's batch
    writing,  \* kinds of the batch still to be written, <<>> between flushes
    written,  \* rows of each table, in the order they were inserted
    lost,     \* events of groups whose write failed
    dropped,  \* events that found the channel full
    sink,     \* the goroutine: running, draining after cancel, ending with
              \* its last flush, stopped
    caller,   \* what each caller has still to hand over
    next      \* number of the next event

sinkVars == <<ch, batch, writing, written, lost, dropped, sink, caller, next>>

-----------------------------------------------------------------------------
(* Data *)

\* The order in which writeBatch writes the groups.
Kinds == <<"shape", "rejection", "capacity">>

Events == [no : 1 .. MaxEvents, kind : ToSet(Kinds)]

\* recordPlacement, recordRejection, and one round of the sampler with two groups.
Bursts == {<<"shape">>, <<"shape", "rejection">>, <<"capacity", "capacity">>}

\* Variant: a group is built from the last event of the batch to the first.
GroupReversed(k) == Reverse(SelectSeq(batch, LAMBDA e : e.kind = k))

Group(k) == SelectSeq(batch, LAMBDA e : e.kind = k)

-----------------------------------------------------------------------------
(* Callers *)

Observe(c, burst) ==
    /\ caller[c] = <<>>
    /\ next + Len(burst) <= MaxEvents + 1
    /\ caller' = [caller EXCEPT ![c] = burst]
    /\ UNCHANGED <<ch, batch, writing, written, lost, dropped, sink, next>>

\* A send on the buffered channel proceeds.
HasRoom == Len(ch) < BufferSize

enqueue(c) ==
    /\ caller[c] # <<>>
    /\ next <= MaxEvents
    /\ LET e == [no |-> next, kind |-> Head(caller[c])]
       IN  IF HasRoom
           THEN ch' = Append(ch, e) /\ UNCHANGED dropped
           ELSE dropped' = dropped \cup {e} /\ UNCHANGED ch
    /\ next' = next + 1
    /\ caller' = [caller EXCEPT ![c] = Tail(@)]
    /\ UNCHANGED <<batch, writing, written, lost, sink>>

-----------------------------------------------------------------------------
(* The goroutine *)

\* Variant: a flush keeps the batch.
KeptBatch == batch

\* batch[:0].
EmptyBatch == <<>>

SinkReceive ==
    /\ sink \in {"running", "draining"} /\ writing = <<>>
    /\ ch # <<>>
    /\ batch' = Append(batch, Head(ch))
    /\ ch' = Tail(ch)
    /\ writing' = IF Len(batch') >= BatchSize THEN Kinds ELSE <<>>
    /\ UNCHANGED <<written, lost, dropped, sink, caller, next>>

\* The ticker.
Tick ==
    /\ sink = "running" /\ writing = <<>>
    /\ batch # <<>>
    /\ writing' = Kinds
    /\ UNCHANGED <<ch, batch, written, lost, dropped, sink, caller, next>>

\* The next group of the batch is written, or dropped when the write fails;
\* after the last one the batch is empty again.
writeGroup(ok) ==
    /\ writing # <<>>
    /\ LET k == Head(writing)
       IN  /\ ~ok => Group(k) # <<>>
           /\ written' = [written EXCEPT ![k] = IF ok THEN @ \o Group(k) ELSE @]
           /\ lost' = IF ok THEN lost ELSE lost \cup ToSet(Group(k))
    /\ writing' = Tail(writing)
    /\ batch' = IF Len(writing) = 1 THEN EmptyBatch ELSE batch
    /\ UNCHANGED <<ch, dropped, sink, caller, next>>

\* The default branch of the drain: nothing is buffered.
Drained == sink = "draining" /\ writing = <<>> /\ ch = <<>>

\* ctx.Done is chosen.
Cancel ==
    /\ sink = "running" /\ writing = <<>>
    /\ sink' = "draining"
    /\ UNCHANGED <<ch, batch, writing, written, lost, dropped, caller, next>>

\* The last flush, after which nothing is received any more.
FinalFlush ==
    /\ Drained
    /\ sink' = "ending"
    /\ writing' = IF batch = <<>> THEN <<>> ELSE Kinds
    /\ UNCHANGED <<ch, batch, written, lost, dropped, caller, next>>

SinkStop ==
    /\ sink = "ending" /\ writing = <<>>
    /\ sink' = "stopped"
    /\ UNCHANGED <<ch, batch, writing, written, lost, dropped, caller, next>>

-----------------------------------------------------------------------------
SinkInit ==
    /\ ch = <<>> /\ batch = <<>> /\ writing = <<>>
    /\ written = [k \in ToSet(Kinds) |-> <<>>]
    /\ lost = {} /\ dropped = {}
    /\ sink = "running"
    /\ caller = [c \in Callers |-> <<>>]
    /\ next = 1

run ==
    \/ SinkReceive \/ Tick \/ FinalFlush \/ SinkStop
    \/ \E ok \in BOOLEAN : writeGroup(ok)

SinkNext ==
    \/ \E c \in Callers, burst \in Bursts : Observe(c, burst)
    \/ \E c \in Callers : enqueue(c)
    \/ Cancel
    \/ run

SinkSpec == SinkInit /\ [][SinkNext]_sinkVars

SinkFairSpec == SinkSpec /\ WF_sinkVars(run)

-----------------------------------------------------------------------------
(* Properties *)

SinkRows == UNION {ToSet(written[k]) : k \in DOMAIN written}

\* Events the goroutine holds that no write of the current flush has settled.
Held == {e \in ToSet(batch) : e \notin SinkRows \cup lost}

\* The variables keep their types; the channel and the batch keep within
\* BufferSize and BatchSize.
SinkTypeOK ==
    /\ ch \in Seq(Events) /\ Len(ch) <= BufferSize
    /\ batch \in Seq(Events) /\ Len(batch) <= BatchSize
    /\ IsSuffix(writing, Kinds)
    /\ written \in [ToSet(Kinds) -> Seq(Events)]
    /\ lost \subseteq Events /\ dropped \subseteq Events
    /\ sink \in {"running", "draining", "ending", "stopped"}
    /\ caller \in [Callers -> Seq(ToSet(Kinds))]
    /\ next \in 1 .. MaxEvents + 1

\* Every event handed to enqueue is in exactly one place: counted as dropped,
\* buffered, in the batch, in its table, or lost with a failed write.  No row
\* is written twice, whatever the order of sends, flushes and the cancel.
Conserved ==
    /\ {e.no : e \in dropped \cup ToSet(ch) \cup ToSet(batch) \cup SinkRows \cup lost}
          = 1 .. next - 1
    /\ next - 1 = Cardinality(dropped) + Len(ch) + Cardinality(Held) + Cardinality(lost)
                  + Len(written["shape"]) + Len(written["rejection"]) + Len(written["capacity"])

\* Each table receives its events in the order they were handed over.
WrittenInOrder ==
    \A k \in DOMAIN written : \A i, j \in DOMAIN written[k] :
        i < j => written[k][i].no < written[k][j].no

\* The sink's goroutine settles whatever it has accepted: an event that is
\* buffered before its last flush is written or lost with a failed write,
\* also when the context is cancelled in between.
AcceptedSettled ==
    \A n \in 1 .. MaxEvents :
        (sink \in {"running", "draining"} /\ \E e \in ToSet(ch) : e.no = n)
            ~> \E e \in SinkRows \cup lost : e.no = n
=============================================================================
