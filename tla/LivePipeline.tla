---------------------------- MODULE LivePipeline ----------------------------
(***************************************************************************)
(* The live replication pipeline of parallel.go, from the change streams   *)
(* to the target collections:                                              *)
(*                                                                         *)
(*   reader per stream -> ingestQueue -> router -> batchingQueue[w] ->     *)
(*   eventLoop[w] (groups) -> batchWriteQueue[w] -> writer[w]              *)
(*                                                                         *)
(* Each arrow is a bounded Go channel and each stage a goroutine.  Every   *)
(* event is registered with the PartitionTracker when it is read and       *)
(* acknowledged when the pipeline is done with it.  The pipeline stops     *)
(* when its context is cancelled (a signal, a stream error) or when a drop *)
(* event is routed; the process may crash at any step and start again.     *)
(*                                                                         *)
(* All events are of one namespace.  What one group write does is modelled *)
(* in GroupWrite; here each operation of a group is written, or recorded   *)
(* in the dead letter queue (DLQ), or given up because of a cancellation.  *)
(***************************************************************************)
EXTENDS PartitionTracker, Sequences

CONSTANTS
  NumWorkers,        (* incrementalWorkerCount                                *)
  BatchSize,         (* incrementalWriteBatchSize                             *)
  GroupByDistinctId, (* groupOpsByDistinctId; otherwise groups have one opType *)
  IngestCapacity,    (* capacity of ingestQueue                               *)
  BatchingCapacity,  (* capacity of each batchingQueue                        *)
  WriteCapacity,     (* capacity of each batchWriteQueue                      *)
  Source,            (* stream -> position -> [doc, opType], the change streams *)
  WorkerOf,          (* document -> worker, the hash of documentKey._id       *)
  CanCancel,         (* whether a signal or a stream error may cancel         *)
  CanCrash           (* whether the process may stop and be started again     *)

Workers == 1 .. NumWorkers
Docs == DOMAIN WorkerOf

(* "nullUpdate": an update whose document was deleted before the lookup;
   "other": an operation type that is not replicated. *)
OpTypes == {"insert", "update", "replace", "delete", "nullUpdate", "other", "drop"}

ASSUME PipelineAssumption ==
  /\ NumWorkers \in Nat \ {0}
  /\ BatchSize \in Nat \ {0, 1}
  /\ {GroupByDistinctId, CanCancel, CanCrash} \subseteq BOOLEAN
  /\ {IngestCapacity, BatchingCapacity, WriteCapacity} \subseteq Nat \ {0}
  /\ WorkerOf \in [Docs -> Workers]
  /\ Source \in [Streams -> [1 .. MaxPosition -> [doc : Docs, opType : OpTypes]]]
  \* the partition filter sends all events of a document through one stream
  /\ \A s, t \in Streams : \A p, q \in 1 .. MaxPosition :
       Source[s][p].doc = Source[t][q].doc => s = t

VARIABLES
  reader,           (* per stream: "next", "push" (holds an event), "done"    *)
  ingestQueue,
  router,           (* "select", "push", "returned"                           *)
  routed,           (* the event the router holds while in "push"             *)
  batchingQueue,
  currentGroup,
  batchWriteQueue,
  eventLoop,        (* per worker: "running", "exited" (batchWriteQueue closed) *)
  writer,           (* per worker: [phase, group], see WriterIdle             *)
  cancelled,        (* cancelCtx                                              *)
  main,             (* worker that Shutdown waits for: 0 before the deferred  *)
                    (* shutdown, NumWorkers + 1 after it, then Closed         *)
  settled,          (* history: written, recorded in the DLQ or skipped by rule *)
  abandoned,        (* history: given up, neither written nor recorded        *)
  latest            (* history: per document, last position written this run  *)

stages == <<reader, ingestQueue, router, routed, batchingQueue, currentGroup,
            batchWriteQueue, eventLoop, writer, cancelled, main>>
history == <<settled, abandoned, latest>>
vars == <<trackerVars, stages, history>>

Event(s, q) == [stream |-> s, seq |-> q]
Position(e) == resumedAt[e.stream] + e.seq
Change(e) == Source[e.stream][Position(e)]
DocOf(e) == Change(e).doc
Held(s) == Event(s, SeqToGive(s) - 1)   \* the event a reader in "push" holds

Closed == NumWorkers + 2
WriterIdle == [phase |-> "receive", group |-> <<>>, graceful |-> FALSE]

Elements(seq) == {seq[i] : i \in DOMAIN seq}

-----------------------------------------------------------------------------
FreshStages ==
  /\ reader = [s \in Streams |-> "next"]
  /\ ingestQueue = <<>>
  /\ router = "select"
  /\ routed = <<>>
  /\ batchingQueue = [w \in Workers |-> <<>>]
  /\ currentGroup = [w \in Workers |-> <<>>]
  /\ batchWriteQueue = [w \in Workers |-> <<>>]
  /\ eventLoop = [w \in Workers |-> "running"]
  /\ writer = [w \in Workers |-> WriterIdle]
  /\ cancelled = FALSE
  /\ main = 0

Init ==
  /\ TrackerInit
  /\ FreshStages
  /\ settled = [s \in Streams |-> {}]
  /\ abandoned = [s \in Streams |-> {}]
  /\ latest = [d \in Docs |-> 0]

Settle(events) ==
  settled' = [s \in Streams |->
    settled[s] \cup {Position(e) : e \in {x \in events : x.stream = s}}]

Abandon(events) ==
  abandoned' = [s \in Streams |->
    abandoned[s] \cup {Position(e) : e \in {x \in events : x.stream = s}}]

-----------------------------------------------------------------------------
(* Readers. *)

(* changeStream.Next returned an event: register it. *)
Read(s) ==
  /\ reader[s] = "next"
  /\ Register(s)
  /\ reader' = [reader EXCEPT ![s] = "push"]
  /\ UNCHANGED <<ingestQueue, router, routed, batchingQueue, currentGroup,
                 batchWriteQueue, eventLoop, writer, cancelled, main, history>>

(* Mutation of Push: a channel without a bound. *)
PushUnbounded(s) ==
  /\ reader[s] = "push"
  /\ ingestQueue' = Append(ingestQueue, Held(s))
  /\ reader' = [reader EXCEPT ![s] = "next"]
  /\ UNCHANGED <<trackerVars, router, routed, batchingQueue, currentGroup,
                 batchWriteQueue, eventLoop, writer, cancelled, main, history>>

Push(s) ==
  /\ reader[s] = "push"
  /\ Len(ingestQueue) < IngestCapacity
  /\ ingestQueue' = Append(ingestQueue, Held(s))
  /\ reader' = [reader EXCEPT ![s] = "next"]
  /\ UNCHANGED <<trackerVars, router, routed, batchingQueue, currentGroup,
                 batchWriteQueue, eventLoop, writer, cancelled, main, history>>

(* The other branch of the select: the event is acknowledged and dropped. *)
ReaderQuits(s) ==
  /\ cancelled
  /\ \/ /\ reader[s] = "push"
        /\ Ack(s, Held(s).seq)
        /\ Abandon({Held(s)})
     \/ /\ reader[s] = "next"             \* changeStream.Next is interrupted
        /\ UNCHANGED <<trackerVars, abandoned>>
  /\ reader' = [reader EXCEPT ![s] = "done"]
  /\ UNCHANGED <<ingestQueue, router, routed, batchingQueue, currentGroup,
                 batchWriteQueue, eventLoop, writer, cancelled, main, settled, latest>>

(* changeStream.Next failed or the cursor closed: setError cancels. *)
StreamFails(s) ==
  /\ CanCancel
  /\ reader[s] = "next"
  /\ reader' = [reader EXCEPT ![s] = "done"]
  /\ cancelled' = TRUE
  /\ UNCHANGED <<trackerVars, ingestQueue, router, routed, batchingQueue,
                 currentGroup, batchWriteQueue, eventLoop, writer, main, history>>

(* The parent context is cancelled: a signal. *)
Cancel ==
  /\ CanCancel
  /\ ~ cancelled
  /\ cancelled' = TRUE
  /\ UNCHANGED <<trackerVars, reader, ingestQueue, router, routed,
                 batchingQueue, currentGroup, batchWriteQueue, eventLoop, writer,
                 main, history>>

-----------------------------------------------------------------------------
(* Router: the consumer loop of EventDistributor.Start. *)

RouterReceives ==
  /\ router = "select"
  /\ ingestQueue # <<>>
  /\ ingestQueue' = Tail(ingestQueue)
  /\ LET e == Head(ingestQueue) IN
       \/ /\ Change(e).opType = "drop"       \* returned as an error, not acknowledged
          /\ router' = "returned"
          /\ UNCHANGED <<trackerVars, routed, settled>>
       \/ /\ Change(e).opType = "other"
          /\ Ack(e.stream, e.seq)
          /\ Settle({e})
          /\ UNCHANGED <<router, routed>>
       \/ /\ Change(e).opType \notin {"drop", "other"}
          /\ routed' = <<e>>
          /\ router' = "push"
          /\ UNCHANGED <<trackerVars, settled>>
  /\ UNCHANGED <<reader, batchingQueue, currentGroup, batchWriteQueue, eventLoop,
                 writer, cancelled, main, abandoned, latest>>

(* Mutation of RouterPushes: any worker takes any document. *)
RouterPushesAnywhere ==
  /\ router = "push"
  /\ \E w \in Workers :
       /\ Len(batchingQueue[w]) < BatchingCapacity
       /\ batchingQueue' = [batchingQueue EXCEPT ![w] = Append(@, routed[1])]
  /\ routed' = <<>>
  /\ router' = "select"
  /\ UNCHANGED <<trackerVars, reader, ingestQueue, currentGroup,
                 batchWriteQueue, eventLoop, writer, cancelled, main, history>>

RouterPushes ==
  /\ router = "push"
  /\ LET w == WorkerOf[DocOf(routed[1])] IN
       /\ Len(batchingQueue[w]) < BatchingCapacity
       /\ batchingQueue' = [batchingQueue EXCEPT ![w] = Append(@, routed[1])]
  /\ routed' = <<>>
  /\ router' = "select"
  /\ UNCHANGED <<trackerVars, reader, ingestQueue, currentGroup,
                 batchWriteQueue, eventLoop, writer, cancelled, main, history>>

(* Cancelled at either select; the event in hand is acknowledged and dropped,
   those left in ingestQueue are not acknowledged. *)
RouterQuits ==
  /\ cancelled
  /\ \/ /\ router = "push"
        /\ Ack(routed[1].stream, routed[1].seq)
        /\ Abandon({routed[1]})
     \/ /\ router = "select"
        /\ UNCHANGED <<trackerVars, abandoned>>
  /\ routed' = <<>>
  /\ router' = "returned"
  /\ UNCHANGED <<reader, ingestQueue, batchingQueue, currentGroup, batchWriteQueue,
                 eventLoop, writer, cancelled, main, settled, latest>>

(* The supervisor closed ingestQueue after the last reader, and it is empty. *)
RouterDone ==
  /\ router = "select"
  /\ ingestQueue = <<>>
  /\ \A s \in Streams : reader[s] = "done"
  /\ router' = "returned"
  /\ UNCHANGED <<trackerVars, reader, ingestQueue, routed, batchingQueue,
                 currentGroup, batchWriteQueue, eventLoop, writer, cancelled, main,
                 history>>

-----------------------------------------------------------------------------
(* eventLoop of worker w. *)

NeedNewGroup(group, e) ==
  /\ group # <<>>
  /\ \/ Len(group) >= BatchSize
     \/ /\ GroupByDistinctId
        /\ \E o \in Elements(group) : DocOf(o) = DocOf(e)
     \/ /\ ~ GroupByDistinctId
        /\ Change(group[1]).opType # Change(e).opType

(* ProcessEvent.  An event whose group has to be pushed stays in batchingQueue
   until batchWriteQueue has room. *)
ProcessEvent(w) ==
  /\ eventLoop[w] = "running"
  /\ batchingQueue[w] # <<>>
  /\ batchingQueue' = [batchingQueue EXCEPT ![w] = Tail(@)]
  /\ LET e == Head(batchingQueue[w])
         new == NeedNewGroup(currentGroup[w], e)
         group == IF new THEN <<e>> ELSE Append(currentGroup[w], e)
         full == Len(group) >= BatchSize
         pushed == (IF new THEN <<currentGroup[w]>> ELSE <<>>)
                   \o (IF full THEN <<group>> ELSE <<>>)
     IN \/ /\ Change(e).opType = "nullUpdate"
           /\ Ack(e.stream, e.seq)
           /\ Settle({e})
           /\ UNCHANGED <<currentGroup, batchWriteQueue>>
        \/ /\ Change(e).opType # "nullUpdate"
           /\ Len(batchWriteQueue[w] \o pushed) <= WriteCapacity
           /\ batchWriteQueue' = [batchWriteQueue EXCEPT ![w] = @ \o pushed]
           /\ currentGroup' = [currentGroup EXCEPT ![w] = IF full THEN <<>> ELSE group]
           /\ UNCHANGED <<trackerVars, settled>>
  /\ UNCHANGED <<reader, ingestQueue, router, routed, eventLoop, writer, cancelled,
                 main, abandoned, latest>>

flushCurrentGroup(w) ==
  LET pushed == IF currentGroup[w] = <<>> THEN <<>> ELSE <<currentGroup[w]>> IN
    /\ Len(batchWriteQueue[w] \o pushed) <= WriteCapacity
    /\ batchWriteQueue' = [batchWriteQueue EXCEPT ![w] = @ \o pushed]
    /\ currentGroup' = [currentGroup EXCEPT ![w] = <<>>]

(* Mutation of FlushTick: only a full group is flushed. *)
FlushTickWhenFull(w) ==
  /\ eventLoop[w] = "running"
  /\ Len(currentGroup[w]) >= BatchSize
  /\ flushCurrentGroup(w)
  /\ UNCHANGED <<trackerVars, reader, ingestQueue, router, routed,
                 batchingQueue, eventLoop, writer, cancelled, main, history>>

(* The ticker: the group is older than flushInterval. *)
FlushTick(w) ==
  /\ eventLoop[w] = "running"
  /\ currentGroup[w] # <<>>
  /\ flushCurrentGroup(w)
  /\ UNCHANGED <<trackerVars, reader, ingestQueue, router, routed,
                 batchingQueue, eventLoop, writer, cancelled, main, history>>

(* batchingQueue is closed and empty, or the context is cancelled: in the second
   case the events left in batchingQueue are neither written nor acknowledged. *)
EventLoopExits(w) ==
  /\ eventLoop[w] = "running"
  /\ \/ main >= w /\ batchingQueue[w] = <<>>
     \/ cancelled
  /\ flushCurrentGroup(w)
  /\ eventLoop' = [eventLoop EXCEPT ![w] = "exited"]
  /\ UNCHANGED <<trackerVars, reader, ingestQueue, router, routed,
                 batchingQueue, writer, cancelled, main, history>>

-----------------------------------------------------------------------------
(* processBatchWriteQueue of worker w. *)

(* executeBatchWrite fixes the context of the write: a fresh one with a timeout
   when w.ctx is cancelled already, a child of w.ctx otherwise. *)
StartWrite(w) ==
  /\ writer[w].phase = "receive"
  /\ batchWriteQueue[w] # <<>>
  /\ batchWriteQueue' = [batchWriteQueue EXCEPT ![w] = Tail(@)]
  /\ writer' = [writer EXCEPT ![w] =
       [phase |-> "write", group |-> Head(batchWriteQueue[w]), graceful |-> cancelled]]
  /\ UNCHANGED <<trackerVars, reader, ingestQueue, router, routed,
                 batchingQueue, currentGroup, eventLoop, cancelled, main, history>>

(* The positions of the operations on document d among events. *)
Written(d, events) == {Position(e) : e \in {x \in events : DocOf(x) = d}}

Write(events) ==
  latest' = [d \in Docs |-> IF Written(d, events) = {} THEN latest[d]
                                                    ELSE Max(Written(d, events))]

(* Every operation is written or recorded in the DLQ; or the write is canceled
   and the operations it did not get to are neither retried nor recorded. *)
EndWrite(w) ==
  /\ writer[w].phase = "write"
  /\ writer' = [writer EXCEPT ![w].phase = "ack"]
  /\ LET ops == Elements(writer[w].group) IN
       \E done \in IF cancelled /\ ~ writer[w].graceful THEN SUBSET ops ELSE {ops} :
         /\ Settle(done)
         /\ Abandon(ops \ done)
         /\ \E recorded \in SUBSET done : Write(done \ recorded)
  /\ UNCHANGED <<trackerVars, reader, ingestQueue, router, routed, batchingQueue,
                 currentGroup, batchWriteQueue, eventLoop, cancelled, main>>

(* Mutation of AckOperation: acknowledged before the outcome of the write. *)
AckDuringWrite(w) ==
  LET e == Head(writer[w].group)
      rest == Tail(writer[w].group)
  IN /\ writer[w].phase \in {"write", "ack"}
     /\ Ack(e.stream, e.seq)
     /\ writer' = [writer EXCEPT ![w] =
                     IF rest = <<>> THEN WriterIdle ELSE [@ EXCEPT !.group = rest]]
     /\ UNCHANGED <<reader, ingestQueue, router, routed, batchingQueue, currentGroup,
                    batchWriteQueue, eventLoop, cancelled, main, history>>

(* Mutation of AckOperation: the sequence number is off by one. *)
AckNextSeq(w) ==
  LET e == Head(writer[w].group)
      rest == Tail(writer[w].group)
  IN /\ writer[w].phase = "ack"
     /\ Ack(e.stream, e.seq + 1)
     /\ writer' = [writer EXCEPT ![w] =
                     IF rest = <<>> THEN WriterIdle ELSE [@ EXCEPT !.group = rest]]
     /\ UNCHANGED <<reader, ingestQueue, router, routed, batchingQueue, currentGroup,
                    batchWriteQueue, eventLoop, cancelled, main, history>>

(* The deferred acknowledgements, one operation after the other. *)
AckOperation(w) ==
  LET e == Head(writer[w].group)
      rest == Tail(writer[w].group)
  IN /\ writer[w].phase = "ack"
     /\ Ack(e.stream, e.seq)
     /\ writer' = [writer EXCEPT ![w] =
                     IF rest = <<>> THEN WriterIdle ELSE [@ EXCEPT !.group = rest]]
     /\ UNCHANGED <<reader, ingestQueue, router, routed, batchingQueue, currentGroup,
                    batchWriteQueue, eventLoop, cancelled, main, history>>

(* Mutation of WriterExits: the loop selects on w.ctx.Done() as well. *)
WriterExitsOnCancel(w) ==
  /\ writer[w].phase = "receive"
  /\ cancelled \/ (batchWriteQueue[w] = <<>> /\ eventLoop[w] = "exited")
  /\ writer' = [writer EXCEPT ![w].phase = "exited"]
  /\ UNCHANGED <<trackerVars, reader, ingestQueue, router, routed, batchingQueue,
                 currentGroup, batchWriteQueue, eventLoop, cancelled, main, history>>

(* The range loop ends once batchWriteQueue is closed and empty. *)
WriterExits(w) ==
  /\ writer[w].phase = "receive"
  /\ batchWriteQueue[w] = <<>>
  /\ eventLoop[w] = "exited"
  /\ writer' = [writer EXCEPT ![w].phase = "exited"]
  /\ UNCHANGED <<trackerVars, reader, ingestQueue, router, routed, batchingQueue,
                 currentGroup, batchWriteQueue, eventLoop, cancelled, main, history>>

-----------------------------------------------------------------------------
(* The deferred calls of Start: Shutdown of each worker in turn, which closes
   its batchingQueue and waits for its goroutines, then the final save and the
   cancellation of the readers that still run. *)
Shutdown ==
  /\ \/ main = 0 /\ router = "returned"
     \/ /\ main \in Workers
        /\ eventLoop[main] = "exited"
        /\ writer[main].phase = "exited"
  /\ main' = main + 1
  /\ UNCHANGED <<trackerVars, reader, ingestQueue, router, routed, batchingQueue,
                 currentGroup, batchWriteQueue, eventLoop, writer, cancelled, history>>

CloseTracker ==
  /\ main = NumWorkers + 1
  /\ Close
  /\ main' = Closed
  /\ cancelled' = TRUE
  /\ UNCHANGED <<reader, ingestQueue, router, routed, batchingQueue, currentGroup,
                 batchWriteQueue, eventLoop, writer, history>>

(* The tracker's ticker, stopped by Close. *)
TrackerTicks ==
  /\ main # Closed
  /\ Tick
  /\ UNCHANGED <<stages, history>>

(* The process crashed, or it ended and is started again. *)
Restart ==
  /\ CanCrash
  /\ RestartTracker
  /\ reader' = [s \in Streams |-> "next"]
  /\ ingestQueue' = <<>>
  /\ router' = "select"
  /\ routed' = <<>>
  /\ batchingQueue' = [w \in Workers |-> <<>>]
  /\ currentGroup' = [w \in Workers |-> <<>>]
  /\ batchWriteQueue' = [w \in Workers |-> <<>>]
  /\ eventLoop' = [w \in Workers |-> "running"]
  /\ writer' = [w \in Workers |-> WriterIdle]
  /\ cancelled' = FALSE
  /\ main' = 0
  /\ latest' = [d \in Docs |-> 0]
  /\ UNCHANGED <<settled, abandoned>>

ReaderNext(s) == Read(s) \/ Push(s) \/ ReaderQuits(s)
RouterNext == RouterReceives \/ RouterPushes \/ RouterQuits \/ RouterDone
EventLoopNext(w) == ProcessEvent(w) \/ FlushTick(w) \/ EventLoopExits(w)
WriterNext(w) == StartWrite(w) \/ EndWrite(w) \/ AckOperation(w) \/ WriterExits(w)
MainNext == Shutdown \/ CloseTracker

Next ==
  \/ \E s \in Streams : ReaderNext(s) \/ StreamFails(s)
  \/ RouterNext
  \/ \E w \in Workers : EventLoopNext(w) \/ WriterNext(w)
  \/ MainNext
  \/ TrackerTicks
  \/ Cancel
  \/ Restart

Spec == Init /\ [][Next]_vars

(* Every goroutine keeps running, and so do the two tickers.  The drain of
   batchingQueue and the flush ticker are alternatives of one select, which Go
   chooses at random: each is fair on its own. *)
FairSpec ==
  /\ Spec
  /\ \A s \in Streams : WF_vars(ReaderNext(s))
  /\ WF_vars(RouterNext)
  /\ \A w \in Workers : WF_vars(ProcessEvent(w)) /\ WF_vars(FlushTick(w))
                       /\ WF_vars(EventLoopExits(w)) /\ WF_vars(WriterNext(w))
  /\ WF_vars(MainNext)
  /\ WF_vars(TrackerTicks)

-----------------------------------------------------------------------------
TypeOK ==
  LET Events == [stream : Streams, seq : 1 .. MaxPosition]
      SeqOf(S, n) == UNION {[1 .. k -> S] : k \in 0 .. n}
      OfEvents(seq, n) == Len(seq) <= n /\ Elements(seq) \subseteq Events
      OfGroups(seq, n) == Len(seq) <= n /\ \A g \in Elements(seq) :
                            g # <<>> /\ OfEvents(g, BatchSize)
  IN /\ TrackerTypeOK
     /\ reader \in [Streams -> {"next", "push", "done"}]
     /\ router \in {"select", "push", "returned"}
     /\ OfEvents(ingestQueue, IngestCapacity)
     /\ OfEvents(routed, 1) /\ (routed # <<>> <=> router = "push")
     /\ \A w \in Workers :
          /\ OfEvents(batchingQueue[w], BatchingCapacity)
          /\ OfEvents(currentGroup[w], BatchSize - 1)
          /\ OfGroups(batchWriteQueue[w], WriteCapacity)
          /\ OfEvents(writer[w].group, BatchSize)
     /\ eventLoop \in [Workers -> {"running", "exited"}]
     /\ \A w \in Workers : /\ writer[w].phase \in {"receive", "write", "ack", "exited"}
                           /\ writer[w].graceful \in BOOLEAN
     /\ cancelled \in BOOLEAN
     /\ main \in 0 .. Closed
     /\ settled \in [Streams -> SUBSET (1 .. MaxPosition)]
     /\ abandoned \in [Streams -> SUBSET (1 .. MaxPosition)]
     /\ latest \in [Docs -> 0 .. MaxPosition]

(* No event is acknowledged before its outcome is decided: written, recorded in
   the DLQ, skipped by rule, or given up because of a cancellation. *)
AckedHasOutcome ==
  \A s \in Streams : acknowledged[s] \subseteq settled[s] \cup abandoned[s]

(* README, Failure recovery: replication resumes from the last checkpoint and
   no data is lost.  No event that the next run will not be sent again is
   neither written nor recorded. *)
NoLossBelowCheckpoint ==
  \A s \in Streams : 1 .. checkpoint[s] \subseteq settled[s]

(* README: changes to the same document are applied in order.  Within a run the
   operations on a document reach the target in the order of its stream, over
   all queues, workers, groups and the shutdown. *)
OrderPerDocument ==
  [][\A d \in Docs : latest'[d] < latest[d] => Restart]_vars

(* Safety Fix 6: shutting down drains what the event loops flushed.  When the
   final tokens are saved no group is left unwritten and every acknowledgement
   of a written operation has been given. *)
GroupsDrainedAtClose ==
  main = Closed => \A w \in Workers :
    /\ currentGroup[w] = <<>>
    /\ batchWriteQueue[w] = <<>>
    /\ writer[w].group = <<>>

(* The pipeline uses the tracker as PartitionTracker allows: it acknowledges
   only what was registered in this run. *)
UsesTracker == TrackerSpec

(* A cancelled or dropped pipeline comes to an end: no full queue or waiting
   goroutine keeps Shutdown from returning.  Only a restart of the process
   makes it run again. *)
Stopping == cancelled \/ router = "returned"
ShutdownCompletes == Stopping ~> main = Closed \/ ~ Stopping

(* Every event is written, recorded or skipped by rule, and its token saved. *)
AllReplicated ==
  <>[][~ Restart]_vars =>
    <>(\A s \in Streams : /\ settled[s] = 1 .. MaxPosition
                          /\ checkpoint[s] = MaxPosition)
=============================================================================
