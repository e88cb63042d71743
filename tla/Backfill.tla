------------------------------ MODULE Backfill -------------------------------
(***************************************************************************)
(* The initial copy of one collection: migrateCollection of migrator.go,   *)
(* the BackfillPartitionTracker that bookmarks its progress and the plan   *)
(* that a later run makes from the checkpoint file.                        *)
(*                                                                         *)
(* The reader cuts the documents, sorted by _id, into batches; workers     *)
(* write them in parallel and acknowledge them to the tracker; per _id     *)
(* type the tracker saves the greatest _id of the acknowledged prefix of   *)
(* batches, from which (inclusive) the next run continues.  The process    *)
(* may be cancelled, or crash, and be started again.                       *)
(*                                                                         *)
(* The documents are 1 .. NumDocs in _id order and do not change during    *)
(* the copy.  The collection is small enough to be read sequentially.      *)
(***************************************************************************)
EXTENDS Integers, FiniteSetsExt, Sequences

CONSTANTS
  NumDocs,
  IdType,           (* document -> $type of its _id                           *)
  DiscoveryCanFail, (* whether the query for the types present may fail       *)
  Workers,          (* initialMigrationWorkers                                *)
  BatchSize,        (* initialWriteBatchSize                                  *)
  ChannelCapacity,  (* initialChannelBufferSize                               *)
  SaveThreshold,    (* acknowledged batches that force a save                 *)
  Resilient,        (* failed documents go to the DLQ; otherwise fail fast    *)
  WriteErrors,      (* whether the target may refuse documents                *)
  ReadsCanFail,     (* whether the source may refuse the query or a document  *)
  SavesCanFail,     (* whether writing the checkpoint file may fail           *)
  CanCancel,        (* whether a signal may cancel the run                    *)
  CanCrash          (* whether the process may stop and be started again      *)

Docs == 1 .. NumDocs

(* The _id types the discovery probes. *)
CandidateBSONTypes ==
  {"objectId", "string", "number", "date", "binData", "bool", "timestamp"}

ASSUME BackfillAssumption ==
  /\ NumDocs \in Nat \ {0}
  /\ IdType \in [Docs -> STRING]
  \* a sort by _id sorts by type first
  /\ \A c, d, e \in Docs : c < d /\ d < e /\ IdType[c] = IdType[e] => IdType[c] = IdType[d]
  /\ {BatchSize, ChannelCapacity, SaveThreshold} \subseteq Nat \ {0}
  /\ {DiscoveryCanFail, Resilient, WriteErrors, ReadsCanFail, SavesCanFail,
      CanCancel, CanCrash} \subseteq BOOLEAN

VARIABLES
  file,               (* the checkpoint file                                  *)
  checkpoint,         (* the checkpoint of the tracker, the last one saved    *)
  batches,            (* sequence number -> documents of the batch            *)
  pruned,             (* lastCheckpointSeq: the batches up to it left pendingSeqs *)
  acked,              (* batches whose Acked flag is set                      *)
  ackCountSinceSave,
  completed,          (* MarkCompleted was called                             *)
  phase,              (* "plan", "read", "send", "last", "wait", "close",     *)
                      (* "returned": where migrateCollection is               *)
  unread,             (* documents the cursor has still to return             *)
  batchChan,
  errorChan,          (* whether it holds an error                            *)
  worker,             (* worker -> [at |-> "receive", "write", "ack" or       *)
                      (* "exited", seq |-> its batch]                         *)
  cancelled,
  target,             (* documents in the target collection                   *)
  dlq                 (* documents in the dead letter queue                   *)

tracker == <<checkpoint, batches, pruned, acked, ackCountSinceSave, completed>>
stages == <<phase, unread, batchChan, errorChan, worker, cancelled>>
outcome == <<target, dlq>>
vars == <<file, tracker, stages, outcome>>

Handled == target \cup dlq
Idle == [at |-> "receive", seq |-> 0]
Gone == [at |-> "exited", seq |-> 0]

-----------------------------------------------------------------------------
(* The checkpoint and the query filter made from it. *)

(* TypeProgress: type -> SavedLastID, 0 when no document of it was saved. *)
NoCheckpoint == [progress |-> <<>>, completed |-> FALSE]

(* ValidateCheckpointSet rejects a checkpoint without types: a fresh start. *)
Fresh(cp) == DOMAIN cp.progress = {}

(* $type and an inclusive lower bound, which compares values of one type only. *)
InRange(d, cp) ==
  /\ IdType[d] \in DOMAIN cp.progress
  /\ LET bookmark == cp.progress[IdType[d]] IN
       bookmark # 0 => IdType[bookmark] = IdType[d] /\ bookmark <= d

(* The documents the next run reads, given the checkpoint file. *)
ToRead(cp) ==
  IF Fresh(cp) THEN Docs
  ELSE {d \in Docs : ~ cp.completed /\ InRange(d, cp)}

(* GetBSONType: the type under which a document is bookmarked. *)
GetBSONType(d) == IF IdType[d] \in CandidateBSONTypes THEN IdType[d] ELSE "string"

(* An _id that is null is not bookmarked. *)
OfType(docs, t) == {d \in docs : IdType[d] # "null" /\ GetBSONType(d) = t}

(* RegisterBatch: the greatest _id of a type in a batch; values that cannot be
   compared leave the first one. *)
MaxDocID(docs, t) ==
  LET first == Min(OfType(docs, t)) IN
    IF IdType[first] = t THEN Max({d \in OfType(docs, t) : IdType[d] = t}) ELSE first

-----------------------------------------------------------------------------
Init ==
  /\ file = NoCheckpoint
  /\ checkpoint = NoCheckpoint
  /\ batches = <<>>
  /\ pruned = 0
  /\ acked = {}
  /\ ackCountSinceSave = 0
  /\ completed = FALSE
  /\ phase = "plan"
  /\ unread = {}
  /\ batchChan = <<>>
  /\ errorChan = FALSE
  /\ worker = [w \in Workers |-> Idle]
  /\ cancelled = FALSE
  /\ target = {}
  /\ dlq = {}

(* DetermineBackfillResumptionPlan and what migrateCollection makes of it. *)
AlreadyCompleted ==
  /\ phase = "plan"
  /\ ~ Fresh(file) /\ file.completed
  /\ phase' = "returned"
  /\ UNCHANGED <<file, tracker, unread, batchChan, errorChan, worker, cancelled, outcome>>

ResumeDirectly ==
  /\ phase = "plan"
  /\ ~ Fresh(file) /\ ~ file.completed
  /\ checkpoint' = file
  /\ unread' = ToRead(file)
  /\ phase' = "read"
  /\ UNCHANGED <<file, batches, pruned, acked, ackCountSinceSave, completed,
                 batchChan, errorChan, worker, cancelled, outcome>>

(* A stale file is deleted; the types are discovered unless the query fails. *)
StartFresh ==
  /\ phase = "plan"
  /\ Fresh(file)
  /\ file' = NoCheckpoint
  /\ \E types \in {{IdType[d] : d \in Docs} \cap CandidateBSONTypes}
                     \cup IF DiscoveryCanFail THEN {{}} ELSE {} :
       checkpoint' = [progress |-> [t \in types |-> 0], completed |-> FALSE]
  /\ unread' = Docs
  /\ phase' = "read"
  /\ UNCHANGED <<batches, pruned, acked, ackCountSinceSave, completed,
                 batchChan, errorChan, worker, cancelled, outcome>>

-----------------------------------------------------------------------------
(* saveCheckpointsLocked, when the Acked flags are those of a, count batches
   were acknowledged since the last save, and finished is t.completed. *)

AckedPrefix(a) ==
  {q \in pruned + 1 .. Len(batches) : \A p \in pruned + 1 .. q : p \in a}

(* The progress after the batches of prefix, a later batch overriding. *)
Advanced(prefix) ==
  LET having(t) == {q \in prefix : OfType(batches[q], t) # {}}
      types == DOMAIN checkpoint.progress
                 \cup {t \in CandidateBSONTypes : having(t) # {}}
  IN [t \in types |-> IF having(t) = {} THEN checkpoint.progress[t]
                                        ELSE MaxDocID(batches[Max(having(t))], t)]

saveCheckpointsLocked(a, count, finished) ==
  /\ acked' = a
  /\ \/ /\ file' = [progress |-> Advanced(AckedPrefix(a)),
                    completed |-> checkpoint.completed \/ finished]
        /\ checkpoint' = file'
        /\ pruned' = pruned + Cardinality(AckedPrefix(a))
        /\ ackCountSinceSave' = 0
     \/ /\ SavesCanFail
        /\ ackCountSinceSave' = count
        /\ UNCHANGED <<file, checkpoint, pruned>>

-----------------------------------------------------------------------------
(* The reader: the loop of migrateCollection. *)

(* Mutation of NextDocs: a cursor without the sort. *)
AnyDocs == {docs \in SUBSET unread :
              Cardinality(docs) = IF Cardinality(unread) < BatchSize
                                  THEN Cardinality(unread) ELSE BatchSize}

(* The documents up to the next full batch, or up to the end of the cursor. *)
NextDocs ==
  IF Cardinality(unread) <= BatchSize THEN {unread}
  ELSE {docs \in SUBSET unread : /\ Cardinality(docs) = BatchSize
                                 /\ \A d \in docs, e \in unread \ docs : d < e}

(* Mutation of ReadBatch: the documents of an incomplete batch are left out. *)
ReadFullBatch ==
  /\ phase = "read"
  /\ ~ errorChan
  /\ \E docs \in NextDocs :
       /\ unread' = unread \ docs
       /\ IF Cardinality(docs) < BatchSize
          THEN phase' = "wait" /\ batches' = batches
          ELSE phase' = "send" /\ batches' = Append(batches, docs)
  /\ UNCHANGED <<file, checkpoint, pruned, acked, ackCountSinceSave, completed,
                 batchChan, errorChan, worker, cancelled, outcome>>

(* Read documents and register them with the tracker as a batch. *)
ReadBatch ==
  /\ phase = "read"
  /\ ~ errorChan
  /\ \E docs \in NextDocs :
       /\ unread' = unread \ docs
       /\ batches' = IF docs = {} THEN batches ELSE Append(batches, docs)
       /\ phase' = CASE docs = {} -> "wait"
                     [] Cardinality(docs) = BatchSize -> "send"
                     [] OTHER -> "last"
  /\ UNCHANGED <<file, checkpoint, pruned, acked, ackCountSinceSave, completed,
                 batchChan, errorChan, worker, cancelled, outcome>>

(* Mutation of SendBatch: it does not wait for room in the channel. *)
SendUnbounded ==
  /\ phase \in {"send", "last"}
  /\ batchChan' = Append(batchChan, Len(batches))
  /\ phase' = IF phase = "send" THEN "read" ELSE "wait"
  /\ UNCHANGED <<file, tracker, unread, errorChan, worker, cancelled, outcome>>

SendBatch ==
  /\ phase \in {"send", "last"}
  /\ Len(batchChan) < ChannelCapacity
  /\ batchChan' = Append(batchChan, Len(batches))
  /\ phase' = IF phase = "send" THEN "read" ELSE "wait"
  /\ UNCHANGED <<file, tracker, unread, errorChan, worker, cancelled, outcome>>

(* Mutation of StopOnError: not while the batch is sent. *)
StopOnErrorBetweenBatches ==
  /\ phase \in {"read", "wait"}
  /\ errorChan
  /\ errorChan' = FALSE
  /\ phase' = "close"
  /\ UNCHANGED <<file, tracker, unread, batchChan, worker, cancelled, outcome>>

(* A worker failed: noticed between batches, while sending and while waiting. *)
StopOnError ==
  /\ phase \in {"read", "send", "last", "wait"}
  /\ errorChan
  /\ errorChan' = FALSE
  /\ phase' = "close"
  /\ UNCHANGED <<file, tracker, unread, batchChan, worker, cancelled, outcome>>

(* The context is cancelled: noticed by the cursor, while sending and waiting. *)
StopOnCancel ==
  /\ phase \in {"read", "send", "last", "wait"}
  /\ cancelled
  /\ phase' = "close"
  /\ UNCHANGED <<file, tracker, unread, batchChan, errorChan, worker, cancelled, outcome>>

(* The query, decoding a document or the cursor fails: the documents read since the
   last full batch are given up, and batchChan is closed as it is. *)
ReadFails ==
  /\ ReadsCanFail
  /\ phase = "read"
  /\ phase' = "close"
  /\ UNCHANGED <<file, tracker, unread, batchChan, errorChan, worker, cancelled, outcome>>

(* doneChan is closed once every worker has returned, for whatever reason; the
   last select takes any of doneChan, errorChan and ctx.Done() that is ready. *)
Finish ==
  /\ phase = "wait"
  /\ \A w \in Workers : worker[w].at = "exited"
  /\ completed' = TRUE
  /\ saveCheckpointsLocked(acked, ackCountSinceSave, TRUE)   \* MarkCompleted
  /\ phase' = "returned"
  /\ UNCHANGED <<batches, unread, batchChan, errorChan, worker, cancelled, outcome>>

(* The deferred tracker.Close(); workers may still be running. *)
CloseTracker ==
  /\ phase = "close"
  /\ saveCheckpointsLocked(acked, ackCountSinceSave, FALSE)
  /\ phase' = "returned"
  /\ UNCHANGED <<batches, completed, unread, batchChan, errorChan, worker, cancelled, outcome>>

-----------------------------------------------------------------------------
(* The workers. *)
Batch(w) == batches[worker[w].seq]

Receive(w) ==
  /\ worker[w].at = "receive"
  /\ batchChan # <<>>
  /\ worker' = [worker EXCEPT ![w] = [at |-> "write", seq |-> Head(batchChan)]]
  /\ batchChan' = Tail(batchChan)
  /\ UNCHANGED <<file, tracker, phase, unread, errorChan, cancelled, outcome>>

(* batchChan is closed and empty. *)
WorkerExits(w) ==
  /\ worker[w].at = "receive"
  /\ batchChan = <<>>
  /\ phase \in {"wait", "close", "returned"}
  /\ worker' = [worker EXCEPT ![w] = Gone]
  /\ UNCHANGED <<file, tracker, phase, unread, batchChan, errorChan, cancelled, outcome>>

(* writeBatch: the documents reach the target in any order; one that is there
   already is skipped. *)
Insert(w) ==
  /\ worker[w].at = "write"
  /\ \E d \in Batch(w) \ Handled : target' = target \cup {d}
  /\ UNCHANGED <<file, tracker, stages, dlq>>

(* Resilient mode: what could not be written is recorded. *)
RecordFailure(w) ==
  /\ Resilient /\ WriteErrors
  /\ worker[w].at = "write"
  /\ \E d \in Batch(w) \ Handled : dlq' = dlq \cup {d}
  /\ UNCHANGED <<file, tracker, stages, target>>

(* writeBatch returns without an error.  In resilient mode a cancelled write
   does so too, and the DLQ takes no cancellations. *)
EndWrite(w) ==
  /\ worker[w].at = "write"
  /\ Batch(w) \subseteq Handled \/ (Resilient /\ cancelled)
  /\ worker' = [worker EXCEPT ![w].at = "ack"]
  /\ UNCHANGED <<file, tracker, phase, unread, batchChan, errorChan, cancelled, outcome>>

(* writeBatch returns an error: a failure in fail-fast mode, or a cancelled wait
   for the throttler.  errorChan holds one error, others are dropped. *)
WriteFails(w) ==
  /\ worker[w].at = "write"
  /\ (~ Resilient /\ WriteErrors) \/ cancelled
  /\ errorChan' = TRUE
  /\ worker' = [worker EXCEPT ![w] = Gone]
  /\ UNCHANGED <<file, tracker, phase, unread, batchChan, cancelled, outcome>>

(* A batch written under a cancelled context is not acknowledged. *)
SkipAck(w) ==
  /\ worker[w].at = "ack"
  /\ cancelled
  /\ worker' = [worker EXCEPT ![w] = Idle]
  /\ UNCHANGED <<file, tracker, phase, unread, batchChan, errorChan, cancelled, outcome>>

(* Mutation of AckBatch: without the check of the context. *)
AckAnyway(w) ==
  /\ worker[w].at = "ack"
  /\ worker' = [worker EXCEPT ![w] = Idle]
  /\ saveCheckpointsLocked(acked \cup {worker[w].seq}, ackCountSinceSave + 1, FALSE)
  /\ UNCHANGED <<batches, completed, phase, unread, batchChan, errorChan, cancelled, outcome>>

(* Saved when the threshold is met or the interval has elapsed. *)
AckBatch(w) ==
  LET a == acked \cup {worker[w].seq}
      count == ackCountSinceSave + 1
  IN /\ worker[w].at = "ack"
     /\ ~ cancelled
     /\ worker' = [worker EXCEPT ![w] = Idle]
     /\ \/ /\ ~ completed
           /\ saveCheckpointsLocked(a, count, FALSE)
        \/ /\ completed \/ count < SaveThreshold
           /\ acked' = a
           /\ ackCountSinceSave' = count
           /\ UNCHANGED <<file, checkpoint, pruned>>
     /\ UNCHANGED <<batches, completed, phase, unread, batchChan, errorChan,
                    cancelled, outcome>>

-----------------------------------------------------------------------------
(* The ticker of the tracker, which outlives migrateCollection. *)
Tick ==
  /\ phase # "plan"
  /\ ~ completed
  /\ ackCountSinceSave > 0
  /\ saveCheckpointsLocked(acked, ackCountSinceSave, FALSE)
  /\ UNCHANGED <<batches, completed, stages, outcome>>

Cancel ==
  /\ CanCancel /\ ~ cancelled
  /\ cancelled' = TRUE
  /\ UNCHANGED <<file, tracker, phase, unread, batchChan, errorChan, worker, outcome>>

(* The process crashed, or it ended and is started again. *)
Restart ==
  /\ CanCrash
  /\ checkpoint' = NoCheckpoint
  /\ batches' = <<>>
  /\ pruned' = 0
  /\ acked' = {}
  /\ ackCountSinceSave' = 0
  /\ completed' = FALSE
  /\ phase' = "plan"
  /\ unread' = {}
  /\ batchChan' = <<>>
  /\ errorChan' = FALSE
  /\ worker' = [w \in Workers |-> Idle]
  /\ cancelled' = FALSE
  /\ UNCHANGED <<file, outcome>>

PlanNext == AlreadyCompleted \/ ResumeDirectly \/ StartFresh
ReaderNext ==
  \/ ReadBatch \/ SendBatch
  \/ StopOnError \/ StopOnCancel \/ ReadFails
  \/ Finish \/ CloseTracker
WorkerNext(w) ==
  \/ Receive(w) \/ WorkerExits(w)
  \/ Insert(w) \/ RecordFailure(w) \/ EndWrite(w) \/ WriteFails(w)
  \/ SkipAck(w) \/ AckBatch(w)

Next ==
  \/ PlanNext
  \/ ReaderNext
  \/ \E w \in Workers : WorkerNext(w)
  \/ Tick
  \/ Cancel
  \/ Restart

Spec == Init /\ [][Next]_vars

(* The goroutines keep running. *)
FairSpec ==
  /\ Spec
  /\ WF_vars(PlanNext)
  /\ WF_vars(ReaderNext)
  /\ \A w \in Workers : WF_vars(WorkerNext(w))

-----------------------------------------------------------------------------
Checkpoints ==
  [progress : UNION {[T -> 0 .. NumDocs] : T \in SUBSET CandidateBSONTypes},
   completed : BOOLEAN]

TypeOK ==
  /\ file \in Checkpoints /\ checkpoint \in Checkpoints
  /\ batches \in Seq((SUBSET Docs) \ {{}})
  /\ pruned \in 0 .. Len(batches)
  /\ 1 .. pruned \subseteq acked /\ acked \subseteq 1 .. Len(batches)
  /\ ackCountSinceSave \in 0 .. Cardinality(acked)
  /\ completed \in BOOLEAN
  /\ phase \in {"plan", "read", "send", "last", "wait", "close", "returned"}
  /\ unread \subseteq Docs
  /\ batchChan \in Seq(1 .. Len(batches)) /\ Len(batchChan) <= ChannelCapacity
  /\ errorChan \in BOOLEAN
  /\ \A w \in Workers :
       \/ worker[w].at \in {"receive", "exited"} /\ worker[w].seq = 0
       \/ worker[w].at \in {"write", "ack"} /\ worker[w].seq \in 1 .. Len(batches)
  /\ cancelled \in BOOLEAN
  /\ target \subseteq Docs /\ dlq \subseteq Docs

(* migrateCollection, Backfill Resumption Safety: "to ensure no documents are
   skipped or duplicated upon resume".  Whenever the process stops, a document
   neither written nor recorded in the DLQ is matched by the filter that the
   next run makes from a checkpoint that is not completed. *)
BookmarkIsSafe ==
  ~ file.completed => Docs \ Handled \subseteq ToRead(file)

(* "Mark backfill checkpoint as completed and retain it on disk so subsequent
   resumption runs know this collection finished": a collection skipped by all
   later runs has every document written or recorded in the DLQ. *)
CompletedMeansDone ==
  file.completed => Docs \subseteq Handled

(* Batches are acknowledged in any order and the one bookmark is taken again by
   the next run; still no bookmark on disk moves back. *)
BookmarksAdvance ==
  [][\A t \in DOMAIN file.progress :
       /\ t \in DOMAIN file'.progress
       /\ file.progress[t] <= file'.progress[t]]_vars

(* The same of a run that was neither cancelled nor saw a worker fail, whatever
   happened to the runs before it: it marks the collection completed only when
   it has read and handled what all of them left. *)
CompletionIsEarned ==
  [][~ file.completed /\ file'.completed =>
       cancelled \/ errorChan \/ Docs \subseteq Handled']_vars

(* A run that is neither cancelled nor sees a worker fail copies the collection
   and completes its checkpoint, the incomplete last batch included. *)
BackfillCompletes ==
  <>[][~ Restart]_vars /\ [](~ cancelled /\ ~ errorChan) =>
    <>(file.completed /\ Docs = Handled)

(* However many workers fail, and wherever the reader is when they do, it does
   not wait for a worker that is gone. *)
MigrationReturns ==
  <>[][~ Restart]_vars => <>(phase = "returned")
=============================================================================
