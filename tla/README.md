# TLA+ specifications of mongodb-to-new

This directory holds the formal models of the MongoDB migration and replication
tool in `src/`: TLA+ modules of its concurrent and restartable parts, TLC
configurations that check them on small instances, and TLAPS proofs, for every
value of the constants, about the parts on which the safety of the data rests:
the tracker that decides which resume token is written to disk, the live pipeline
that uses it, the marks of a group write, the bookmarks of the copy, the write of
one of its batches, the resumption of a partitioned copy, the files that
replication starts from, and the oplog replicators with the dead letter queue.
Every safety property that a run checks is also a theorem.

Paths without a directory are under `src/pkg/migration/`.

- [The system](#the-system)
- [The modules](#the-modules)
- [The runs](#the-runs)
- [Bounds](#bounds)
- [Fairness](#fairness)
- [What is proved](#what-is-proved)
- [Where the code and its documents disagree](#where-the-code-and-its-documents-disagree)
- [What is not modelled](#what-is-not-modelled)
- [Plan](#plan)
- [Running](#running)

## The system

The tool copies MongoDB databases to MongoDB or Firestore and then keeps them up
to date from change streams. `Migrator.Start` (migrator.go) runs one of five
modes per database pair:

| mode | what it does |
| --- | --- |
| `migrate` | copies every collection once, fail-fast |
| `live` | takes a resume token, copies every collection (resilient, failures to the DLQ), then replicates from the token |
| `live-only` | replicates from saved tokens, from now, or from a given time |
| `capture-resume-token` | saves tokens of the present position and marks the backfill as somebody else's |
| `retry-dlq` | writes the failed documents of the dead letter queue again |

| component | state it keeps | operations | hard because of | must guarantee |
| --- | --- | --- | --- | --- |
| **Replication startup** (client_stream.go, resumetoken.go, migrationstate.go) | token files per stream partition, state file, backfill checkpoint | resolve, rescale, upgrade and verify tokens; capture; initial migration; open streams; recover from a lost history | files are written one after the other, the process may stop between any two and come back in another mode or with another partition count | no change falls between the copy and the streams; a running replication can be resumed |
| **Initial backfill** (migrator.go `migrateCollection`, backfill_*.go) | bookmark per `_id` type, pending batches, one checkpoint file per collection | plan, read, send, write, acknowledge, save, complete | parallel workers, batches finished in any order, failures and cancellation seen by a reader that may be blocked, crashes | no document is skipped by a resumed run; completed means done; the call returns |
| **Live pipeline** (parallel.go `EventDistributor`, `Worker`) | five kinds of bounded channels, one group per worker | read, route, group, flush, write, acknowledge, shut down | ten or more goroutines that block on each other, cancellation at every `select`, shutdown in stages | order per document, nothing lost below a token, shutdown terminates |
| **Partition tracker** (parallel.go `PartitionTracker`) | pending sequence numbers per stream, acknowledged flags, counter | Register, Ack, tick, Close | acknowledgements out of order, saves that fail, crashes between two files | a token on disk is never beyond an unacknowledged event |
| **Group write** (parallel.go `executeBatchWrite` and its fallbacks, dlq.go, retry.go) | marks per operation, DLQ ledger, active failed ids | bulk write, retry, individual fallback, DLQ record, tombstone | partial failures of ordered and unordered bulk writes, lost replies, retries of what was done, early returns | every operation is in the target or in the DLQ |
| **Batch write and retry manager** (migrator.go `writeBatch`, `processBatch`, retry.go) | what is still to be written of a batch, `proactiveSkipEnabled` | presence check, bulk insert, retry, individual fallback; halving, `_id` conversion, upserts of duplicates | lost replies, repetitions that meet their own documents, indices into parts of parts, errors told apart by their text | what returns without an error is written or recorded |
| **DLQ reprocessing** (migrator.go `reprocessDLQ`, dlq.go) | DLQ file, its temporary copy, state file | restore, set aside, scan, replay, sync the state, remove | a crash between two renames, a cancellation in the middle of a record, another mode started in between | no failed document disappears; a migration blocked on its failures can be unblocked |
| **Oplog replicators** (oplog_replicator*.go, initial_migrator*.go, oplog_timestamp.go) | timestamp file and its backup, state file, worker queues | capture, copy with cursor resumption, tail, distribute, save, shut down | the timestamp is saved ahead of the writes, senders on a closed channel, two versions that differ in small things | what is at or before the timestamp is on the target or on record |
| **Parallel reads and resumption** (parallel_read.go, migrator.go `migrateCollectionParallel`, backfill_resumption.go) | one checkpoint file per partition | count, partition by one of five strategies, load, validate, clamp, resample, read, complete | partition counts and boundaries that change between runs, types without bounds, files of two sets | no document is skipped or read twice; a finished collection is done |
| Index builds, throttler, transformation, statistics, compatibility report, configuration, logging | - | - | - | - |

They interact as follows. Startup decides by the files on disk, calls the
backfill for every collection, then opens the change streams and hands them to
the pipeline. The pipeline registers each event with the tracker when it is read
and acknowledges it when it is done; its writers perform group writes; the
tracker writes the token files startup reads the next time. Backfill and group
writes record failures in the DLQ, which `retry-dlq` replays. Sources without
change streams are replicated from the oplog by code of their own. Nothing but these
files survives a crash.

## The modules

```
Checkpointing        what a checkpoint promises
   ^ implements
PartitionTracker     the tracker and its token files         LivePipelineProofs
   ^ EXTENDS
LivePipeline         streams -> queues -> workers -> target     LivePipelineProofs
   assumes of one write what GroupWrite models
GroupWrite           one bulk write, its fallbacks, the DLQ      GroupWriteProofs

Backfill             the copy of one collection, its tracker     BackfillProofs
   assumes of one write what BatchWrite models
BatchWrite           one batch of the copy, retries, halving     BatchWriteProofs

Partitioning         how a collection is cut into partitions
   ^ EXTENDS
ParallelBackfill     partitions, files, plans of many starts     ParallelBackfillProofs

DeadLetterQueue      the DLQ file: records, tombstones, what is open
   ^ EXTENDS
RetryDLQ             the actions of -mode=retry-dlq
   ^ EXTENDS
OplogReplication     copy, tail, retry of the oplog replicators  OplogReplicationProofs

ReplicationStartup   the files, the modes, what starts where     ReplicationStartupProofs
Extrema              largest and smallest elements, for the proofs
MC...                instances for TLC: symmetry, streams, _id types, invocations
```

**Checkpointing** is the abstract specification: events of each stream are done
in any order and a checkpoint per stream moves forward over done events only.

**PartitionTracker** models every operation of `PartitionTracker`. A resume token
is the position of its event; an event with sequence number *q* of a run that
resumed after *r* is at position *r + q*, so sequence numbers start over after
`RestartTracker` while positions do not. `saveCheckpointsLocked` is one action
with `Ack`, `Tick` or `Close`, as the code holds the mutex over it; each token
file may or may not be written (`SavesCanFail`), which also stands for a crash
between two files. `acknowledged` is a history variable.

**LivePipeline** extends PartitionTracker and has one action per step of each
goroutine: `Read`, `Push`, `ReaderQuits`, `StreamFails` (readers),
`RouterReceives`, `RouterPushes`, `RouterQuits`, `RouterDone` (the loop of
`Start`), `ProcessEvent`, `FlushTick`, `EventLoopExits` (worker event loop),
`StartWrite`, `EndWrite`, `AckOperation`, `WriterExits` (worker writer),
`Shutdown`, `CloseTracker` (deferred calls), the tracker's ticker, `Cancel` and
`Restart`. A blocked channel operation is a guard on the length of the queue; a
`select` is a choice between enabled actions. Each acknowledgement performs the
tracker's whole step. `Restart` is also `ScanPartitionCheckpoints` and
`LoadResumeToken` for an unchanged partition count; readers may still acknowledge
after the final save, as in the code. `EndWrite` assumes that a write which was
not cancelled leaves every operation written or recorded: what GroupWrite checks.

**GroupWrite** is `executeBatchWrite` for one group: `Build`, the outcomes of the
bulk write (`BulkSucceeds`, `BulkRefused`, `BulkBroken`, `BulkGivenUp`,
`BulkCanceled`), the individual fallbacks (`Stores`, `StoresNothing`, `Fails`,
`FallbackCanceled`) and `Resolve`, the tombstone scan. The server's semantics of
ordered and unordered bulk writes are external definitions (`Reached`,
`Applied`, `PartlyApplied`). The index of a write error counts models where the
code uses it on operations, exactly as in `handleBulkWriteResult`. Both groupings
are in the model (`Groupings`). Three of its properties hold for groups of
distinct documents without transformation errors and unique indexes only, which
the predicate `Undisturbed` says; the others hold for all groups.

**Backfill** is `migrateCollection` with the `BackfillPartitionTracker`: the plan of
a run (`AlreadyCompleted`, `ResumeDirectly`, `StartFresh`), the reader (`ReadBatch`,
`SendBatch`, `StopOnError`, `StopOnCancel`, `ReadFails`, `Finish`, `CloseTracker`),
the workers (`Receive`, `Insert`, `RecordFailure`, `EndWrite`, `WriteFails`,
`SkipAck`, `AckBatch`, `WorkerExits`), the ticker, cancellation and restart. A
document is its rank in `_id` order and has a BSON type; `InRange` is the filter a
resumed run builds. The source does not change during the copy: changes are the
streams' concern. `ReadFails` is the query, a document or the cursor failing
(`ReadsCanFail`): on in `backfill_crash`, off in `backfill_returns`, which asks
whether a copy completes that only a failing target may stop.

**BatchWrite** is `writeBatch` for one batch, of which any part may be on the target
already. The resilient write (`TransformFails`, `SkipBatch`, `SkipPresent`,
`NoSkip`, `BulkInserted`, `InsertRefused`, `InsertBreaks`, `RetryFails`,
`RetryInterrupted`) falls back to single documents (`WritesOne`, `SkipsOne`,
`FailsOne`). The fail-fast write is `RetryWithSplit` over `processBatch`: its
recursion is the sequence `parts` of what is still to be written (`Halve`,
`ConvertIds`, `RetryDuplicates`, `BackOff`, `BackoffFails`, `FinishPart`). What the
server does with an unordered bulk write is external (`Duplicates`, `Accepted`,
`Stored`, `Breaks`). Backfill and ParallelBackfill take such a write for one step
with three outcomes; `WrittenOrRecorded` and `SuccessIsWritten` say that these are
all. Both hold where `_id`s stay distinct and no other index is unique
(`Undisturbed`).

**Partitioning** translates parallel_read.go: the number of partitions, the
strategies (sampled or extreme ObjectIDs, sampled numbers, remainders, string
prefixes, times, the mixture of types), which of them a start takes
(`Strategies`), and the filters they produce, as the set of the partitionings a call
may return. A filter is a clause per type, and `Matched` is the server's evaluation
of it. The code goes on when one of its queries fails or times out: the detection of
the strategy is replaced by "mixed", the probe for the types by a sample of all types
together, the sample of a type and the extreme `_id`s by uniform slices, which for
numbers are remainders and for other types string prefixes (parallel_read.go:89-97,
662-666, 812-815). `failing` of a collection says which of these queries may fail in
its runs, any time anew, so that two starts may cut one collection differently.

**ParallelBackfill** is `migrateCollectionParallel` and
`DetermineBackfillResumptionPlan`: each start makes its plan from the checkpoint
files (`AlreadyCompleted`, `MakePlan`), deletes files one by one (`DeleteFile`),
begins with the old partitions, new ones clamped to the global bookmarks, new ones
from the beginning, or a single one (`BeginDirect`, `BeginResampled`,
`BeginFresh`, `BeginSequential`), and its partitions proceed by `Read`, `Write`,
`Ack`, `WorkerFails`, `ReturnError`, `Complete`. `Restart` may happen at any step,
and the next start may see another count and another configuration. Batches have
one document here: Backfill has the larger ones. The error of a partition's reader
is no action of its own: the goroutine stops and saves as it does at an
acknowledgement that saves, so that it leaves the state of a partition that was not
scheduled again.

`CollectionsByRange` are the collections of the run: `Uniform`, whose detection may
fail, so that it is cut by samples, extreme `_id`s or time; `Strings`, whose sample
may fail, so that it is cut at sampled values or at prefixes; `Mixed`, with many
numbers; and `ByTime`. For the last two the run assumes that the queries they depend
on, the sample of the numbers and the extreme `_id`s, do not fail, and for all of
them that the probe does not. These are assumptions about the source database, and
the code does not ensure them: `Unsampled`, `Untimed` and `Unprobed` are the same
collections without them, and the table of disagreements says what then happens.

**DeadLetterQueue** is the file (append-only records and tombstones), **RetryDLQ**
has the steps of `reprocessDLQ` and `reprocessDLQLoop`, and **OplogReplication**
composes them with the process that fills the queue: the start with its safety
checks on the files (`StartLive`, `StartRetry`), `Capture`, the copy of
initial_migrator.go (`BeginCopy` to `SaveCopyStatus`, a cursor that may break and
is resumed), `tailOplog` (`OpenTail` to `Drained`), the goroutine that closes the
queues (`CloseQueue`), and the workers, each change being one step of theirs. The
modern and the legacy replicator differ in guards on `invocation.legacy`. The
process may be cancelled, killed, and started again in another mode. `abandoned`
is the history of the documents the code gives up without a record.

**ReplicationStartup** holds the files (`tokens`, `status`, the backfill
checkpoint `copyOf`/`copied`) and the process that reads and writes them, one
file per step. The source is a history of changes; a copy reflects at least what
was done before it began, a stream applies its changes in order, and a token may
be saved any time after that, which is what Backfill and LivePipeline establish
in detail. `abandoned` collects the changes that a run gives up without saying
so, `handled` those that are in the target, recorded in the DLQ or the user's own
affair (data restored by other means before `live-only`).

A definition named *Mutation of X* is a plausible bug in X. It is part of no
specification: each shows that the property it goes with can be violated.

## The runs

| run | question | answer |
| --- | --- | --- |
| `tracker_safety` | Can a token on disk be ahead of an unacknowledged event, whatever saves fail and whenever the process crashes? | No. `PartitionTracker` implements `Checkpointing`, and the counter of the ticker is not zero while an acknowledged prefix waits. |
| `pipeline_shutdown` | Does a cancelled pipeline, or one that met a drop event, end, with its flushed groups written and acknowledged? | Yes, with queues of a single slot. |
| `pipeline_crash` | Over crashes and restarts, is anything below a token lost, a document's order broken, the tracker misused, or an event never replicated? | No. |
| `group_write` | Does any early return let an operation out unmarked; is each operation of a group in the target or in the DLQ; are reported successes and resolved DLQ entries real? | Every operation is marked, in both groupings and with every failure. The rest holds in groups of distinct documents, over refused operations, lost replies and cancellation; for other groups see below. |
| `batch_write` | Is each document of a batch on the target or on record when the write returns, on the target when a fail-fast write reports success, whatever was refused, lost, repeated, converted and halved? Does it return? | Yes, where `_id`s stay distinct and no other index is unique; see below for the rest. |
| `backfill_crash` | Can a resumed run skip a document; can a bookmark move back; is completion earned? | It cannot, with two `_id` types, refused documents, failing reads and saves, cancellation and crashes. A cancelled run is the exception of the last. |
| `backfill_returns` | Does a failing fail-fast copy always return, and an undisturbed one complete? | Yes. |
| `partitions_resume` | Over any number of starts with changing partition counts, stops at any step and failing workers: is a document skipped or read twice, is a finished collection done, does the copy complete? | Nothing is skipped, and a run left alone completes, for collections cut by ranges of their own types, even where a failing detection or sample of strings cuts them in another way at the next start. It is not so for collections cut otherwise, or of which the sample of the numbers, the extreme `_id`s or the probe may fail: see below. Documents whose error was ignored by a partition that completed are the exception (`ignored`, see below). |
| `startup_all` | Over all modes, partition counts, old files, lost history and stops: does a running replication have every change behind or before it, and can it be resumed? | Yes, but for `abandoned` changes, and the second with at most two numbers of partitions (`TwoNumbers`); see below for three. |
| `oplog_all` | Over all modes of both oplog replicators, dry and index-only runs, retries, cancellations and kills: is what lies at or before the timestamp on the target or on record; can a blocked migration be unblocked? | Yes, but for `abandoned` changes. |
| `oplog_progress` | Do copy, save and retry end; does every change reach its worker? | Yes. |
| `oplog_shutdown` | And without the exception of `abandoned`? | **No**: see below. |

The properties worth knowing:

- `NoUnackedBelowCheckpoint`, `NoLossBelowCheckpoint`: the heart of the tool. The
  first relates the file to acknowledgements, the second to outcomes.
- `OrderPerDocument` (action property): `latest` of a document never decreases
  within a run, over four queues, two goroutines per worker and the shutdown.
- `GroupsDrainedAtClose`, `ShutdownCompletes`: the staged shutdown neither drops
  flushed groups nor waits for ever.
- `UsesTracker`: the pipeline's steps are steps of `PartitionTracker`, so what is
  proved of the tracker holds in the pipeline.
- `NoSilentLoss`, `SuccessIsReal`, `EveryOperationMarked`, `ResolvedIsCurrent`:
  the marks of a group write mean what they say.
- `BookmarkIsSafe`: documents without an outcome match the filter of the next run.
- `WrittenOrRecorded`, `SuccessIsWritten`, `WriteReturns`: the copy's own writes, with
  their five ways out, do not forget a document, and halving ends.
- `CompletionIsEarned`, `BackfillCompletes`, `MigrationReturns`.
- `NothingSkipped`, `PartitionsAreDisjoint`, `FinishedMeansDone`: the plan of a start
  fits the files of the earlier ones, whatever they planned for.
- `StreamsCoverAll`, `RestartResumes`: the files fit together.
- `AccountedFor`, `BlockedHasRecord`: state file, timestamp, DLQ, the file set aside
  and the queues agree on what is still to be done.
- `RunsProceed`, `CatchesUp`: the oplog replicators come to an end, and keep up.

Every property of a passing run has a mutation that TLC finds to violate it; they
are listed in `PROJECT.json`.

## Bounds

| run | instance | why it is enough |
| --- | --- | --- |
| `tracker_safety` | 2 streams of 3 events, threshold 2 | gaps in the acknowledged prefix, one stream ahead of the other, both sides of the threshold; TLAPS covers all values |
| `pipeline_shutdown` | 2 streams of 2 events, one worker, batches of 2, all queues of one slot | every queue can be full, one event can push two groups, a drop event and a cancellation compete |
| `pipeline_crash` | 2 streams of 3 events, 2 workers; operations on one document with another worker's in between, skipped events | a document's operations split over groups and restarts, tokens of two streams of different age |
| `group_write` | up to 3 operations on 3 documents, any mix of types, both groupings, all failures | an error before, between and behind other operations; several operations on a document |
| `batch_write` | 3 documents, any of them present, refused, with an invalid `_id` or in conflict; parts down to 1 document, 2 attempts (4 documents: 1.8 million states, no difference) | two levels of halving with parts of unequal length; an attempt before and after a lost reply |
| `backfill_crash` | 5 documents of 2 types, batches of 2, 2 workers, channel of 1 | an incomplete last batch, a batch of both types, acknowledgements out of order |
| `backfill_returns` | 7 documents, otherwise the same | more batches than workers and channel slots: the reader blocks after all workers are gone |
| `partitions_resume` | collections of 3 or 4 documents cut in four ways, two of which may change from start to start, counts of 4 or 8, at most 3 partitions or the sequential copy, 1 worker per partition with 2 documents in flight, 1 failure | from 2 to 3 partitions, to one and back; empty partitions; a gap in the acknowledged prefix |
| `startup_all` | 2 changes, 1 or 2 partitions (3 changes: 8 million states, no difference) | tokens of different age, scaling both ways, history lost before, between and after |
| `oplog_all` | 2 documents, 2 changes, 1 worker, queue of 1, batches of 2, 1 cursor resumption, save after 2 changes, 3 starts | a failure is recorded, set aside, and replayed or superseded in three different processes; 6.8 million states |
| `oplog_progress` | 2 documents, batches of 1, 2 starts, live and retry | a batch before and behind a broken cursor; a full queue |
| `oplog_shutdown` | 2 starts of `live-only` | a violation |

The set of values of a constant is also a bound: `Totals`, `MaxReadPartitions`,
`Invocations`. `MaxInFlight` of ParallelBackfill is the room of the channel and the
workers of a partition together; `MaxFailures` bounds the failures of a run.

Integers do not overflow in these components (sequence numbers are 64-bit).
Every bound is a constant: `MaxPosition`, `MaxOps`, `NumDocs`, `MaxChanges`,
`MaxRuns`, batch sizes and capacities. Streams, documents and workers are symmetric where the
specification does not tell them apart, and symmetry is not used with liveness.
Deadlock is checked only where nothing may stop: a finished pipeline, group or
backfill has no next step.

## Fairness

`FairSpec` of LivePipeline: weak fairness of each goroutine (readers, router,
writers, main), as the Go scheduler runs every runnable goroutine and the driver's
calls return or time out. `ProcessEvent`, `FlushTick` and `EventLoopExits` are
fair each on its own, because they are alternatives of one `select`, which Go
chooses at random: an alternative that stays ready is taken eventually. The
tracker's ticker is fair. Nothing is assumed of `Cancel`, `StreamFails` and
`Restart`; liveness across restarts is stated for executions in which restarts
cease (`<>[][~ Restart]_vars`). In `FairSpec` of Backfill the plan, the reader and
each worker are fair.

In `FairSpec` of BatchWrite the steps of the call are fair, all together: the call
goes on by itself, and what the target answers is left open.

In `FairSpec` of ParallelBackfill the plan and the partitions' goroutines are fair,
and the writes of documents that are not handled yet; failures and `Restart` are
not. In `FairSpec` of OplogReplication the main goroutine (`LiveStep`), the one
that closes the queues, the retry and each worker are fair, and so is
`cancelled /\ Crash`: after a signal the process ends within 15 seconds, whatever
its goroutines do (main.go:98-103). Nothing is assumed of changes, starts,
cancellations and other crashes.

## What is proved

Eight modules hold proofs, Extrema among them (largest and smallest elements of a
set of numbers). The theorems speak of every value of the constants: any number of
streams, events, workers, documents, partitions, retries and starts, any threshold,
batch size and capacity. Beside the named assumptions on the constants, which say no
more than their types, some have a hypothesis; it is part of the statement and
explained below.

**LivePipelineProofs**, the tracker (`TrackerAssumption`)

| theorem | statement |
| --- | --- |
| `Inductive` | `TrackerSpec => [](TrackerTypeOK /\ TrackerInv /\ SafePrefixCounted)` |
| `TypeCorrect` | `TrackerSpec => []TrackerTypeOK` |
| `CheckpointIsSafe` | `TrackerSpec => []NoUnackedBelowCheckpoint` |
| `NoPrefixForgotten` | `TrackerSpec => []SafePrefixCounted` |
| `Refinement` | `TrackerSpec => ImplementsCheckpointing` |

`NoUnackedBelowCheckpoint` is not inductive: it says nothing about memory, from
which the next token is taken. `TrackerInv` adds what memory must look like:

- `PendingIsWindow`: the pending sequence numbers are all those after the last one
  saved. The code never states this; it is why the acknowledged head of the slice
  is a prefix of the stream and not a set with gaps.
- `AckedRecorded`: what was pruned or is marked was acknowledged.
- `FileLagsMemory`: a token file is between where this run resumed and what memory
  believes to be saved; a failed save leaves it behind, never ahead.

`PrefixIsInterval` is about the data (the acknowledged head of a window is an
interval); `SaveStep` carries the invariant over `saveCheckpointsLocked` and is used
by every action that saves.

**LivePipelineProofs**, the pipeline (`PipelineAssumption`)

| theorem | statement |
| --- | --- |
| `PipelineTypeCorrect` | `Spec => []TypeOK` |
| `PipelineUsesTracker` | `Spec => UsesTracker` |
| `AckedIsDecided` | `Spec => []AckedHasOutcome` |
| `TokenCoversOutcomes` | below every token on disk each event has an outcome |
| `NothingLost` | `Spec => []NoLossBelowCheckpoint`, with `Streams # {}`, no dropped collections (`NoDrops`) and no cancellation |
| `ShutdownDrains` | `Spec => []GroupsDrainedAtClose` |
| `WritesAreOrdered` | `Spec => OrderPerDocument` |
| `PipelineImplementsCheckpointing` | `Spec => ImplementsCheckpointing` |

The invariant `HoldsRegistered` says that whatever a goroutine or queue holds was
registered by this run and not acknowledged since; from it each step of the
pipeline is a step of the tracker or none, so the theorems about the tracker hold
of the pipeline. `WritersDecided` adds that the operations a writer acknowledges
have their outcome, and `Drained` relates the stages of the shutdown to the queues.

`WritesAreOrdered` needs the way of an event through the stages. Seen from one
worker they form a chain, from the reader and the router over its two queues to the
group being collected and the one being written, in which the events of a stream are
in order (`ChainInv`) and no event overtakes its reader or goes to another worker
(`PlaceInv`). `LatestInv` joins this to the target: what was written of a document
lies before all that is in the chain or still to be read. A write takes the end of
the chain, so `latest` only grows.

**GroupWriteProofs** (`GroupAssumption`)

| theorem | statement |
| --- | --- |
| `TypeCorrect` | `Spec => []TypeOK` |
| `AllMarked` | `Spec => []EveryOperationMarked`, for both groupings and all failures |
| `NothingSilentlyLost` | `Spec => []NoSilentLoss`, unless `ForceOrdered` |
| `SuccessesAreReal` | `Spec => []SuccessIsReal`, unless `ForceOrdered` |
| `ResolvedAreCurrent` | `Spec => ResolvedIsCurrent`, unless `ForceOrdered` |

`AllMarked` follows the marks through the phases (`MarkInv`). The others rest on
`Honest`: every model that left the list of those to be written is in the target
or marked as failed, also after a reply that was lost. The last three properties
are those of undisturbed groups (`Undisturbed`).

**BatchWriteProofs** (`BatchAssumption`)

| theorem | statement |
| --- | --- |
| `WriteTypeCorrect` | `Spec => []TypeOK` |
| `NothingDropped` | `Spec => []WrittenOrRecorded` |
| `SuccessMeansWritten` | `Spec => []SuccessIsWritten` |

The last two follow from `Settled`: documents lie under their own `_id`s (`Owned`),
so a duplicate is the document itself; and each document is on the target or among
those still to be written, in whichever phase (`NoneForgotten`). `CutInTwo` is
the fact about sequences that halving needs. For the types, the parts are ascending
runs of the batch, one behind the other (`Ascending`).

**BackfillProofs** (`BackfillAssumption`, `KnownTypes`: the bookmarks know the type
of every `_id`)

| theorem | statement |
| --- | --- |
| `TypeCorrect` | `Spec => []TypeOK` |
| `ResumptionIsSafe` | `Spec => []BookmarkIsSafe` |
| `BookmarksOnlyAdvance` | `Spec => BookmarksAdvance` |
| `CompletionEarned` | `Spec => CompletionIsEarned`, with `Workers # {}` |

`BookmarkIsSafe` relates the file to outcomes; what keeps it is that batches are
read in `_id` order (`Ordered`), that an acknowledged batch has outcomes
(`AckedHandled`), that every document without one is read or still to be read
(`Covered`), and that the same holds of the checkpoint in memory and of the one on
disk (`Safe`). For the progress, `Matches` says that what is read matches the
filter, `Forward` that later batches lie above the bookmarks, and `Accounted` that
when the channels are closed each batch was acknowledged.

**ParallelBackfillProofs** (`ParallelBackfillAssumption`; hypothesis `CutsInOrder`)

| theorem | statement |
| --- | --- |
| `ResumptionTypeCorrect` | `Spec => []TypeOK` |
| `NothingIsSkipped` | `Spec => []NothingSkipped` |
| `FinishedIsDone` | `Spec => []FinishedMeansDone` |
| `PartitionsStayDisjoint` | `Spec => []PartitionsAreDisjoint` |
| `OwnRangesAreInOrder` | `CutByRanges(c) => CutInOrder(c)`, for every collection *c*: when the hypothesis holds |

A checkpoint is read as the set of documents its ranges still ask for (`Due`). The
invariant says that this set covers all that is missing, in each of the places where
the progress lives in turn: the files of a complete set (`FilesInv`), the smallest
safe `_id`s of a plan whose files are being deleted one by one (`PlanInv`), and the
partitions of a run (`RunInv`). `SavedRange` is the step from acknowledged batches to
a bookmark, `SafeIDs` that from the files of one set to the bound below which
everything is copied, `Clamping` that from the bound to new partitions.

`CutsInOrder` says what the code relies on, "since the partitions are sorted"
(backfill_resumption.go:261): every partitioning that may be chosen for a collection
has more than one partition, covers it, and cuts each of its types into ranges that
follow one another. It is no formality: the variants in the table below for which
documents are skipped (remainders, dates, guessed types, embedded documents, a
single partition) are those it excludes. `CutByRanges` says which collections are of
this kind by what they look like: the probe for the types does not fail and finds
every type; whichever strategy a start may take is that of their only type, or each
type is large enough for its sample, which does not fail, or consists of strings in
at most 256 partitions, or of ObjectIDs at both ends of the collection, which are
found; and the counts make for several partitions. Failures on which the order does
not depend, of the detection and of a sample of strings, are allowed.
`OwnRangesAreInOrder` proves it for all
samples, sizes and counts:
samples are sorted (`SampleRises`, by the ranks of their documents), bounds taken
from them or at equal distances rise, and ranges between rising bounds follow one
another and leave nothing out (`RangesAreSlices`). MCParallelBackfill evaluates both
predicates for its collections (`RangesAreInOrder`).

**ReplicationStartupProofs** (`StartupAssumption`)

| theorem | statement |
| --- | --- |
| `StartupTypeCorrect` | `Spec => []TypeOK` |
| `EveryChangeCovered` | `Spec => []StreamsCoverAll`, if no two changes have the same event time (`DistinctTimes`) |
| `RestartsResume` | `Spec => []RestartResumes`, if old files can be deleted (`~ DeletesCanFail`) |

They cover any number of restarts in any modes, any numbers of partitions, and files
of earlier versions; the second also deletions that fail. `StreamsCoverAll` speaks of
running streams only; the invariant says what the files mean while no stream runs:

- `Vouched`: once the state on disk says that the initial migration is over, every
  change below a token of its partition is settled (`AllDone`).
- `Agreement`: until then all files hold the one token captured before the copy, or
  nothing; `Owing`: what is below it is what the copy still owes.
- `Resolving`, `Checking`, `Copying`, `Streaming` carry these facts through the
  phases of a process, whose memory may be ahead of the files.

`WatermarkIsSafe` is the reason why rescaling loses nothing: below the token with
the earliest event time lies no change that is not below the token of its own
partition. It needs all files of the active number to be there, which the code
checks, and `DistinctTimes`, which it cannot: the table below has the violation
for equal times.

For `RestartsResume`, `Knowing` says what a process knows of the files it has read,
`Planned` that a rescale stopped at any point leaves no other files than the new ones
and those it is going to delete, and `Ready` that from the check of the tokens to
the streams the files are complete and not hidden by others. The property itself is
limited to two numbers of partitions (`TwoNumbers`); with a third, and with files
that cannot be deleted, the table below has the violations.

**OplogReplicationProofs** (`OplogAssumption`)

| theorem | statement |
| --- | --- |
| `OplogTypeCorrect` | `Spec => []TypeOK` |
| `NothingIsLost` | `Spec => []AccountedFor`, with `RetryFirst` |
| `BlockedStartsHaveRecords` | `Spec => []BlockedHasRecord`, with `RetryFirst` |

They hold for both replicators, all modes, dry and index-only runs, any number of
starts, and a kill at any step. `RetryFirst` is about the operator: a retry that was
killed is repeated before replicating again. Without it both properties are violated
(last row of the table below). The invariant has three layers:

- the process, by what it is about to do (`ProcessInv`): what is in memory in each
  phase and what the start has checked; `TempInv` for the file set aside,
- the changes between the tail and the target (`OrderInv`, `TailInv`): each worker has
  the changes of its documents in order, and behind a change that is pending every
  other change of its document is,
- each document, by the point of the oplog up to which the target, or the failure on
  record, has it: during a copy (`CopyBatchInv`, `CopyDoneInv`), a replay
  (`ReplayInv`) and at rest (`RestInv`); `KnownInv` for the worker's memory of the
  failures, `BlockedInv` for the state "completed with failures".

The proof of `NothingIsLost` corrected the model at one point: the legacy replicator
keeps an operator's `-live-start-timestamp` in memory only, so that on disk stays
what a save killed between its two steps left there (`KeepsStamp`,
oplog_replicator_legacy.go:180-191).

Only model-checked is liveness, eight properties: the prover reaches neither fairness
nor ENABLED. It has no induction over data and no recursive operators either; the
modules use none.

## Where the code and its documents disagree

With a run of its own:

- **The oplog timestamp is ahead of the writes** (`oplog_shutdown`,
  oplog_replicator.go:449-453). The tail saves the timestamp of the last change it
  has put into a queue; a process killed before the worker wrote it resumes behind
  it. The top-level README (line 458) says that the tool "automatically handles
  reconnection and resume from last processed timestamp".

Others are met by a change to a passing run. Each of these was reproduced; the
first column says what to change, other constants stay or may be made smaller.

| change | violated | what it shows |
| --- | --- | --- |
| `partitions_resume`: `Collections <- CollectionsByRemainder` | `NothingSkipped`, `FinishedMeansDone`, `PartitionsAreDisjoint` | few numbers are cut by remainders (parallel_read.go:822-833); the bookmark of the first unfinished partition then stands for all ("since the partitions are sorted", backfill_resumption.go:261), and documents below it are filtered out; clamping drops the `$mod` (backfill_resumption.go:385-405), so that two partitions read the same numbers |
| the same: `CollectionsUnsampled` | the same three | many numbers are cut by remainders too, when the query for their sample fails or takes more than three minutes (parallel_read.go:662-666) |
| the same: `CollectionsUntimed` | `NothingSkipped`, `FinishedMeansDone` | ObjectIDs are cut at string prefixes, when the query for the first or the last `_id` fails (parallel_read.go:812-815, 876-883) |
| the same: `Unprobed` | `NothingSkipped`, `FinishedMeansDone`, `BackfillCompletes` | after a failed probe the ranges are those of the types that were sampled |
| the same: one of `Dates`, `Guessed`, `Fallback`, `Embedded` | `NothingSkipped`, `FinishedMeansDone` | slices at string prefixes, or of the types that were sampled, miss the other documents |
| the same: `Negative` | `NothingSkipped`, `FinishedMeansDone`, `PartitionsAreDisjoint` | slices by positive remainders miss negative numbers |
| the same: `MaxReadPartitions = {1, 2}`, one collection at a time | `NothingSkipped` | a clamped filter may have nothing left (`{}`), which drops types that have no bookmark |
| the same: `FinishedMeansDone` without `ignored` | `FinishedMeansDone` | the final `select` of a partition may prefer `partitionDoneChan` to a worker's error (migrator.go:1678-1692) |
| `pipeline_crash`: `CanCancel = TRUE`, `MaxPosition = 2`, `Source <- Writes` | `NoLossBelowCheckpoint` | a cancelled reader or router acknowledges the event in its hands, and the final save passes it (parallel.go:292, 390) |
| the same: `SavesCanFail = TRUE` | `AllReplicated` | memory moves on before the token is written, and later ticks do not repeat the save (parallel.go:1689) |
| `group_write`: `Undisturbed` without its conjunct about groupings, or `ForceOrdered = TRUE` | `NoSilentLoss` | an ordered bulk write stops at the first error; what is behind it counts as written (parallel.go:1061) |
| the same without its conjunct about transformations | `SuccessIsReal` | error indices count models, not operations (parallel.go:1058) |
| the same without its conjunct about unique indexes | `NoSilentLoss` | a violated secondary index is taken for a concurrent upsert (parallel.go:1331) |
| `batch_write`: `Undisturbed` without `input.conflicting = {}` | `WrittenOrRecorded` | a duplicate key of another unique index counts as "the document exists on the target" (migrator.go:2060-2065) |
| the same | `SuccessIsWritten` | RetryWithSplit "with only the failed documents" takes indices of upserts for indices of the batch, writes the wrong ones again, and reports success (retry.go:276-290) |
| `batch_write`: `Undisturbed` without `~ input.collision` | both | two `_id`s of different types may become the same string (retry.go:360): one document is skipped or overwritten |
| `backfill_crash`: `DiscoveryCanFail = TRUE` | `BookmarkIsSafe` | without the discovered types a resumed run reads only types that were acknowledged (migrator.go:837) |
| the same: `IdType <- Embedded` | `BookmarkIsSafe` | embedded `_id` documents are bookmarked as strings (backfill_checkpoint.go:231) |
| the same with only `CanCancel`, or with `Resilient = FALSE` and only `WriteErrors`; `IdType <- OneType` | `CompletedMeansDone` | the final `select` may prefer `doneChan` to the cancellation or to a worker's error (migrator.go:1089-1090) |
| `startup_all`: `NothingMissed`, `Starts <- MigrateThenLive` | `NothingMissed` | a live run after a migration skips the copy and streams from now (migrator.go:778) |
| the same: a live start only, `HistoryCanExpire = TRUE` | `NothingMissed` | after a lost history the "initial migration again" finds the copy completed (client_stream.go:605) |
| `startup_all`: `PartitionOf <- Turns`, `Starts <- ThreeNumbers`, without `TwoNumbers` | `RestartResumes` | a rescale stopped between two files and done to a third number leaves its files on disk: cleaning up goes over the files of the active number only (client_stream.go:166), and the next start takes the larger number for the active one (resumetoken.go:418) and refuses, or resumes from the older tokens |
| `startup_all`: `DeletesCanFail = TRUE` | `RestartResumes` | an old token file that cannot be deleted shadows the new ones (client_stream.go:168) |
| the same: equal `EventTime`, `MaxPosition = 3`, `PartitionOf[2] = <<2, 2, 1>>` | `StreamsCoverAll` | of watermarks of one second the first partition's wins, not the older (client_stream.go:139) |
| `oplog_all`: `RetryFirst = FALSE`, `MaxRuns = 4`, `Invocations <- LiveThenRetry`, `BatchSize = 1` | `AccountedFor`, and `BlockedHasRecord` | a leftover file replaces the DLQ a live run has written since (migrator.go:2497), against "zero stale write overwrites" (migrator.go:2337) |

Also visible while modelling, without a property of its own:

- An index-only run in live mode marks the migration completed without data
  (client_stream.go:348), and so does one of the legacy oplog replicator; truncated
  copies are saved as completed (initial_migrator.go:104-108, 192-196, 229-262).
- Dry runs save tokens, the skipped state and timestamps and back up the DLQ, though
  the top-level README (line 544) says that nothing is committed.
- A start interrupted between two token files, between token and state
  (client_stream.go:275, 301), or between renaming and writing the timestamp
  (oplog_timestamp.go:20-36) is refused from then on.
- A retry cancelled at its last record drops it (dlq.go:77); "completed with
  failures" without a record on file blocks for ever; a retry killed between saving
  the state and removing the file set aside leaves records of both phases.
- When the DLQ file cannot be opened, failures are only logged (migrator.go:477).
- `Shutdown` of the oplog tail closes a queue under its sender (`SendPanics`).
- `TransformBatch` ignores the conversion of `_id`s unless another conversion is on
  (transform.go:424).

## What is not modelled

- Delays, backoff and jitter, the throttler, statistics, lag and compatibility
  reports, configuration, logging, database access: no decision about data depends
  on their state. A wait that ends early is a step of its own.
- Field transformation is a pure conversion; that it fails, and that it changes an
  `_id`, is in GroupWrite and BatchWrite.
- Index builds: a semaphore and a wait group before the copy.
- Several database pairs or namespaces: independent of each other; a pipeline of
  several namespaces has one group per namespace and worker flushed likewise.
- Backups of token files, which are only read when the main file is unreadable, and
  lines of the DLQ that were written in part.
- More than 256 partitions of strings are cut at prefixes of three digits, which do
  not sort by their value; the model takes the values.
- Update modifiers in oplog entries, reconnects of the oplog reader, a timestamp
  file that cannot be written, documents the copy cannot decode.
- The live migration of the change stream mode together with the DLQ file, which is
  backed up when a migration starts over (migrator.go:469): the composition of
  ReplicationStartup and DeadLetterQueue is beyond the checker at the bounds that
  matter. The oplog replicators, which do the same, are composed with it.

## Plan

What remains worth doing, in this order:

1. Abstract specifications: a target that holds a prefix of the source, for
   LivePipeline over GroupWrite; a copy that is a growing set, which Backfill and
   ParallelBackfill implement.
2. A live migration of the change stream mode with its DLQ.

## Running

TLC runs take from seconds to three minutes. Of the proofs, OplogReplicationProofs
takes five minutes, LivePipelineProofs three, the others about one each.

```
tlc -config pipeline_crash.cfg MCLivePipeline.tla
tlc -config partitions_resume.cfg MCParallelBackfill.tla
tlapm LivePipelineProofs.tla
```
