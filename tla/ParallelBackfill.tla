---------------------------- MODULE ParallelBackfill ----------------------------
(***************************************************************************)
(* The initial copy of one collection with parallel reads, over any number *)
(* of starts: the plan a start makes from the checkpoint files that the    *)
(* earlier ones left (backfill_resumption.go), the partitions it reads     *)
(* (module Partitioning) and the goroutines that read and bookmark them    *)
(* (migrateCollectionParallel of migrator.go).                             *)
(*                                                                         *)
(* Every start may see another document count and another configuration,   *)
(* and so plan for another number of partitions, or for the sequential     *)
(* copy, which is a single partition.  The process may stop at any step.   *)
(* A batch is one document: module Backfill models larger batches, the     *)
(* channels, failing saves and the cancellation of a run.                  *)
(***************************************************************************)
EXTENDS Partitioning

CONSTANTS
  Collections,          (* the collections to copy, one of them per behaviour *)
  Totals,               (* what the count of the documents may return         *)
  MinDocsPerPartition,
  MaxReadPartitions,    (* the values that may be configured                  *)
  MayBeSequential,      (* a start may find parallel reads switched off       *)
  WorkersPerPartition,
  MaxInFlight,          (* documents read and not acknowledged, per partition  *)
  MaxFailures           (* bound on the failures of a run, and those ignored   *)

ASSUME ParallelBackfillAssumption ==
  /\ \A c \in Collections : c.id \in Seq([type : STRING \ {""}, val : Int])
  /\ \A c \in Collections : \A d \in Docs(c), e \in Docs(c) :
       d < e /\ TypeOf(c, d) = TypeOf(c, e) => c.id[d].val < c.id[e].val
  /\ Totals \subseteq Nat
  /\ MaxReadPartitions \cup {MinDocsPerPartition, WorkersPerPartition, MaxInFlight}
       \subseteq Nat \ {0}
  /\ MaxFailures \in Nat
  /\ MayBeSequential \in BOOLEAN

VARIABLES
  coll,     (* the collection                                                 *)
  files,    (* <<partition, total>> -> checkpoint, the files that exist       *)
  phase,    (* "plan", "delete", "work", "returned"                           *)
  plan,     (* what the start decided: [parallel, mode, min]                  *)
  cp,       (* per partition its checkpoint, the last one saved               *)
  unread,   (* per partition the documents its cursor has still to return     *)
  open,     (* per partition the documents with the workers                   *)
  failed,   (* per partition those whose worker has failed, and returned      *)
  acked,    (* per partition the acknowledged documents not bookmarked yet    *)
  reading,  (* the partitions whose goroutine has not returned                *)
  handled,  (* documents in the target or in the dead letter queue            *)
  ignored   (* history: documents given up by a partition marked completed    *)
            (* although a worker of its had failed                            *)

run == <<cp, unread, open, failed, acked, reading>>
history == <<handled, ignored>>
vars == <<coll, files, phase, plan, run, history>>

(* A checkpoint: [completed, progress], progress a function from types to
   [start, end, saved], each an _id or Nil. *)
Progress(from, to, last) == [start |-> from, end |-> to, saved |-> last]

-----------------------------------------------------------------------------
(* What a checkpoint says of the next run. *)

CannotCompare(a, b) == a # Nil /\ b # Nil /\ a.type # b.type
RangeDone(b) == b.saved # Nil /\ b.end # Nil /\ b.end.val <= b.saved.val
LowerBound(b) == IF b.saved # Nil THEN b.saved ELSE b.start

(* BuildPartitionFilterFromCheckpoint: when it returns an error. *)
FilterFails(k, total) ==
  /\ ~ k.completed
  /\ \/ k.progress = <<>>
     \/ \E t \in DOMAIN k.progress :
          LET b == k.progress[t] IN
            (total > 1 /\ b.start = Nil /\ b.end = Nil) \/ CannotCompare(b.saved, b.end)

(* Mutation of BuildPartitionFilterFromCheckpoint: a bookmarked range is read to
   the end of its type. *)
BuildFilterFromBookmarkOnly(k) ==
  LET types == {t \in DOMAIN k.progress : ~ RangeDone(k.progress[t])} IN
    IF k.completed THEN Nothing
    ELSE [all |-> FALSE,
          clause |-> [t \in types |->
                        LET b == k.progress[t]
                        IN Between(LowerBound(b), IF b.saved # Nil THEN Nil ELSE b.end)]]

BuildPartitionFilterFromCheckpoint(k) ==
  LET types == {t \in DOMAIN k.progress : ~ RangeDone(k.progress[t])} IN
    IF k.completed THEN Nothing
    ELSE [all |-> FALSE,
          clause |-> [t \in types |-> Between(LowerBound(k.progress[t]), k.progress[t].end)]]

(* ExtractGlobalMinSafeIDs: the bound of the first partition not done with a
   type, of the checkpoints ks of all partitions. *)
Unfinished(ks, t) ==
  {i \in DOMAIN ks : /\ ~ ks[i].completed
                     /\ t \in DOMAIN ks[i].progress
                     /\ ~ RangeDone(ks[i].progress[t])}

(* Mutation of ExtractGlobalMinSafeIDs: of the last such partition. *)
LastUnfinishedSafeIDs(ks) ==
  [t \in {u \in CandidateBSONTypes : Unfinished(ks, u) # {}} |->
     LowerBound(ks[Max(Unfinished(ks, t))].progress[t])]

ExtractGlobalMinSafeIDs(ks) ==
  [t \in {u \in CandidateBSONTypes : Unfinished(ks, u) # {}} |->
     LowerBound(ks[Min(Unfinished(ks, t))].progress[t])]

(* ExtractTypeRangeBoundariesFromFilter: it knows no $mod. *)
BoundariesOf(filter) ==
  [t \in DOMAIN filter.clause |->
     Progress(filter.clause[t].start, filter.clause[t].end, Nil)]

(* clampPartition: every clause starts at the safe _id of its type at least, a
   clause that ends before it is dropped. *)
clampPartition(filter, min) ==
  LET safe(t) == IF t \in DOMAIN min THEN min[t] ELSE Nil
      below(a, t) == safe(t) # Nil /\ a # Nil /\ a.type = t /\ a.val <= safe(t).val
      clauses == IF filter.all
                 THEN [t \in {u \in DOMAIN min : min[u] # Nil} |-> Between(min[t], Nil)]
                 ELSE filter.clause
      active == {t \in DOMAIN clauses : ~ below(clauses[t].end, t)}
      start(t) == IF safe(t) # Nil /\ (clauses[t].start = Nil \/ below(clauses[t].start, t))
                  THEN safe(t) ELSE clauses[t].start
  IN [all |-> FALSE, clause |-> [t \in active |-> Between(start(t), clauses[t].end)]]

ClampPartitionsWithGlobalMinSafeIDs(filters, min) ==
  IF min = <<>> THEN filters ELSE [i \in DOMAIN filters |-> clampPartition(filters[i], min)]

-----------------------------------------------------------------------------
(* DetermineBackfillResumptionPlan *)

Checkpoints(n) == [i \in 1 .. n |-> files[<<i, n>>]]

(* ValidateCheckpointSet; any file of another set makes the set invalid. *)
ValidSet(n) ==
  /\ n > 0
  /\ DOMAIN files = (1 .. n) \X {n}
  /\ \A f \in DOMAIN files : files[f].progress # <<>>

AllCompleted(n) == \A i \in 1 .. n : Checkpoints(n)[i].completed

(* The number of partitions of a complete set of files, 0 without one. *)
Splits == IF \E f \in DOMAIN files : ValidSet(f[2])
          THEN (CHOOSE f \in DOMAIN files : ValidSet(f[2]))[2] ELSE 0

Finished == Splits > 0 /\ AllCompleted(Splits)

Mode(expected) ==
  IF Splits = 0 THEN "fresh"
  ELSE IF Splits # expected THEN "resample"
  ELSE IF \E i \in 1 .. Splits : FilterFails(Checkpoints(Splits)[i], Splits) THEN "fresh"
  ELSE "direct"

-----------------------------------------------------------------------------
Init ==
  /\ coll \in Collections
  /\ files = <<>>
  /\ phase = "plan"
  /\ plan = [parallel |-> TRUE, mode |-> "fresh", min |-> <<>>]
  /\ cp = <<>> /\ unread = <<>> /\ open = <<>> /\ failed = <<>> /\ acked = <<>>
  /\ reading = {}
  /\ handled = {}
  /\ ignored = {}

AlreadyCompleted ==
  /\ phase = "plan"
  /\ Finished
  /\ phase' = "returned"
  /\ UNCHANGED <<coll, files, plan, run, history>>

(* The plan of a start; the sequential copy starts afresh when it finds no
   bookmark among the global ones. *)
MakePlan(parallel, expected) ==
  LET mode == Mode(expected)
      min == IF mode = "resample" THEN ExtractGlobalMinSafeIDs(Checkpoints(Splits)) ELSE <<>>
  IN /\ phase = "plan"
     /\ ~ Finished
     /\ plan' = [parallel |-> parallel, min |-> min,
                 mode |-> IF ~ parallel /\ mode = "resample" /\ min = <<>>
                          THEN "fresh" ELSE mode]
     /\ phase' = "delete"
     /\ UNCHANGED <<coll, files, run, history>>

(* DeletePartitionCheckpoints, file by file. *)
DeleteFile(f) ==
  /\ phase = "delete"
  /\ plan.mode # "direct"
  /\ files' = [g \in DOMAIN files \ {f} |-> files[g]]
  /\ UNCHANGED <<coll, phase, plan, run, history>>

(* The goroutines start, partition i with the i-th checkpoint and filter; that
   of a completed partition returns at once. *)
Begin(ks, filters) ==
  /\ phase = "delete"
  /\ phase' = "work"
  /\ cp' = ks
  /\ unread' = [i \in DOMAIN ks |-> IF ks[i].completed THEN {} ELSE Matched(coll, filters[i])]
  /\ open' = [i \in DOMAIN ks |-> {}]
  /\ failed' = [i \in DOMAIN ks |-> {}]
  /\ acked' = [i \in DOMAIN ks |-> {}]
  /\ reading' = {i \in DOMAIN ks : ~ ks[i].completed}
  /\ UNCHANGED <<coll, files, plan, history>>

BeginDirect ==
  /\ plan.mode = "direct"
  /\ LET ks == Checkpoints(Splits) IN
       Begin(ks, [i \in DOMAIN ks |-> BuildPartitionFilterFromCheckpoint(ks[i])])

(* New partitions, each with the boundaries of its filter before the clamping.
   A partition with nothing left is bookmarked at its end. *)
ResampledCheckpoint(raw, clamped) ==
  LET bookmark(t) == IF BoundariesOf(raw)[t].end # Nil THEN BoundariesOf(raw)[t].end
                     ELSE IF t \in DOMAIN plan.min THEN plan.min[t] ELSE Nil
  IN [completed |-> FALSE,
      progress |-> [t \in DOMAIN raw.clause |->
                      IF clamped = Nothing
                      THEN [BoundariesOf(raw)[t] EXCEPT !.saved = bookmark(t)]
                      ELSE BoundariesOf(raw)[t]]]

BeginResampled(n, maxPartitions) ==
  /\ plan.mode = "resample" /\ plan.parallel
  /\ files = <<>>
  /\ \E raw \in Partition(coll, n, maxPartitions) :
       LET clamped == ClampPartitionsWithGlobalMinSafeIDs(raw, plan.min) IN
         Begin([i \in DOMAIN raw |-> ResampledCheckpoint(raw[i], clamped[i])], clamped)

(* The types discovered are added to each checkpoint, without boundaries. *)
BeginFresh(n, maxPartitions) ==
  /\ plan.mode = "fresh" /\ plan.parallel
  /\ files = <<>>
  /\ \E filters \in Partition(coll, n, maxPartitions), types \in DiscoverPresentBSONTypes(coll) :
       Begin([i \in DOMAIN filters |->
                [completed |-> FALSE,
                 progress |-> [t \in DOMAIN filters[i].clause \cup types |->
                                 IF t \in DOMAIN filters[i].clause
                                 THEN BoundariesOf(filters[i])[t] ELSE Progress(Nil, Nil, Nil)]]],
             filters)

(* The sequential copy: one partition, with the global bookmarks or none. *)
BeginSequential ==
  /\ plan.mode # "direct" /\ ~ plan.parallel
  /\ files = <<>>
  /\ \E types \in IF plan.mode = "resample" THEN {DOMAIN plan.min}
                   ELSE DiscoverPresentBSONTypes(coll) :
     LET k == [completed |-> FALSE,
               progress |-> [t \in types |->
                 Progress(Nil, Nil, IF plan.mode = "resample" THEN plan.min[t] ELSE Nil)]]
     IN Begin(<<k>>, <<IF plan.mode = "resample" THEN BuildPartitionFilterFromCheckpoint(k)
                                                 ELSE Everything>>)

-----------------------------------------------------------------------------
(* The goroutine of partition p and its workers. *)

(* The acknowledged documents before the first one that is still open. *)
AckedPrefix(done, pending) == {d \in done : \A e \in pending : d < e}

(* saveCheckpointsLocked: done are the acknowledged documents, pending the
   others that were read. *)
Save(p, done, pending, finished) ==
  LET prefix == AckedPrefix(done, pending)
      ofType(t) == prefix \cap DocsOfType(coll, t)
      before(t) == IF t \in DOMAIN cp[p].progress THEN cp[p].progress[t]
                                                   ELSE Progress(Nil, Nil, Nil)
      types == DOMAIN cp[p].progress \cup {TypeOf(coll, d) : d \in prefix}
      k == [completed |-> cp[p].completed \/ finished,
            progress |-> [t \in types |->
              IF ofType(t) = {} THEN before(t)
              ELSE [before(t) EXCEPT !.saved = coll.id[Max(ofType(t))]]]]
  IN /\ cp' = [cp EXCEPT ![p] = k]
     /\ files' = [f \in DOMAIN files \cup {<<p, Len(cp)>>} |->
                    IF f = <<p, Len(cp)>> THEN k ELSE files[f]]
     /\ acked' = [acked EXCEPT ![p] = done \ prefix]

(* Mutation of Read: it does not wait for a worker. *)
ReadUnbounded(p) ==
  /\ p \in reading
  /\ unread[p] # {}
  /\ unread' = [unread EXCEPT ![p] = @ \ {Min(unread[p])}]
  /\ open' = [open EXCEPT ![p] = @ \cup {Min(unread[p])}]
  /\ UNCHANGED <<coll, files, phase, plan, cp, failed, acked, reading, history>>

Read(p) ==
  /\ p \in reading
  /\ Cardinality(open[p]) < MaxInFlight
  /\ unread[p] # {}
  /\ unread' = [unread EXCEPT ![p] = @ \ {Min(unread[p])}]
  /\ open' = [open EXCEPT ![p] = @ \cup {Min(unread[p])}]
  /\ UNCHANGED <<coll, files, phase, plan, cp, failed, acked, reading, history>>

(* A worker that fails returns. *)
WorkersLeft(p) == Cardinality(failed[p]) < WorkersPerPartition

(* writeBatch; a document that is there already is skipped. *)
Write(d) ==
  /\ \E p \in DOMAIN open : d \in open[p] \ failed[p] /\ WorkersLeft(p)
  /\ handled' = handled \cup {d}
  /\ UNCHANGED <<coll, files, phase, plan, run, ignored>>

(* AckBatch, saved when the threshold is met or the interval has elapsed. *)
Ack(p, d) ==
  /\ d \in open[p] \cap handled
  /\ open' = [open EXCEPT ![p] = @ \ {d}]
  /\ \/ Save(p, acked[p] \cup {d}, open[p] \ {d}, FALSE)
     \/ /\ acked' = [acked EXCEPT ![p] = @ \cup {d}]
        /\ UNCHANGED <<files, cp>>
  /\ UNCHANGED <<coll, phase, plan, unread, failed, reading, history>>

(* A worker puts its error into partitionErrorChan, in fail-fast mode. *)
WorkerFails(p) ==
  /\ Cardinality(ignored \cup UNION {failed[q] : q \in DOMAIN cp}) < MaxFailures
  /\ p \in reading
  /\ WorkersLeft(p)
  /\ \E d \in open[p] \ (handled \cup failed[p]) :
       failed' = [failed EXCEPT ![p] = @ \cup {d}]
  /\ UNCHANGED <<coll, files, phase, plan, cp, unread, open, acked, reading, history>>

(* The goroutine takes the error and returns; its deferred Close saves.  Its
   other workers and the other partitions carry on. *)
ReturnError(p) ==
  /\ p \in reading
  /\ failed[p] # {}
  /\ reading' = reading \ {p}
  /\ Save(p, acked[p], open[p], FALSE)
  /\ UNCHANGED <<coll, phase, plan, unread, open, failed, history>>

(* Mutation of Complete: it does not wait for the workers. *)
CompleteEarly(p) ==
  /\ p \in reading
  /\ unread[p] = {}
  /\ reading' = reading \ {p}
  /\ Save(p, acked[p], open[p], TRUE)
  /\ UNCHANGED <<coll, phase, plan, unread, open, failed, history>>

(* Mutation of Complete: a partition without documents is not marked. *)
CompleteUnlessEmpty(p) ==
  /\ p \in reading
  /\ unread[p] = {} /\ open[p] = {}
  /\ reading' = reading \ {p}
  /\ IF \E t \in DOMAIN cp[p].progress : cp[p].progress[t].saved # Nil
     THEN Save(p, acked[p], {}, TRUE) ELSE UNCHANGED <<cp, files, acked>>
  /\ UNCHANGED <<coll, phase, plan, unread, open, failed, history>>

(* The cursor is exhausted and partitionDoneChan closed: MarkCompleted.  Workers
   that failed have returned as well, and the select may not look at the error. *)
Complete(p) ==
  /\ p \in reading
  /\ unread[p] = {}
  /\ open[p] = failed[p] \/ ~ WorkersLeft(p)
  /\ reading' = reading \ {p}
  /\ Save(p, acked[p], open[p], TRUE)
  /\ ignored' = ignored \cup (open[p] \ handled)
  /\ UNCHANGED <<coll, phase, plan, unread, open, failed, handled>>

(* The process ends, wherever it is, and is started again. *)
Restart ==
  /\ phase' = "plan"
  /\ plan' = [parallel |-> TRUE, mode |-> "fresh", min |-> <<>>]
  /\ cp' = <<>> /\ unread' = <<>> /\ open' = <<>> /\ failed' = <<>> /\ acked' = <<>>
  /\ reading' = {}
  /\ UNCHANGED <<coll, files, history>>

-----------------------------------------------------------------------------
(* The count that the partitioner takes may differ from that of the plan. *)
PlanNext ==
  \/ AlreadyCompleted
  \/ \E total \in Totals, max \in MaxReadPartitions :
       MakePlan(TRUE, CalculatePartitionCount(total, MinDocsPerPartition, max))
  \/ MayBeSequential /\ MakePlan(FALSE, 1)
  \/ \E f \in DOMAIN files : DeleteFile(f)
  \/ BeginDirect
  \/ \E total \in Totals, max \in MaxReadPartitions :
       LET n == CalculatePartitionCount(total, MinDocsPerPartition, max) IN
         BeginResampled(n, max) \/ BeginFresh(n, max)
  \/ BeginSequential

PartitionNext(p) ==
  Read(p) \/ (\E d \in open[p] : Ack(p, d)) \/ ReturnError(p) \/ Complete(p)

Next ==
  \/ PlanNext
  \/ \E p \in DOMAIN cp : PartitionNext(p) \/ WorkerFails(p)
  \/ \E d \in Docs(coll) : Write(d)
  \/ Restart

Spec == Init /\ [][Next]_vars

(* The goroutines keep running. *)
FairSpec ==
  /\ Spec
  /\ WF_vars(PlanNext)
  /\ WF_vars(\E p \in DOMAIN cp : PartitionNext(p))
  /\ WF_vars(\E d \in Docs(coll) : d \notin handled /\ Write(d))

-----------------------------------------------------------------------------
(* What a resumption takes for granted ("since the partitions are sorted"): every
   document is in one of the partitions, each has a range of every type present,
   and the range of a later partition begins where that of an earlier one has
   ended.  Slices by remainder, or at string prefixes for another type, are not
   of this kind, nor is a single partition without bounds; and the types present
   must be known. *)
InOrder(c, filters) ==
  LET clause(i, t) == filters[i].clause[t]
      n == Len(filters)
  IN /\ n > 1 /\ DOMAIN filters = 1 .. n
     /\ Docs(c) = UNION {Matched(c, filters[i]) : i \in 1 .. n}
     /\ \A i \in 1 .. n : ~ filters[i].all /\ DOMAIN filters[i].clause = Present(c)
     /\ \A t \in Present(c) :
          /\ \A i \in 1 .. n :
               /\ clause(i, t).mod = <<>>
               /\ \A b \in {clause(i, t).start, clause(i, t).end} :
                    b # Nil => b.type = t /\ b.val \in Int
               /\ clause(i, t).start # Nil /\ clause(i, t).end # Nil =>
                    clause(i, t).start.val <= clause(i, t).end.val
          /\ \A i, j \in 1 .. n : i < j =>
               /\ clause(i, t).end # Nil /\ clause(j, t).start # Nil
               /\ clause(i, t).end.val <= clause(j, t).start.val

CutInOrder(c) ==
  /\ "probe" \notin c.failing
  /\ \A d \in Docs(c) : TypeOf(c, d) \in CandidateBSONTypes
  /\ \A total \in Totals, max \in MaxReadPartitions :
       \A filters \in Partition(c, CalculatePartitionCount(total, MinDocsPerPartition, max), max) :
         InOrder(c, filters)

(* Collections of this kind: every _id is of a type that is probed for, the probe
   does not fail, and whichever strategy a start takes is either that of the only
   type or cuts each type at its own values, at string prefixes, or by the times of
   the extreme _ids; and their counts make for several partitions.  The queries on
   which this depends must not fail: strings may do without a sample, while numbers
   would be cut by remainder and ObjectIDs without their extremes by prefixes. *)
CutAtOwnValues(c, t) ==
  \/ t = "string" /\ \A max \in MaxReadPartitions : max <= 256
  \/ /\ t \in c.large /\ "sample" \notin c.failing
     /\ \A max \in MaxReadPartitions : max <= Cardinality(DocsOfType(c, t))
  \/ /\ t = "objectId" /\ "extremes" \notin c.failing
     /\ {c.id[1].type, Last(c.id).type} = {t} /\ c.id[1] # Last(c.id)

CutByRanges(c) ==
  /\ Docs(c) # {} /\ \A d \in Docs(c) : TypeOf(c, d) \in CandidateBSONTypes
  /\ "probe" \notin c.failing
  /\ \A total \in Totals, max \in MaxReadPartitions :
       total >= 2 * MinDocsPerPartition /\ max >= 2
  /\ \A s \in Strategies(c) :
       \/ s = "objectid" /\ Present(c) = {"objectId"}
       \/ s = "numeric" /\ Present(c) = {"number"}
       \/ s \notin {"objectid", "numeric"} /\ \A t \in Present(c) : CutAtOwnValues(c, t)

-----------------------------------------------------------------------------
TypeOK ==
  /\ coll \in Collections
  /\ phase \in {"plan", "delete", "work", "returned"}
  /\ plan.mode \in {"fresh", "direct", "resample"}
  /\ DOMAIN plan.min \subseteq CandidateBSONTypes
  /\ \A f \in DOMAIN files : f[1] \in 1 .. f[2]
  /\ reading \subseteq DOMAIN cp
  /\ \A p \in DOMAIN cp :
       /\ unread[p] \subseteq Docs(coll) /\ open[p] \subseteq Docs(coll)
       /\ failed[p] \subseteq open[p]
       /\ acked[p] \subseteq handled /\ open[p] \cap acked[p] = {}
       /\ Cardinality(open[p]) <= MaxInFlight
  /\ handled \subseteq Docs(coll)

(* migrateCollectionParallel, Backfill Resumption Safety: "to ensure no
   documents are skipped or duplicated upon resume".  After any number of starts
   with different counts, and however the earlier ones stopped, a document that
   was neither written nor recorded is in the hands of one of the partitions, but
   for those of a partition that ignored an error. *)
NothingSkipped ==
  phase = "work" =>
    Docs(coll) \ (handled \cup ignored) \subseteq UNION {unread[p] \cup open[p] : p \in DOMAIN cp}

(* "Retain completed partition checkpoints on disk so subsequent resumption runs
   know this collection finished": a collection that every later start skips has
   every document written or recorded, with the same exception. *)
FinishedMeansDone == Finished => Docs(coll) \subseteq handled \cup ignored

(* "The collection is divided into partitions based on document ID ranges":
   no document is read by two partitions of one run, neither of a first one nor
   of one that resumes. *)
PartitionsAreDisjoint ==
  \A p, q \in DOMAIN cp :
    p # q => (unread[p] \cup open[p] \cup acked[p]) \cap
             (unread[q] \cup open[q] \cup acked[q]) = {}

(* Whatever the runs before it left, a run that is not interrupted copies the
   rest and completes the checkpoint of every partition, the empty ones too,
   unless one of its own writes fails. *)
BackfillCompletes ==
  <>[][~ Restart]_vars => <>(Finished \/ \E p \in DOMAIN cp : failed[p] # {})
=============================================================================
