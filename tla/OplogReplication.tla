--------------------------- MODULE OplogReplication ---------------------------
(***************************************************************************)
(* Replication by oplog tailing, modern (oplog_replicator.go) and legacy   *)
(* (oplog_replicator_legacy.go), with the copy that precedes it            *)
(* (initial_migrator.go and its legacy twin), the files it leaves behind,  *)
(* and the runs of -mode=retry-dlq in between (RetryDLQ).                  *)
(*                                                                         *)
(* One collection is replicated.  The oplog is the history of the changes  *)
(* of the collection; a change carries the whole document.  The process    *)
(* may be cancelled or killed at any step and be started again in any of   *)
(* the modes; never do two processes run at once.                          *)
(***************************************************************************)
EXTENDS RetryDLQ, FiniteSetsExt

CONSTANTS
  NumDocs,       (* documents, in _id order                                   *)
  Existing,      (* those that are there before the first change              *)
  MaxChanges,    (* bound on the length of the oplog                          *)
  NumWorkers,    (* incrementalWorkerCount                                    *)
  QueueSize,     (* incrementalIncomingQueueSize                              *)
  BatchSize,     (* initialWriteBatchSize                                     *)
  MaxResumes,    (* maxCursorResumes, 10 in the code                          *)
  SaveThreshold, (* saveThreshold                                             *)
  MaxRuns,       (* bound on the number of starts                             *)
  Invocations,   (* the ways the operator starts the tool, see Invocation     *)
  RetryFirst,    (* whether the operator repeats a retry that was killed      *)
                 (* before replicating again                                  *)
  CanStop        (* whether the process may be cancelled or killed            *)

Docs == 1 .. NumDocs
Workers == 1 .. NumWorkers
Positions == 0 .. MaxChanges
Versions == Positions \cup {None}

(* since: -live-start-timestamp, a position, for mode live-only *)
Invocation ==
  [mode : {"live", "live-only", "retry-dlq"}, legacy : BOOLEAN,
   dryRun : BOOLEAN, indexOnly : BOOLEAN, since : Versions]

ASSUME OplogAssumption ==
  /\ {NumDocs, NumWorkers, QueueSize, BatchSize, SaveThreshold} \subseteq Nat \ {0}
  /\ {MaxChanges, MaxResumes, MaxRuns} \subseteq Nat
  /\ Existing \subseteq Docs
  /\ {RetryFirst, CanStop} \subseteq BOOLEAN
  /\ \A inv \in Invocations :
       /\ inv \in Invocation
       /\ inv.since # None => inv.mode = "live-only"

VARIABLES
  oplog,         (* sequence of the documents changed                         *)
  stamp,         (* oplogTimestamp file: a position, or None                  *)
  backup,        (* its ".backup", the stamp that the last save renamed       *)
  invocation,    (* options of the running process                            *)
  copy,          (* memory of migrateCollection, see NoCopy                   *)
  tail,          (* memory of tailOplog, see NoTail                           *)
  recorded,      (* DLQWriter.count: lines this process wrote                 *)
  base,          (* history: position up to which live-only takes the target  *)
                 (* for complete, None after a copy                           *)
  starts         (* history: number of starts                                 *)

liveVars == <<oplog, stamp, backup, invocation, copy, tail, recorded, base>>
vars == <<retryVars, liveVars, starts>>

(* the cursor and the position of the oplog it was opened at, lastID, batch of
   [doc, version], cursorResumeCount, failedCount *)
NoCopy == [cursor |-> "opening", opened |-> 0, last |-> 0, batch |-> {},
           resumes |-> 0, failed |-> 0]

(* afterTimestamp, latestOplogTimestamp, processedCount, the change the loop
   is sending (a sequence of at most one), batchingQueues, activeFailedIDs
   with their phases, changes written whose tombstone is due (per worker a
   sequence of at most one), workers whose queue is closed, whose loops exited *)
NoTail ==
  [after |-> None, latest |-> None, unsaved |-> 0, sending |-> <<>>,
   queue |-> [w \in Workers |-> <<>>], known |-> [d \in Docs |-> NoPhase],
   resolving |-> [w \in Workers |-> <<>>], closed |-> {}, exited |-> {}]

(* hashDocumentID *)
WorkerOf(d) == 1 + (d % NumWorkers)

(* The version of a document on the source when the oplog ended at p. *)
VersionAt(d, p) ==
  LET changes == {i \in 1 .. p : oplog[i] = d}
  IN IF changes # {} THEN Max(changes) ELSE IF d \in Existing THEN 0 ELSE None

Now == Len(oplog)
ResumePoint == IF stamp # None THEN stamp ELSE backup
Queued ==
  (UNION {ToSet(tail.queue[w]) \cup ToSet(tail.resolving[w]) : w \in Workers})
    \cup ToSet(tail.sending)
Open(file) == {r.doc : r \in PopulateActiveFailedIDs(file)}

(* The changes behind the last one received that the timestamp on disk is ahead
   of: those a process receives again that was started from an earlier one. *)
Unreceived ==
  IF invocation.dryRun \/ tail.latest = None THEN {}
  ELSE (tail.latest + 1) .. ResumePoint
Outstanding == Queued \cup Unreceived

-----------------------------------------------------------------------------
Init ==
  /\ InitialFiles
  /\ pc = "idle"
  /\ cancelled = FALSE
  /\ target = [d \in Docs |-> None]
  /\ retry = Unstarted
  /\ abandoned = {}
  /\ oplog = <<>>
  /\ stamp = None
  /\ backup = None
  /\ invocation \in Invocations
  /\ copy = NoCopy
  /\ tail = NoTail
  /\ recorded = 0
  /\ base = None
  /\ starts = 0

Change ==
  /\ Now < MaxChanges
  /\ \E d \in Docs : oplog' = Append(oplog, d)
  /\ UNCHANGED <<retryVars, stamp, backup, invocation, copy, tail, recorded, base, starts>>

-----------------------------------------------------------------------------
(* Starting a process. *)

IsCompleted(s) == s \in {"completed", "completed_with_failures", "skipped"}

(* What startOplogReplication and startOplogReplicationLegacy do with the DLQ
   of a migration that did not come to its end. *)
DLQSafetyCheck(inv) ==
  /\ status # "completed_with_failures"
  /\ inv.legacy /\ ~IsCompleted(status) => ~HasActiveFailedRecords(dlq)

DLQOpened(inv) ==
  Opened(IF inv.legacy \/ IsCompleted(status) THEN dlq ELSE BackupAndClearDLQ(dlq))

(* The safety invariants between state and timestamp of StartReplication. *)
FilesAgree(inv) ==
  /\ inv.since # None => stamp = None
  /\ inv.since = None /\ status = "none" => stamp = None
  /\ inv.since = None /\ status \in {"completed", "skipped"} => stamp # None

NeedsCopy == ~IsCompleted(status) /\ invocation.mode = "live"

(* A start that is refused has opened the DLQ, and may have backed it up. *)
StartLive(inv) ==
  /\ inv.mode # "retry-dlq"
  /\ RetryFirst => ~temp.exists
  /\ inv.since <= Now
  /\ DLQSafetyCheck(inv)
  /\ dlq' = DLQOpened(inv)
  /\ invocation' = inv
  /\ LET skips == FilesAgree(inv) /\ inv.mode = "live-only" /\ ~IsCompleted(status)
     IN /\ status' = IF skips THEN "skipped" ELSE status
        /\ base' = IF skips THEN ResumePoint ELSE base
  /\ pc' = IF FilesAgree(inv) THEN "capture" ELSE "idle"
  /\ UNCHANGED <<cancelled, temp, target, retry, abandoned,
                 oplog, stamp, backup, copy, tail, recorded>>

StartRetry(inv) ==
  /\ inv.mode = "retry-dlq"
  /\ invocation' = inv
  /\ BeginRetry
  /\ UNCHANGED <<oplog, stamp, backup, copy, tail, recorded, base>>

Start ==
  /\ pc = "idle"
  /\ starts < MaxRuns
  /\ starts' = starts + 1
  /\ \E inv \in Invocations : StartLive(inv) \/ StartRetry(inv)

(* The memory of a process is gone; changes that it has taken from the oplog
   and not dealt with are lost if the next one starts behind them. *)
Forgotten == {oplog[n] : n \in {m \in Outstanding : m <= ResumePoint}}

Exit ==
  /\ ReturnIdle
  /\ copy' = NoCopy
  /\ tail' = NoTail
  /\ recorded' = 0

(* Killed, or the 15 seconds after a signal are over. *)
Crash ==
  /\ CanStop
  /\ pc # "idle"
  /\ Exit
  /\ abandoned' = abandoned \cup Forgotten
  /\ UNCHANGED <<status, dlq, temp, target, oplog, stamp, backup, invocation, base, starts>>

Cancel ==
  /\ CanStop
  /\ pc # "idle"
  /\ ~cancelled
  /\ cancelled' = TRUE
  /\ UNCHANGED <<pc, status, dlq, temp, target, retry, abandoned, liveVars, starts>>

-----------------------------------------------------------------------------
(* StartReplication. *)

(* getCurrentClusterTime, or the timestamp on disk. *)
StartTimestamp ==
  IF stamp # None THEN stamp
  ELSE IF invocation.since # None THEN invocation.since ELSE Now

(* Mutation of Capture: the timestamp is taken after the copy. *)
CaptureLate ==
  /\ pc = "capture"
  /\ stamp' = StartTimestamp
  /\ tail' = [tail EXCEPT !.after = IF NeedsCopy THEN MaxChanges ELSE StartTimestamp]
  /\ base' = None
  /\ pc' = IF NeedsCopy THEN "begin" ELSE "open"
  /\ UNCHANGED <<cancelled, status, dlq, temp, target, retry, abandoned, oplog, backup,
                 invocation, copy, recorded, starts>>

(* A new timestamp is saved before anything is copied, but the legacy replicator
   keeps the operator's one in memory, and on disk what was there before. *)
KeepsStamp == invocation.legacy /\ invocation.since # None

Capture ==
  /\ pc = "capture"
  /\ stamp' = IF KeepsStamp THEN stamp ELSE StartTimestamp
  /\ tail' = [tail EXCEPT !.after = StartTimestamp]
  /\ base' = IF NeedsCopy THEN None
             ELSE IF KeepsStamp THEN Max({base, StartTimestamp})
             ELSE IF stamp = None THEN StartTimestamp
             ELSE base
  /\ pc' = IF NeedsCopy THEN "begin" ELSE IF invocation.indexOnly THEN "return" ELSE "open"
  /\ UNCHANGED <<cancelled, status, dlq, temp, target, retry, abandoned, oplog, backup,
                 invocation, copy, recorded, starts>>

CaptureFails ==
  /\ pc = "capture"
  /\ stamp = None /\ invocation.since = None
  /\ pc' = "return"
  /\ UNCHANGED <<cancelled, status, dlq, temp, target, retry, abandoned, liveVars, starts>>

(* Only the modern replicator spares the state file in a dry run. *)
WritesState == invocation.legacy \/ ~invocation.dryRun

(* Run returns after the indexes in index-only mode; the modern caller returns
   as well, the legacy one completes the migration. *)
BeginCopy ==
  /\ pc = "begin"
  /\ status' = IF WritesState THEN "inprogress" ELSE status
  /\ pc' = IF ~invocation.indexOnly THEN "copy"
           ELSE IF invocation.legacy THEN "copied" ELSE "return"
  /\ UNCHANGED <<cancelled, dlq, temp, target, retry, abandoned, liveVars, starts>>

Return ==
  /\ pc = "return"
  /\ Exit
  /\ abandoned' = abandoned \cup Forgotten
  /\ UNCHANGED <<status, dlq, temp, target, oplog, stamp, backup, invocation, base, starts>>
-----------------------------------------------------------------------------
(* migrateCollection, in _id order.  A cursor returns every document ahead of  *)
(* it that was there when it was opened, and may return one that came later,   *)
(* each in a version of its own time; it may break at any step.                *)

Unread(p) == {d \in Docs : d > copy.last /\ VersionAt(d, p) # None}

(* Only the modern copy knows dry runs. *)
SkipsCopy == invocation.dryRun /\ ~invocation.legacy

CopyVars == <<status, dlq, temp, target, retry, abandoned, oplog, stamp, backup,
              invocation, tail, recorded, base, starts>>

(* Count and Find may fail; the function returns as if there were no more. *)
OpenCursor ==
  /\ pc = "copy"
  /\ copy.cursor = "opening"
  /\ \E outcome \in {"open", "ended"} :
       /\ outcome = "open" => ~SkipsCopy /\ ~cancelled
       /\ copy' = [copy EXCEPT !.cursor = outcome, !.opened = Now]
  /\ UNCHANGED <<pc, cancelled, CopyVars>>

CursorNext ==
  /\ pc = "copy"
  /\ copy.cursor = "open"
  /\ Cardinality(copy.batch) < BatchSize

ReadDocument ==
  /\ CursorNext
  /\ \E p \in copy.opened .. Now : \E d \in Unread(p) :
       /\ \A e \in Unread(copy.opened) : d <= e
       /\ copy' = [copy EXCEPT !.last = d,
                               !.batch = @ \cup {[doc |-> d, version |-> VersionAt(d, p)]}]
  /\ UNCHANGED <<pc, cancelled, CopyVars>>

EndOfCollection ==
  /\ CursorNext
  /\ Unread(copy.opened) = {}
  /\ copy' = [copy EXCEPT !.cursor = "ended"]
  /\ UNCHANGED <<pc, cancelled, CopyVars>>

(* Mutation of CursorFails: an error resumes for ever. *)
CursorFailsUncounted ==
  /\ CursorNext
  /\ copy' = [copy EXCEPT !.cursor = IF cancelled THEN "ended" ELSE "flushing"]
  /\ UNCHANGED <<pc, cancelled, CopyVars>>

(* Mutation of CursorFails: the count is compared before it is raised. *)
CursorFailsComparedEarly ==
  /\ CursorNext
  /\ LET resumed == ~cancelled /\ copy.last # 0 /\ copy.resumes <= MaxResumes
     IN copy' = [copy EXCEPT !.cursor = IF resumed THEN "flushing" ELSE "ended",
                             !.resumes = IF cancelled THEN @ ELSE @ + 1]
  /\ UNCHANGED <<pc, cancelled, CopyVars>>

(* Mutation of CursorFails: the cursor goes on behind the pending batch, which
   is dropped. *)
CursorFailsUnflushed ==
  /\ CursorNext
  /\ copy' = [copy EXCEPT !.cursor = IF copy.resumes < MaxResumes /\ ~cancelled
                                     THEN "opening" ELSE "ended",
                          !.resumes = @ + 1, !.batch = {}]
  /\ UNCHANGED <<pc, cancelled, CopyVars>>

(* After an error the copy resumes behind the last document it has read. *)
CursorFails ==
  /\ CursorNext
  /\ LET resumes == copy.resumes + 1
         resumed == ~cancelled /\ copy.last # 0 /\ resumes <= MaxResumes
     IN copy' = [copy EXCEPT !.cursor = IF resumed THEN "flushing" ELSE "ended",
                             !.resumes = IF cancelled THEN @ ELSE resumes]
  /\ UNCHANGED <<pc, cancelled, CopyVars>>

Resume ==
  /\ pc = "copy"
  /\ copy.cursor = "flushing"
  /\ copy.batch = {}
  /\ copy' = [copy EXCEPT !.cursor = "opening"]
  /\ UNCHANGED <<pc, cancelled, CopyVars>>

(* What insertBatchWithRetry makes of a batch, by the documents it fails to
   store: none; all, when the batch cannot be transformed; the refused ones of a
   bulk write and those of a broken one that fail one by one as well.  A failure
   is recorded, unless it is the error of a cancelled context. *)
InsertOutcomes(docs) ==
  {o \in [docs -> {"stored", "recorded", "dropped"}] :
     \A d \in docs : o[d] = "dropped" => cancelled}

(* WriteFailed, for one document of the batch after the other. *)
RecordAll(file, failures) ==
  [file EXCEPT !.records =
     @ \o SetToSeq({Record("failed", r.doc, r.version, "initial") : r \in failures})]

(* A full batch is inserted before the cursor moves on, the rest at the end. *)
InsertBatch ==
  /\ pc = "copy"
  /\ copy.batch # {}
  /\ Cardinality(copy.batch) = BatchSize \/ copy.cursor \in {"flushing", "ended"}
  /\ \E o \in InsertOutcomes({r.doc : r \in copy.batch}) :
       LET with(outcome) == {r \in copy.batch : o[r.doc] = outcome}
       IN /\ target' = [d \in Docs |-> IF \E r \in with("stored") : r.doc = d
                                       THEN (CHOOSE r \in copy.batch : r.doc = d).version
                                       ELSE target[d]]
          /\ dlq' = RecordAll(dlq, with("recorded"))
          /\ recorded' = recorded + Cardinality(with("recorded"))
          /\ abandoned' = (abandoned \cup {r.doc : r \in with("dropped")})
                            \ {r.doc : r \in with("stored")}
          /\ copy' = [copy EXCEPT !.batch = {},
                                  !.failed = @ + Cardinality(copy.batch \ with("stored"))]
  /\ UNCHANGED <<pc, cancelled, status, temp, retry, oplog, stamp, backup, invocation,
                 tail, base, starts>>

EndCopy ==
  /\ pc = "copy"
  /\ copy.cursor = "ended" /\ copy.batch = {}
  /\ pc' = "copied"
  /\ UNCHANGED <<cancelled, copy, CopyVars>>

CopyStatus ==
  IF copy.failed > 0 \/ recorded > 0 THEN "completed_with_failures" ELSE "completed"

(* However the cursor ended, the migration is now complete. *)
SaveCopyStatus ==
  /\ pc = "copied"
  /\ status' = IF WritesState THEN CopyStatus ELSE status
  /\ abandoned' = IF WritesState THEN abandoned \cup Unread(stamp) ELSE abandoned
  /\ pc' = IF CopyStatus = "completed_with_failures" \/ invocation.indexOnly
           THEN "return" ELSE "open"
  /\ UNCHANGED <<cancelled, dlq, temp, target, retry, liveVars, starts>>

-----------------------------------------------------------------------------
(* tailOplog: one loop that takes changes from GTM and sends each to a worker. *)

TailVars == <<cancelled, status, temp, retry, oplog, invocation, copy, base, starts>>

OpenTail ==
  /\ pc = "open"
  /\ tail' = [tail EXCEPT !.known = [d \in Docs |->
                IF d \in Open(dlq)
                THEN (CHOOSE r \in PopulateActiveFailedIDs(dlq) : r.doc = d).phase
                ELSE NoPhase]]
  /\ pc' = "tail"
  /\ UNCHANGED <<TailVars, dlq, target, abandoned, stamp, backup, recorded>>

(* GTM delivers the changes behind afterTimestamp in their order. *)
NextChange == 1 + IF tail.latest = None THEN tail.after ELSE tail.latest

Receive ==
  /\ pc = "tail"
  /\ tail.sending = <<>>
  /\ NextChange <= Now
  /\ tail' = [tail EXCEPT !.latest = NextChange,
                          !.sending = IF invocation.dryRun THEN <<>> ELSE <<NextChange>>]
  /\ UNCHANGED <<TailVars, pc, dlq, target, abandoned, stamp, backup, recorded>>

(* distributeOplogEvent blocks while the queue of the worker is full; then the
   timestamp is saved if enough changes were distributed or it is time. *)
Send ==
  /\ pc = "tail"
  /\ tail.sending # <<>>
  /\ LET n == Head(tail.sending)
         w == WorkerOf(oplog[n])
     IN /\ w \notin tail.closed
        /\ Len(tail.queue[w]) < QueueSize
        /\ tail' = [tail EXCEPT !.sending = <<>>, !.queue[w] = Append(@, n),
                                !.unsaved = @ + 1]
  /\ \E due \in BOOLEAN :
       /\ tail'.unsaved >= SaveThreshold => due
       /\ pc' = IF due THEN "save" ELSE "tail"
  /\ UNCHANGED <<TailVars, dlq, target, abandoned, stamp, backup, recorded>>

(* A send on the queue that the shutdown has closed panics. *)
SendPanics ==
  /\ pc = "tail"
  /\ \E n \in ToSet(tail.sending) : WorkerOf(oplog[n]) \in tail.closed
  /\ Exit
  /\ abandoned' = abandoned \cup Forgotten
  /\ UNCHANGED <<status, dlq, temp, target, oplog, stamp, backup, invocation, base, starts>>

(* SaveOplogTimestamp renames the file and writes a new one. *)
RenameStamp ==
  /\ pc \in {"save", "finalSave"}
  /\ backup' = IF stamp # None THEN stamp ELSE backup
  /\ stamp' = None
  /\ pc' = IF pc = "save" THEN "write" ELSE "finalWrite"
  /\ UNCHANGED <<TailVars, dlq, target, abandoned, tail, recorded>>

(* In a dry run the stamp moves behind changes that nobody has written. *)
WriteStamp ==
  /\ pc \in {"write", "finalWrite"}
  /\ stamp' = tail.latest
  /\ tail' = [tail EXCEPT !.unsaved = 0]
  /\ abandoned' = IF invocation.dryRun
                  THEN abandoned \cup {oplog[n] : n \in (tail.after + 1) .. tail.latest}
                  ELSE abandoned
  /\ pc' = IF pc = "write" THEN "tail" ELSE "return"
  /\ UNCHANGED <<TailVars, dlq, target, backup, recorded>>

StopLoop ==
  /\ pc = "tail"
  /\ tail.sending = <<>>
  /\ cancelled
  /\ pc' = "drain"
  /\ UNCHANGED <<TailVars, dlq, target, abandoned, stamp, backup, tail, recorded>>

(* WaitForCompletion of every worker, then the final save. *)
Drained ==
  /\ pc = "drain"
  /\ tail.exited = Workers
  /\ pc' = IF tail.latest # None THEN "finalSave" ELSE "return"
  /\ UNCHANGED <<TailVars, dlq, target, abandoned, stamp, backup, tail, recorded>>

(* The goroutine that shuts the workers down, one after the other. *)
CloseQueue ==
  /\ cancelled
  /\ pc \in {"tail", "save", "write", "drain"}
  /\ \E w \in Workers \ tail.closed :
       /\ 1 .. (w - 1) \subseteq tail.exited
       /\ tail' = [tail EXCEPT !.closed = @ \cup {w}]
  /\ UNCHANGED <<TailVars, pc, dlq, target, abandoned, stamp, backup, recorded>>

-----------------------------------------------------------------------------
(* A worker, seen from here: LivePipeline and GroupWrite have the details.     *)

WorkerRuns(w) ==
  /\ pc \in {"tail", "save", "write", "drain"}
  /\ w \notin tail.exited

Applies(w) ==
  /\ WorkerRuns(w)
  /\ tail.queue[w] # <<>>
  /\ tail.resolving[w] = <<>>

(* The change is written; an open failure of the document is then resolved. *)
ApplyStores(w) ==
  /\ Applies(w)
  /\ LET n == Head(tail.queue[w])
         d == oplog[n]
     IN /\ target' = [target EXCEPT ![d] = n]
        /\ abandoned' = IF tail.known[d] = NoPhase THEN abandoned \ {d} ELSE abandoned
        /\ tail' = [tail EXCEPT !.queue[w] = Tail(@),
                                !.resolving[w] = IF tail.known[d] = NoPhase THEN <<>> ELSE <<n>>]
  /\ UNCHANGED <<TailVars, pc, dlq, stamp, backup, recorded>>

Resolve(w) ==
  /\ WorkerRuns(w)
  /\ tail.resolving[w] # <<>>
  /\ LET n == Head(tail.resolving[w])
         d == oplog[n]
     IN /\ dlq' = WriteResolved(dlq, d, n, tail.known[d])
        /\ tail' = [tail EXCEPT !.resolving[w] = <<>>, !.known[d] = NoPhase]
        /\ abandoned' = abandoned \ {d}
  /\ recorded' = recorded + 1
  /\ UNCHANGED <<TailVars, pc, target, stamp, backup>>

(* markDLQ *)
ApplyFails(w) ==
  /\ Applies(w)
  /\ LET n == Head(tail.queue[w])
         d == oplog[n]
     IN /\ dlq' = WriteFailed(dlq, d, n, "incremental")
        /\ tail' = [tail EXCEPT !.queue[w] = Tail(@), !.known[d] = "incremental"]
  /\ recorded' = recorded + 1
  /\ UNCHANGED <<TailVars, pc, target, abandoned, stamp, backup>>

(* markDLQ for a write that the cancellation cut short. *)
ApplyCancelled(w) ==
  /\ Applies(w)
  /\ cancelled
  /\ LET d == oplog[Head(tail.queue[w])]
     IN /\ abandoned' = abandoned \cup {d}
        /\ tail' = [tail EXCEPT !.queue[w] = Tail(@), !.known[d] = "incremental"]
  /\ UNCHANGED <<TailVars, pc, dlq, target, stamp, backup, recorded>>

(* Mutation of WorkerExits: a worker whose queue is empty exits. *)
WorkerExitsWhenIdle(w) ==
  /\ WorkerRuns(w)
  /\ tail.queue[w] = <<>> /\ tail.resolving[w] = <<>>
  /\ tail' = [tail EXCEPT !.exited = @ \cup {w}]
  /\ UNCHANGED <<TailVars, pc, dlq, target, abandoned, stamp, backup, recorded>>

(* The event loop leaves its queue as it is when the context is cancelled. *)
WorkerExits(w) ==
  /\ WorkerRuns(w)
  /\ cancelled
  /\ tail.resolving[w] = <<>>
  /\ tail' = [tail EXCEPT !.exited = @ \cup {w}]
  /\ UNCHANGED <<TailVars, pc, dlq, target, abandoned, stamp, backup, recorded>>

WorkerStep(w) ==
  \/ ApplyStores(w) \/ Resolve(w) \/ ApplyFails(w) \/ ApplyCancelled(w) \/ WorkerExits(w)

-----------------------------------------------------------------------------
LiveStep ==
  \/ Capture \/ CaptureFails \/ BeginCopy \/ Return
  \/ OpenCursor \/ ReadDocument \/ EndOfCollection \/ CursorFails \/ Resume
  \/ InsertBatch \/ EndCopy \/ SaveCopyStatus
  \/ OpenTail \/ Receive \/ Send \/ SendPanics \/ RenameStamp \/ WriteStamp
  \/ StopLoop \/ Drained

Retry == RetryStep /\ UNCHANGED <<liveVars, starts>>

Next ==
  \/ Change \/ Start \/ Crash \/ Cancel
  \/ LiveStep \/ CloseQueue
  \/ \E w \in Workers : WorkerStep(w)
  \/ Retry

Spec == Init /\ [][Next]_vars

(* Goroutines run, and a signal ends the process after 15 seconds. *)
FairSpec ==
  /\ Spec
  /\ WF_vars(LiveStep) /\ WF_vars(CloseQueue) /\ WF_vars(Retry)
  /\ \A w \in Workers : WF_vars(WorkerStep(w))
  /\ WF_vars(cancelled /\ Crash)

-----------------------------------------------------------------------------
(* Properties.                                                                 *)

(* The files, the memory of each goroutine and the history hold what they can
   hold; batch, queues and the count of unsaved changes keep their limits. *)
TypeOK ==
  /\ status \in Statuses
  /\ {stamp, backup, base} \subseteq Versions
  /\ \A file \in {dlq, temp} : \A i \in DOMAIN file.records :
       file.records[i] \in [kind : {"failed", "resolved"}, doc : Docs,
                            version : Positions, phase : Phases]
  /\ target \in [Docs -> Versions]
  /\ abandoned \subseteq Docs
  /\ copy.last \in 0 .. NumDocs /\ copy.resumes \in 0 .. (MaxResumes + 1)
  /\ Cardinality(copy.batch) <= BatchSize
  /\ tail.unsaved <= SaveThreshold
  /\ \A w \in Workers : Len(tail.queue[w]) <= QueueSize
  /\ retry.current \subseteq PopulateActiveFailedIDs(temp)

(* The version of a document that a process started from the files on disk
   takes for granted. *)
Due(d) ==
  LET v == VersionAt(d, ResumePoint)
  IN IF v <= base THEN None ELSE v

AccountedForExcept(docs) ==
  status \in {"completed", "completed_with_failures", "skipped"} /\ ResumePoint # None =>
    \A d \in Docs \ docs :
      \/ target[d] >= Due(d)
      \/ d \in Open(dlq) \cup Open(temp)
      \/ \E n \in Outstanding : oplog[n] = d

(* initial_migrator.go, tailOplog, reprocessDLQ together: once a copy is
   complete, what lies at or before the timestamp on disk is on the target, or on
   record as a failure, in the DLQ file or the one set aside, or still before the
   running process, in a queue as a rule; but for what the code gives up
   (abandoned). *)
AccountedFor == AccountedForExcept(abandoned)

(* The same without that exception. *)
NothingAbandoned == AccountedForExcept({})

(* "Completed with failures" refuses every start until retry-dlq has dealt with
   the failures: there must be one on record, or the retry that dealt with the
   last is about to say so; a failure that only a cancellation kept off the record
   blocks for ever. *)
BlockedHasRecord ==
  status = "completed_with_failures" =>
    \/ Open(dlq) \cup Open(temp) # {}
    \/ abandoned # {}

(* A copy and a retry come to an end, however cursors and writes fail, and so does
   every save. *)
RunsProceed == (pc \notin {"idle", "tail"}) ~> (pc \in {"idle", "tail"})

(* While a process tails the oplog every change behind its start gets to a worker
   and through it, whatever queue is full at first, unless the process ends. *)
CatchesUp ==
  \A n \in 1 .. MaxChanges :
    (pc = "tail" /\ n <= Now /\ n > tail.after)
      ~> (pc = "idle" \/ (tail.latest >= n /\ n \notin Queued))
=============================================================================
